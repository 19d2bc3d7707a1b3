--------------------------- MODULE Libwabt_proofs ---------------------------
(***************************************************************************)
(* What the JavaScript API of libwabt keeps to, whatever program calls it: *)
(* no C function is given an object that is not there, a call leaves in    *)
(* the heap only what belongs to somebody, and no call touches a module it *)
(* was not called on.                                                      *)
(*                                                                         *)
(* The invariant, IndInv, says whose every object of the heap is: of one   *)
(* module of the program, of the call under way, or nobody's (lost).  Of a *)
(* call it says which variables are set at each of its steps (Reached) and *)
(* which of them it has to destroy (Belongs), by the number of steps that  *)
(* are left.  Each kind of step is a lemma on what it does to the heap and *)
(* one on what it does to the variables.                                   *)
(***************************************************************************)
EXTENDS LibwabtClients, WellFoundedInduction, TLAPS

-----------------------------------------------------------------------------
(* The inductive invariant. *)

TextSlots == {"filename", "buffer", "lexer"}

Transient == {"features", "result", "output", "log"}

Methods == DOMAIN Fn \ (Readers \cup {"destroy"})

\* A free place, and one that holds an object.
ObjectOK(o) ==
    /\ o = [kind |-> o.kind, uses |-> o.uses, owns |-> o.owns, content |-> o.content]
    /\ o.kind \notin {"lexer", "module"} => o.uses = {}
    /\ o.kind # "result" => o.owns = {}

\* Each of these variables leads to an object of its kind, and no two to one.
Leads(h, obj, slots) ==
    /\ \A s \in slots : obj[s] # Null => h[obj[s]].kind = KindOf(s)
    /\ \A s, t \in slots : obj[s] = obj[t] /\ obj[s] # Null => s = t

\* A module has its errors, which have a lexer if it was a text.
Shape(m) ==
    /\ \A s \in Transient : m[s] = Null
    /\ m["module"] # Null /\ m["errors"] # Null
    /\ m["lexer"] = Null <=> m["buffer"] = Null
    /\ m["lexer"] = Null <=> m["filename"] = Null

ModuleOK(h, m) ==
    /\ m \in [Slots -> Addr \cup {Null}]
    /\ Shape(m)
    /\ Leads(h, m, Slots)
    /\ h[m["module"]].uses \subseteq {m["lexer"]} \ {Null}
    /\ m["lexer"] # Null => h[m["lexer"]].uses = {m["buffer"]}

StepNames ==
    {"filename", "buffer", "lexer", "errors", "options", "features", "parse", "read", "wrap",
     "validate", "names", "write", "output", "log", "convert", "~result", "~features",
     "~errors", "~buffer", "~module", "~output", "~log"}

\* A function's steps, counted from its last one, and those that are left.
Program(fn) == Fn[fn].setup \o Fn[fn].body \o Fn[fn].cleanup

StepAt(fn, n) == Program(fn)[Len(Program(fn)) + 1 - n]

Rest(fn, todo) ==
    /\ todo \in Seq(StepNames)
    /\ Len(todo) <= Len(Program(fn))
    /\ \A i \in 1..Len(todo) : todo[i] = StepAt(fn, Len(todo) + 1 - i)

\* The call under way has to destroy what this variable leads to, or has not
\* decided yet who will.
Belongs(fn, n, obj, s) ==
    \/ /\ fn = "parseWat"
       /\ \/ s = "result" /\ n >= 3
          \/ s = "features" /\ n >= 2
          \/ s = "errors" /\ n >= 1
          \/ s \in TextSlots /\ (n >= 7 \/ (n >= 1 /\ obj["errors"] # Null))
    \/ /\ fn = "readWasm"
       /\ \/ s = "result" /\ n >= 4
          \/ s = "features" /\ n >= 3
          \/ s = "errors" /\ n >= 2
          \/ s = "buffer" /\ n >= 1
    \/ fn = "validate" /\ s = "features" /\ n >= 1
    \/ fn = "toText" /\ ((s = "output" /\ n >= 2) \/ (s = "result" /\ n >= 1))
    \/ /\ fn = "toBinary"
       /\ \/ s = "output" /\ n >= 3
          \/ s = "log" /\ n >= 2
          \/ s = "result" /\ n >= 1
    \/ /\ fn = "destroy"
       /\ \/ s = "module" /\ n >= 2
          \/ s \in TextSlots \cup {"errors"} /\ n >= 1

Mine(fn, n, obj) == {s \in Slots : obj[s] # Null /\ Belongs(fn, n, obj, s)}

\* What these variables lead to, with what a result owns.
OwnOf(h, obj, M) ==
    {obj[s] : s \in M} \cup (IF "result" \in M THEN h[obj["result"]].owns ELSE {})

Own(h, fn, n, obj) == OwnOf(h, obj, Mine(fn, n, obj))

\* Which variables are set where.
Reached(fn, n, obj) ==
    /\ fn = "parseWat" =>
          /\ n <= 10
          /\ \A s \in {"module", "output", "log"} : obj[s] = Null
          /\ obj["filename"] # Null <=> n < 10
          /\ obj["buffer"] # Null <=> n < 9
          /\ obj["lexer"] # Null <=> n < 8
          /\ obj["features"] # Null <=> n < 6
          /\ obj["result"] # Null <=> n < 5
          /\ n >= 7 => obj["errors"] = Null
          /\ n \in 4..6 => obj["errors"] # Null
    /\ fn = "readWasm" =>
          /\ n <= 10
          /\ \A s \in {"filename", "lexer", "module", "output", "log"} : obj[s] = Null
          /\ obj["buffer"] # Null <=> n < 10
          /\ obj["features"] # Null <=> n < 7
          /\ obj["result"] # Null <=> n < 6
          /\ n >= 9 => obj["errors"] = Null
          /\ n \in 5..8 => obj["errors"] # Null
    /\ fn = "validate" =>
          /\ n <= 3
          /\ \A s \in {"result", "output", "log"} : obj[s] = Null
          /\ obj["features"] # Null <=> n < 3
    /\ fn \in {"resolveNames", "generateNames", "applyNames"} =>
          n <= 1 /\ \A s \in Transient : obj[s] = Null
    /\ fn = "toText" =>
          /\ n <= 6
          /\ obj["features"] = Null /\ obj["log"] = Null
          /\ obj["result"] # Null <=> n < 5
          /\ n >= 4 => obj["output"] = Null
    /\ fn = "toBinary" =>
          /\ n <= 8
          /\ obj["features"] = Null
          /\ obj["result"] # Null <=> n < 7
          /\ n >= 6 => obj["output"] = Null
          /\ n >= 5 => obj["log"] = Null
    /\ fn = "destroy" => n <= 2 /\ Shape(obj)

\* What a result owns, until the call has taken it over.
Contents(fn) == IF fn \in Readers THEN {"module"} ELSE {"output", "log"}

ResultOK(h, fn, obj, M) ==
    LET r == h[obj["result"]]
    IN  /\ r.content \in BOOLEAN
        /\ r.owns \subseteq Addr
        /\ \A s \in M : obj[s] \notin r.owns
        /\ \A a \in r.owns :
              /\ h[a].content \in Contents(fn) /\ h[a].kind = KindOf(h[a].content)
              /\ fn = "parseWat" => h[a].uses = {obj["lexer"]}
              /\ fn = "readWasm" => h[a].uses = {}
        /\ \A a, b \in r.owns : h[a].content = h[b].content => a = b

Bound(h, fn, obj, M) ==
    /\ M \subseteq Slots /\ \A s \in M : obj[s] \in Addr
    /\ Leads(h, obj, M)
    /\ "lexer" \in M => "buffer" \in M /\ h[obj["lexer"]].uses = {obj["buffer"]}
    /\ "result" \in M => ResultOK(h, fn, obj, M)

\* There is a module to wrap when there is none to be sorry for.
Loaded(h, fn, n, obj) ==
    (fn = "parseWat" /\ n = 4) \/ (fn = "readWasm" /\ n = 5) =>
        (h[obj["result"]].content => h[obj["result"]].owns # {})

Local(h, fn, n, obj) ==
    /\ obj \in [Slots -> Addr \cup {Null}]
    /\ Reached(fn, n, obj)
    /\ Bound(h, fn, obj, Mine(fn, n, obj))
    /\ Loaded(h, fn, n, obj)

\* The module that a method was called on.
This(obj) == [s \in Slots |-> IF s \in Transient THEN Null ELSE obj[s]]

CallOK(h, ms, c) ==
    \/ c = NoCall
    \/ /\ c = [fn |-> c.fn, todo |-> c.todo, obj |-> c.obj, options |-> c.options,
               input |-> c.input]
       /\ c.fn \in DOMAIN Fn
       /\ Rest(c.fn, c.todo)
       /\ Local(h, c.fn, Len(c.todo), c.obj)
       /\ c.fn \in Methods => This(c.obj) \in ms

LiveIn(h) == {a \in Addr : h[a].kind # "free"}

Addresses(m) == {a \in Addr : \E s \in Slots : m[s] = a}

HeldBy(ms) == {a \in Addr : \E m \in ms : a \in Addresses(m)}

World(h, ms, l, C) ==
    /\ h = [a \in Addr |-> h[a]]
    /\ \A a \in Addr : ObjectOK(h[a])
    /\ \A m \in ms : ModuleOK(h, m)
    /\ \A m1, m2 \in ms : \A s, t \in Slots : m1[s] = m2[t] /\ m1[s] # Null => m1 = m2
    /\ LiveIn(h) = HeldBy(ms) \cup l \cup C
    /\ HeldBy(ms) \cap C = {}
    /\ l \cap (HeldBy(ms) \cup C) = {}

IndInv ==
    /\ CallOK(heap, modules, call)
    /\ World(heap, modules, lost, Own(heap, call.fn, Len(call.todo), call.obj))
    /\ ~misused

OptionRecords ==
    [defined : BOOLEAN, named : SUBSET Range(FEATURES), on : SUBSET Range(FEATURES),
     log : BOOLEAN]

Calls == [fn : DOMAIN Fn, options : OptionRecords]

\* A page reads one module, with the first call of its plan.
Planned(q) ==
    q \in Seq(Calls) /\ \A i \in 2..Len(q) : q[i].fn \notin Readers

ClientInv ==
    /\ compiling => Page
    /\ Page =>
        /\ Planned(plan)
        /\ \A m1, m2 \in modules : m1 = m2
        /\ ~compiling => modules = {} /\ plan = << >> /\ call.fn \notin Readers
        /\ plan # << >> /\ Head(plan).fn \in Readers => modules = {} /\ Idle
        /\ call.fn = "parseWat" /\ Len(call.todo) >= 4 => modules = {}
        /\ call.fn = "readWasm" /\ Len(call.todo) >= 5 => modules = {}

-----------------------------------------------------------------------------
(* The heap, and whose its objects are.                                    *)

-----------------------------------------------------------------------------
(* What becomes of the heap.  C are the addresses that the call under way has to
   see to, l those that are lost, ms the modules of the program. *)

\* No object has the null address.
LEMMA Addressed == Null \notin Addr /\ Null = 0 BY DEF Addr, Null

\* The kinds, one by one, for provers that cannot read a CASE.
LEMMA KindOfSlots ==
    /\ KindOf("filename") = "malloc" /\ KindOf("buffer") = "malloc"
    /\ KindOf("output") = "OutputBuffer" /\ KindOf("log") = "OutputBuffer"
    /\ KindOf("lexer") = "lexer" /\ KindOf("errors") = "errors"
    /\ KindOf("features") = "features" /\ KindOf("result") = "result"
    /\ KindOf("module") = "module"
<1>1. KindOf("filename") = "malloc" /\ KindOf("buffer") = "malloc" BY Zenon DEF KindOf
<1>2. KindOf("output") = "OutputBuffer" BY Zenon DEF KindOf
<1>3. KindOf("log") = "OutputBuffer" BY Zenon DEF KindOf
<1>4. KindOf("lexer") = "lexer" BY Zenon DEF KindOf
<1>5. KindOf("errors") = "errors" BY Zenon DEF KindOf
<1>6. KindOf("features") = "features" BY Zenon DEF KindOf
<1>7. KindOf("result") = "result" BY Zenon DEF KindOf
<1>8. KindOf("module") = "module" BY Zenon DEF KindOf
<1> QED BY <1>1, <1>2, <1>3, <1>4, <1>5, <1>6, <1>7, <1>8

\* A variable that is set leads to an object.
LEMMA NotFree == \A s \in Slots : KindOf(s) # "free"
<1>1. /\ KindOf("filename") # "free" /\ KindOf("buffer") # "free" /\ KindOf("lexer") # "free"
      /\ KindOf("errors") # "free" /\ KindOf("features") # "free" /\ KindOf("result") # "free"
      /\ KindOf("module") # "free" /\ KindOf("output") # "free" /\ KindOf("log") # "free"
  BY KindOfSlots
<1> QED BY <1>1 DEF Slots

\* What becomes of three parts of the heap when one of them loses something.
LEMMA Apart ==
    ASSUME NEW H, NEW l, NEW C, NEW D, H \cap C = {}, l \cap C = {}, D \subseteq C
    PROVE  /\ (C \ D) \cap (H \cup l) = {}
           /\ (H \cup l \cup C) \ D = (H \cup l) \cup (C \ D)
  OBVIOUS

\* A module's objects are live, and it is as it was when they are.
LEMMA ModuleLive ==
    ASSUME NEW h, NEW m, ModuleOK(h, m)
    PROVE  /\ Addresses(m) \subseteq LiveIn(h)
           /\ \A s \in Slots : m[s] \in Addresses(m) \/ m[s] = Null
           /\ \A s \in Slots : m[s] # Null => m[s] \in Addresses(m)
<1>1. m \in [Slots -> Addr \cup {Null}] /\ \A s \in Slots : m[s] # Null => h[m[s]].kind = KindOf(s)
  BY DEF ModuleOK, Leads
<1> QED BY <1>1, NotFree, Addressed DEF Addresses, LiveIn

\* A module does not depend on objects that are not its own.
LEMMA ModuleKept ==
    ASSUME NEW h, NEW g, NEW m, ModuleOK(h, m), \A a \in Addresses(m) : g[a] = h[a]
    PROVE  ModuleOK(g, m)
<1>1. \A s \in Slots : m[s] # Null => g[m[s]] = h[m[s]] BY ModuleLive
<1>2. "module" \in Slots /\ "lexer" \in Slots BY DEF Slots
<1>3. Leads(g, m, Slots) BY <1>1 DEF ModuleOK, Leads
<1>4. m["module"] # Null BY DEF ModuleOK, Shape
<1> QED BY <1>1, <1>2, <1>3, <1>4 DEF ModuleOK

\* The heap may change wherever neither a module's objects nor lost ones are.
LEMMA WorldKept ==
    ASSUME NEW h, NEW ms, NEW l, NEW C, World(h, ms, l, C), NEW g, NEW D,
           g = [a \in Addr |-> g[a]], \A a \in Addr : ObjectOK(g[a]),
           \A a \in HeldBy(ms) \cup l : g[a] = h[a],
           LiveIn(g) = (HeldBy(ms) \cup l) \cup D, D \cap (HeldBy(ms) \cup l) = {}
    PROVE  World(g, ms, l, D)
<1>1. \A m \in ms : ModuleOK(g, m)
  <2> TAKE m \in ms
  <2>1. ModuleOK(h, m) BY DEF World
  <2>2. \A a \in Addresses(m) : a \in HeldBy(ms) BY DEF Addresses, HeldBy
  <2> QED BY <2>1, <2>2, ModuleKept
<1>2. /\ l \cap HeldBy(ms) = {}
      /\ \A m1, m2 \in ms : \A s, t \in Slots : m1[s] = m2[t] /\ m1[s] # Null => m1 = m2
  BY DEF World
<1>3. LiveIn(g) = HeldBy(ms) \cup l \cup D OBVIOUS
<1>4. HeldBy(ms) \cap D = {} /\ l \cap (HeldBy(ms) \cup D) = {} BY <1>2
<1> QED BY <1>1, <1>2, <1>3, <1>4 DEF World

\* A new object is the call's, and nothing else has changed.
LEMMA Allocated ==
    ASSUME NEW h, NEW ms, NEW l, NEW C, World(h, ms, l, C), HasRoom(h),
           NEW o, ObjectOK(o), o.kind # "free",
           NEW a, a = Fresh(h), NEW g, g = Alloc(h, o)
    PROVE  /\ a \in Addr /\ h[a].kind = "free" /\ a # Null
           /\ a \notin HeldBy(ms) /\ a \notin l /\ a \notin C
           /\ g[a] = o /\ \A b \in Addr : b # a => g[b] = h[b]
           /\ World(g, ms, l, C \cup {a})
<1>1. a \in Addr /\ h[a].kind = "free" BY DEF Fresh, HasRoom
<1>2. h = [b \in Addr |-> h[b]] /\ LiveIn(h) = HeldBy(ms) \cup l \cup C
      /\ \A b \in Addr : ObjectOK(h[b])
  BY DEF World
<1>3. g = [h EXCEPT ![a] = o] BY DEF Alloc
<1>4. g = [b \in Addr |-> g[b]] /\ g[a] = o /\ \A b \in Addr : b # a => g[b] = h[b]
  BY <1>1, <1>2, <1>3
<1>5. a \notin HeldBy(ms) /\ a \notin l /\ a \notin C BY <1>1, <1>2 DEF LiveIn
<1>6. LiveIn(g) = LiveIn(h) \cup {a} BY <1>1, <1>4 DEF LiveIn
<1>7. \A b \in HeldBy(ms) \cup l : b \in Addr /\ b # a BY <1>2, <1>5 DEF LiveIn
<1>8. HeldBy(ms) \cap C = {} /\ l \cap C = {} BY DEF World
<1>9. World(g, ms, l, C \cup {a})
  <2> DEFINE D == C \cup {a}
  <2>1. LiveIn(g) = (HeldBy(ms) \cup l) \cup D BY <1>2, <1>6
  <2>2. D \cap (HeldBy(ms) \cup l) = {} BY <1>5, <1>8
  <2>3. \A b \in Addr : ObjectOK(g[b]) BY <1>2, <1>4
  <2>4. \A b \in HeldBy(ms) \cup l : g[b] = h[b] BY <1>4, <1>7
  <2> HIDE DEF D
  <2>5. World(g, ms, l, D) BY <1>4, <2>1, <2>2, <2>3, <2>4, WorldKept
  <2> QED BY <2>5 DEF D
<1> QED BY <1>1, <1>4, <1>5, <1>9, Addressed

\* A free place.
LEMMA FreeOK == ObjectOK(Free) /\ Free.kind = "free"
  BY DEF Free, Object, ObjectOK

\* What is freed is the call's no more, and nothing else has changed.
LEMMA Freed ==
    ASSUME NEW h, NEW ms, NEW l, NEW C, World(h, ms, l, C), NEW D, D \subseteq C,
           NEW g, g = [a \in Addr |-> IF a \in D THEN Free ELSE h[a]]
    PROVE  /\ World(g, ms, l, C \ D)
           /\ \A a \in Addr \ D : g[a] = h[a]
<1>1. \A a \in Addr : g[a] = IF a \in D THEN Free ELSE h[a] OBVIOUS
<1>2. /\ LiveIn(h) = HeldBy(ms) \cup l \cup C /\ HeldBy(ms) \cap C = {} /\ l \cap C = {}
      /\ \A b \in Addr : ObjectOK(h[b])
  BY DEF World
<1>3. LiveIn(g) = LiveIn(h) \ D BY <1>1, FreeOK DEF LiveIn
<1>4. \A a \in HeldBy(ms) \cup l : a \in Addr /\ a \notin D BY <1>2 DEF LiveIn
<1> DEFINE E == C \ D
<1>5. /\ LiveIn(g) = (HeldBy(ms) \cup l) \cup E
      /\ E \cap (HeldBy(ms) \cup l) = {}
  <2> DEFINE H == HeldBy(ms)
  <2>1. LiveIn(g) = (H \cup l \cup C) \ D BY <1>2, <1>3
  <2>2. H \cap C = {} /\ l \cap C = {} BY <1>2
  <2> HIDE DEF H
  <2> QED BY Zenon, <2>1, <2>2, Apart DEF H
<1>7. \A a \in Addr : ObjectOK(g[a])
  <2> TAKE a \in Addr
  <2>1. g[a] = Free \/ g[a] = h[a] BY <1>1
  <2> QED BY <2>1, <1>2, FreeOK
<1>8. \A a \in HeldBy(ms) \cup l : g[a] = h[a]
  <2> TAKE a \in HeldBy(ms) \cup l
  <2>1. a \in Addr /\ a \notin D BY <1>4
  <2> QED BY <2>1, <1>1
<1>9. g = [a \in Addr |-> g[a]] OBVIOUS
<1> HIDE DEF E
<1>10. World(g, ms, l, E) BY <1>5, <1>7, <1>8, <1>9, WorldKept
<1> QED BY <1>1, <1>10 DEF E

\* An object of the call changes, a result is rid of what it owns.
LEMMA Changed ==
    ASSUME NEW h, NEW ms, NEW l, NEW C, World(h, ms, l, C), NEW r \in C,
           NEW g, g = [a \in Addr |-> g[a]], ObjectOK(g[r]), g[r].kind # "free",
           \A a \in Addr : a # r => g[a] = h[a]
    PROVE  World(g, ms, l, C)
<1>1. /\ LiveIn(h) = HeldBy(ms) \cup l \cup C /\ HeldBy(ms) \cap C = {} /\ l \cap C = {}
      /\ \A b \in Addr : ObjectOK(h[b])
  BY DEF World
<1>2. r \in Addr BY <1>1 DEF LiveIn
<1>3. \A a \in Addr : ObjectOK(g[a]) BY <1>1
<1>4. LiveIn(g) = (HeldBy(ms) \cup l) \cup C BY <1>1, <1>2 DEF LiveIn
<1>5. \A a \in HeldBy(ms) \cup l : g[a] = h[a]
  <2>1. \A a \in HeldBy(ms) \cup l : a \in Addr /\ a # r BY <1>1 DEF LiveIn
  <2> QED BY <2>1
<1>6. C \cap (HeldBy(ms) \cup l) = {} BY <1>1
<1> QED BY <1>3, <1>4, <1>5, <1>6, WorldKept

\* A result stays one when something of what it owns is taken from it.
LEMMA Rid ==
    ASSUME NEW p, ObjectOK(p), p.kind = "result", NEW X,
           NEW o, o = [p EXCEPT !.owns = @ \ X]
    PROVE  o.kind = "result" /\ o.owns = p.owns \ X /\ o.content = p.content
           /\ o.uses = p.uses /\ ObjectOK(o)
<1>1. p = [kind |-> p.kind, uses |-> p.uses, owns |-> p.owns, content |-> p.content]
      /\ p.kind = "result" /\ p.uses = {}
  BY DEF ObjectOK
<1>2. o = [kind |-> p.kind, uses |-> p.uses, owns |-> p.owns \ X, content |-> p.content]
  BY <1>1
<1>3. o.kind = "result" /\ o.owns = p.owns \ X /\ o.content = p.content /\ o.uses = p.uses
  BY <1>1, <1>2
<1> QED BY <1>1, <1>2, <1>3 DEF ObjectOK

RidOf(h, r, X) == [h EXCEPT ![r].owns = @ \ X]

\* Nor does the heap change elsewhere then.
LEMMA Released ==
    ASSUME NEW h, NEW ms, NEW l, NEW C, World(h, ms, l, C), NEW r \in C,
           h[r].kind = "result", NEW X, NEW g, g = RidOf(h, r, X)
    PROVE  /\ World(g, ms, l, C)
           /\ g[r].kind = "result" /\ g[r].owns = h[r].owns \ X
           /\ g[r].content = h[r].content /\ g[r].uses = h[r].uses
           /\ \A a \in Addr : a # r => g[a] = h[a]
<1> DEFINE p == h[r]
           o == [p EXCEPT !.owns = @ \ X]
<1>1. g = [h EXCEPT ![r] = o] BY Zenon DEF RidOf
<1>2. ObjectOK(p) BY DEF World, LiveIn
<1>3. p.kind = "result" OBVIOUS
<1> HIDE DEF p
<1>4. o.kind = "result" /\ o.owns = p.owns \ X /\ o.content = p.content
      /\ o.uses = p.uses /\ ObjectOK(o)
  BY Zenon, <1>2, <1>3, Rid
<1> HIDE DEF o
<1>5. h = [a \in Addr |-> h[a]] /\ r \in Addr BY DEF World, LiveIn
<1>6. g = [a \in Addr |-> g[a]] /\ g[r] = o /\ \A a \in Addr : a # r => g[a] = h[a]
  BY <1>1, <1>5
<1>7. World(g, ms, l, C)
  <2>1. ObjectOK(g[r]) /\ g[r].kind # "free" BY <1>4, <1>6
  <2> QED BY ONLY World(h, ms, l, C), r \in C, <1>6, <2>1, Changed
<1> QED BY Zenon, <1>4, <1>6, <1>7 DEF p

\* A module that the program gets takes its objects from the call.
LEMMA Given ==
    ASSUME NEW h, NEW ms, NEW l, NEW C, World(h, ms, l, C), NEW m, ModuleOK(h, m),
           Addresses(m) \subseteq C
    PROVE  World(h, ms \cup {m}, l, C \ Addresses(m))
<1>1. /\ LiveIn(h) = HeldBy(ms) \cup l \cup C
      /\ \A b \in Addr : ObjectOK(h[b])
      /\ HeldBy(ms) \cap C = {} /\ l \cap (HeldBy(ms) \cup C) = {} /\ h = [a \in Addr |-> h[a]]
      /\ \A n \in ms : ModuleOK(h, n)
      /\ \A m1, m2 \in ms : \A s, t \in Slots : m1[s] = m2[t] /\ m1[s] # Null => m1 = m2
  BY DEF World
<1> DEFINE ns == ms \cup {m}
<1>2. HeldBy(ns) = HeldBy(ms) \cup Addresses(m) BY DEF HeldBy, Addresses
<1>3. \A s \in Slots : m[s] # Null => m[s] \in C BY ModuleLive
<1>4. \A n \in ms : \A s \in Slots : n[s] # Null => n[s] \notin C
  <2>1. \A n \in ms : \A s \in Slots : n[s] # Null => n[s] \in HeldBy(ms)
    BY <1>1, ModuleLive DEF HeldBy, Addresses
  <2> QED BY <1>1, <2>1
<1>5. \A m1, m2 \in ns : \A s, t \in Slots : m1[s] = m2[t] /\ m1[s] # Null => m1 = m2
  BY <1>1, <1>3, <1>4
<1>6. \A n \in ns : ModuleOK(h, n) BY <1>1
<1> HIDE DEF ns
<1>7. LiveIn(h) = HeldBy(ns) \cup l \cup (C \ Addresses(m)) BY <1>1, <1>2
<1>8. HeldBy(ns) \cap (C \ Addresses(m)) = {} BY <1>1, <1>2
<1>9. l \cap (HeldBy(ns) \cup (C \ Addresses(m))) = {} BY <1>1, <1>2
<1>10. World(h, ns, l, C \ Addresses(m)) BY <1>1, <1>5, <1>6, <1>7, <1>8, <1>9 DEF World
<1> QED BY <1>10 DEF ns

\* A call that ends without destroying what it holds has lost it.
LEMMA Lost ==
    ASSUME NEW h, NEW ms, NEW l, NEW C, World(h, ms, l, C)
    PROVE  World(h, ms, l \cup C, {})
<1>1. LiveIn(h) = HeldBy(ms) \cup (l \cup C) \cup {} BY DEF World
<1>2. HeldBy(ms) \cap {} = {} /\ (l \cup C) \cap (HeldBy(ms) \cup {}) = {} BY DEF World
<1> QED BY <1>1, <1>2 DEF World

\* Of a module that the program has given up, the call has the objects.
LEMMA Taken ==
    ASSUME NEW h, NEW ms, NEW l, World(h, ms, l, {}), NEW m \in ms
    PROVE  World(h, ms \ {m}, l, Addresses(m))
<1>1. /\ LiveIn(h) = HeldBy(ms) \cup l /\ l \cap HeldBy(ms) = {}
      /\ \A n \in ms : ModuleOK(h, n)
      /\ \A m1, m2 \in ms : \A s, t \in Slots : m1[s] = m2[t] /\ m1[s] # Null => m1 = m2
  BY DEF World
<1> DEFINE ns == ms \ {m}
<1>2. HeldBy(ms) = HeldBy(ns) \cup Addresses(m) BY DEF HeldBy, Addresses
<1>3. HeldBy(ns) \cap Addresses(m) = {}
  <2> SUFFICES ASSUME NEW n \in ns, NEW a \in Addresses(n), a \in Addresses(m) PROVE FALSE
    BY DEF HeldBy
  <2>1. PICK s \in Slots : n[s] = a BY DEF Addresses
  <2>2. PICK t \in Slots : m[t] = a BY DEF Addresses
  <2>3. a # Null BY Addressed DEF Addresses
  <2> QED BY <1>1, <2>1, <2>2, <2>3
<1>4. LiveIn(h) = HeldBy(ns) \cup l \cup Addresses(m) BY <1>1, <1>2
<1>5. l \cap (HeldBy(ns) \cup Addresses(m)) = {} BY <1>1, <1>2
<1>6. /\ \A n \in ns : ModuleOK(h, n)
      /\ \A m1, m2 \in ns : \A s, t \in Slots : m1[s] = m2[t] /\ m1[s] # Null => m1 = m2
  BY <1>1
<1>7. h = [a \in Addr |-> h[a]] /\ \A a \in Addr : ObjectOK(h[a]) BY DEF World
<1> HIDE DEF ns
<1>8. World(h, ns, l, Addresses(m)) BY <1>3, <1>4, <1>5, <1>6, <1>7 DEF World
<1> QED BY <1>8 DEF ns

-----------------------------------------------------------------------------
(* What a call holds: one more object, one less, or the same.              *)

\* Of the objects of the call, which kinds point into others or own them.
LEMMA BoundFacts ==
    ASSUME NEW h, NEW fn, NEW obj, NEW M, Bound(h, fn, obj, M)
    PROVE  /\ M \subseteq Slots
           /\ \A s \in M : obj[s] \in Addr /\ obj[s] # Null /\ h[obj[s]].kind = KindOf(s)
           /\ \A s, t \in M : obj[s] = obj[t] => s = t
           /\ "result" \in M => ResultOK(h, fn, obj, M)
           /\ OwnOf(h, obj, M) \subseteq Addr
           /\ \A s \in M : obj[s] \in OwnOf(h, obj, M)
           /\ "result" \in M => h[obj["result"]].owns \subseteq OwnOf(h, obj, M)
<1>1. /\ M \subseteq Slots
      /\ \A s \in M : obj[s] \in Addr /\ obj[s] # Null /\ h[obj[s]].kind = KindOf(s)
      /\ \A s, t \in M : obj[s] = obj[t] => s = t
  BY Addressed DEF Bound, Leads
<1>2. "result" \in M => ResultOK(h, fn, obj, M) BY DEF Bound
<1>3. "result" \in M => h[obj["result"]].owns \subseteq Addr BY <1>2 DEF ResultOK
<1>4. OwnOf(h, obj, M) \subseteq Addr BY <1>1, <1>3 DEF OwnOf
<1>5. \A s \in M : obj[s] \in OwnOf(h, obj, M) BY DEF OwnOf
<1>6. "result" \in M => h[obj["result"]].owns \subseteq OwnOf(h, obj, M) BY DEF OwnOf
<1> QED BY <1>1, <1>2, <1>4, <1>5, <1>6

\* What the call holds is not touched by what happens elsewhere.
LEMMA BoundKept ==
    ASSUME NEW h, NEW fn, NEW obj, NEW M, Bound(h, fn, obj, M),
           NEW g, \A a \in OwnOf(h, obj, M) : g[a] = h[a],
           NEW p, \A s \in M : p[s] = obj[s], p["lexer"] = obj["lexer"]
    PROVE  Bound(g, fn, p, M) /\ OwnOf(g, p, M) = OwnOf(h, obj, M)
<1>1. /\ M \subseteq Slots
      /\ \A s \in M : p[s] \in Addr /\ p[s] # Null /\ g[p[s]] = h[obj[s]]
      /\ \A s \in M : g[p[s]].kind = KindOf(s)
      /\ \A s, t \in M : p[s] = p[t] => s = t
  BY BoundFacts
<1>2. Leads(g, p, M) BY <1>1 DEF Leads
<1>3. "lexer" \in M => "buffer" \in M /\ g[p["lexer"]].uses = {p["buffer"]}
  BY <1>1 DEF Bound
<1>4. ASSUME "result" \in M PROVE ResultOK(g, fn, p, M)
  <2>1. ResultOK(h, fn, obj, M) BY <1>4, BoundFacts
  <2>2. g[p["result"]] = h[obj["result"]] BY <1>1, <1>4
  <2>3. \A a \in h[obj["result"]].owns : g[a] = h[a] BY <1>4, BoundFacts
  <2> QED BY <2>1, <2>2, <2>3 DEF ResultOK
<1>5. Bound(g, fn, p, M) BY <1>1, <1>2, <1>3, <1>4 DEF Bound
<1>6. OwnOf(g, p, M) = OwnOf(h, obj, M) BY <1>1 DEF OwnOf
<1> QED BY <1>5, <1>6

\* The same with the variables as they are.
LEMMA BoundSame ==
    ASSUME NEW h, NEW fn, NEW obj, NEW M, Bound(h, fn, obj, M),
           NEW g, \A a \in OwnOf(h, obj, M) : g[a] = h[a]
    PROVE  Bound(g, fn, obj, M) /\ OwnOf(g, obj, M) = OwnOf(h, obj, M)
<1> DEFINE p == obj
<1>1. /\ \A s \in M : p[s] = obj[s]
      /\ p["lexer"] = obj["lexer"]
  OBVIOUS
<1> HIDE DEF p
<1>2. Bound(g, fn, p, M) /\ OwnOf(g, p, M) = OwnOf(h, obj, M) BY <1>1, BoundKept
<1> QED BY <1>2 DEF p

\* Of less than all.
LEMMA BoundLess ==
    ASSUME NEW h, NEW fn, NEW obj, NEW M, Bound(h, fn, obj, M),
           NEW D, D \subseteq M, "lexer" \in M \ D => "buffer" \notin D
    PROVE  /\ Bound(h, fn, obj, M \ D)
           /\ OwnOf(h, obj, M \ D) = OwnOf(h, obj, M) \ OwnOf(h, obj, D)
           /\ OwnOf(h, obj, D) \subseteq OwnOf(h, obj, M)
<1>1. "result" \in M \ D => ResultOK(h, fn, obj, M \ D) BY BoundFacts DEF ResultOK
<1>2. Bound(h, fn, obj, M \ D) BY <1>1 DEF Bound, Leads
<1>3. OwnOf(h, obj, D) \subseteq OwnOf(h, obj, M) BY DEF OwnOf
<1>4. OwnOf(h, obj, M) \subseteq OwnOf(h, obj, M \ D) \cup OwnOf(h, obj, D) BY DEF OwnOf
<1>5. OwnOf(h, obj, M \ D) \cap OwnOf(h, obj, D) = {}
  <2>1. {obj[s] : s \in M \ D} \cap {obj[s] : s \in D} = {} BY BoundFacts
  <2>2. "result" \in M => \A s \in M : obj[s] \notin h[obj["result"]].owns
    BY BoundFacts DEF ResultOK
  <2> QED BY <2>1, <2>2 DEF OwnOf
<1>6. OwnOf(h, obj, M \ D) \subseteq OwnOf(h, obj, M) BY DEF OwnOf
<1> QED BY <1>2, <1>3, <1>4, <1>5, <1>6

\* What some of a call's variables lead to is freed.
LEMMA BoundFreed ==
    ASSUME NEW h, NEW ms, NEW l, NEW fn, NEW obj, NEW M, Bound(h, fn, obj, M),
           World(h, ms, l, OwnOf(h, obj, M)),
           NEW D, D \subseteq M, "lexer" \in M \ D => "buffer" \notin D,
           NEW g, g = [a \in Addr |-> IF a \in OwnOf(h, obj, D) THEN Free ELSE h[a]]
    PROVE  Bound(g, fn, obj, M \ D) /\ World(g, ms, l, OwnOf(g, obj, M \ D))
<1>1. /\ Bound(h, fn, obj, M \ D)
      /\ OwnOf(h, obj, M \ D) = OwnOf(h, obj, M) \ OwnOf(h, obj, D)
      /\ OwnOf(h, obj, D) \subseteq OwnOf(h, obj, M)
  BY BoundLess
<1>2. /\ World(g, ms, l, OwnOf(h, obj, M) \ OwnOf(h, obj, D))
      /\ \A a \in Addr \ OwnOf(h, obj, D) : g[a] = h[a]
  BY <1>1, Freed
<1>3. \A a \in OwnOf(h, obj, M \ D) : g[a] = h[a]
  <2>1. OwnOf(h, obj, M \ D) \subseteq Addr BY <1>1, BoundFacts
  <2> QED BY <1>1, <1>2, <2>1
<1>4. Bound(g, fn, obj, M \ D) /\ OwnOf(g, obj, M \ D) = OwnOf(h, obj, M \ D)
  BY <1>1, <1>3, BoundKept
<1> QED BY <1>1, <1>2, <1>4

\* Setting a variable that leads nowhere yet.
SetTo(obj, slot, a) == [obj EXCEPT ![slot] = a]

\* What setting a variable does to the others.
LEMMA Set ==
    ASSUME NEW obj \in [Slots -> Addr \cup {Null}], NEW slot \in Slots,
           NEW a \in Addr \cup {Null}, NEW p, p = SetTo(obj, slot, a)
    PROVE  /\ p \in [Slots -> Addr \cup {Null}]
           /\ p[slot] = a /\ \A s \in Slots : s # slot => p[s] = obj[s]
  BY DEF SetTo

\* A variable more that the call answers for.
LEMMA BoundMore ==
    ASSUME NEW h, NEW fn, NEW obj, NEW M, Bound(h, fn, obj, M),
           NEW slot \in Slots, slot \notin M, slot # "result",
           obj[slot] \in Addr, h[obj[slot]].kind = KindOf(slot),
           \A s \in M : obj[s] # obj[slot],
           "result" \in M => obj[slot] \notin h[obj["result"]].owns,
           slot = "lexer" => "buffer" \in M /\ h[obj["lexer"]].uses = {obj["buffer"]}
    PROVE  /\ Bound(h, fn, obj, M \cup {slot})
           /\ OwnOf(h, obj, M \cup {slot}) = OwnOf(h, obj, M) \cup {obj[slot]}
<1> DEFINE N == M \cup {slot}
<1>1. "result" \in N <=> "result" \in M OBVIOUS
<1>2. N \subseteq Slots /\ \A s \in N : obj[s] \in Addr BY BoundFacts
<1>3. Leads(h, obj, N) BY BoundFacts DEF Leads
<1>4. "lexer" \in N => "buffer" \in N /\ h[obj["lexer"]].uses = {obj["buffer"]}
  BY DEF Bound
<1>5. OwnOf(h, obj, N) = OwnOf(h, obj, M) \cup {obj[slot]} BY <1>1 DEF OwnOf
<1>6. "result" \in N => ResultOK(h, fn, obj, N)
  <2> SUFFICES ASSUME "result" \in M PROVE ResultOK(h, fn, obj, N) BY <1>1
  <2>1. ResultOK(h, fn, obj, M) BY BoundFacts
  <2>2. \A s \in N : obj[s] \notin h[obj["result"]].owns BY <2>1 DEF ResultOK
  <2> HIDE DEF N
  <2> QED BY <2>1, <2>2 DEF ResultOK
<1> HIDE DEF N
<1>7. Bound(h, fn, obj, N) BY <1>2, <1>3, <1>4, <1>6 DEF Bound
<1> QED BY <1>5, <1>7 DEF N

\* The object o that is given to a variable.
MayMake(h, ms, l, fn, obj, M, slot, o) ==
    /\ Bound(h, fn, obj, M) /\ World(h, ms, l, OwnOf(h, obj, M)) /\ "result" \notin M
    /\ HasRoom(h) /\ slot \in Slots /\ slot \notin M /\ slot # "result"
    /\ slot = "buffer" => "lexer" \notin M
    /\ ObjectOK(o) /\ o.kind = KindOf(slot)
    /\ slot = "lexer" => "buffer" \in M /\ o.uses = {obj["buffer"]}

Made(h, obj, slot, o, g, p) ==
    obj \in [Slots -> Addr \cup {Null}] /\ g = Alloc(h, o) /\ p = SetTo(obj, slot, Fresh(h))

\* One variable more leads to an object of the call, and the modules keep theirs.
Extends(h, g, ms, l, fn, obj, p, M, slot) ==
    /\ p \in [Slots -> Addr \cup {Null}] /\ p[slot] # Null
    /\ \A s \in Slots : s # slot => p[s] = obj[s]
    /\ Bound(g, fn, p, M \cup {slot}) /\ World(g, ms, l, OwnOf(g, p, M \cup {slot}))
    /\ \A a \in HeldBy(ms) : g[a] = h[a]

\* A new object that a variable leads to.
LEMMA BoundNew ==
    ASSUME NEW h, NEW ms, NEW l, NEW fn, NEW obj, NEW M,
           NEW slot, NEW o, MayMake(h, ms, l, fn, obj, M, slot, o),
           NEW g, NEW p, Made(h, obj, slot, o, g, p)
    PROVE  Extends(h, g, ms, l, fn, obj, p, M, slot)
<1> DEFINE a == Fresh(h)
           C == OwnOf(h, obj, M)
<1>0. /\ Bound(h, fn, obj, M) /\ World(h, ms, l, OwnOf(h, obj, M)) /\ "result" \notin M
      /\ HasRoom(h) /\ slot \in Slots /\ slot \notin M /\ slot # "result"
      /\ slot = "buffer" => "lexer" \notin M
      /\ ObjectOK(o) /\ o.kind = KindOf(slot)
      /\ slot = "lexer" => "buffer" \in M /\ o.uses = {obj["buffer"]}
      /\ g = Alloc(h, o) /\ p = SetTo(obj, slot, Fresh(h))
      /\ obj \in [Slots -> Addr \cup {Null}]
  BY DEF MayMake, Made
<1> USE <1>0
<1>1. World(h, ms, l, C) OBVIOUS
<1>2. o.kind # "free" BY NotFree
<1>3. a = Fresh(h) OBVIOUS
<1> HIDE DEF a
<1>4. /\ a \in Addr /\ a # Null /\ a \notin C /\ a \notin HeldBy(ms)
      /\ g[a] = o /\ \A b \in Addr : b # a => g[b] = h[b]
      /\ World(g, ms, l, C \cup {a})
  <2> HIDE DEF C
  <2> QED BY ONLY <1>1, <1>2, <1>3, HasRoom(h), ObjectOK(o), g = Alloc(h, o), Allocated
<1>5. /\ p \in [Slots -> Addr \cup {Null}] /\ p[slot] = a
      /\ \A s \in Slots : s # slot => p[s] = obj[s]
  BY <1>3, <1>4, Set
<1>6. C \subseteq Addr /\ M \subseteq Slots /\ \A s \in M : obj[s] \in C BY BoundFacts
<1>7. \A s \in M : p[s] = obj[s] /\ p[s] # a BY <1>4, <1>5, <1>6
<1>8. Bound(g, fn, p, M) /\ OwnOf(g, p, M) = C
  <2>1. \A b \in C : g[b] = h[b] BY <1>4, <1>6
  <2>2. CASE slot # "lexer"
    <3>1. p["lexer"] = obj["lexer"] BY <1>5, <2>2 DEF Slots
    <3>2. \A s \in M : p[s] = obj[s] BY <1>7
    <3>3. /\ Bound(g, fn, p, M)
          /\ OwnOf(g, p, M) = OwnOf(h, obj, M)
      BY ONLY Bound(h, fn, obj, M), <2>1, <3>1, <3>2, BoundKept
    <3> QED BY ONLY <3>3
  <2>3. CASE slot = "lexer"
    <3>1. \A s \in M : p[s] = obj[s] BY <1>7
    <3>2. /\ M \subseteq Slots
          /\ \A s \in M : p[s] \in Addr /\ p[s] # Null /\ g[p[s]] = h[obj[s]]
          /\ \A s \in M : g[p[s]].kind = KindOf(s)
          /\ \A s, t \in M : p[s] = p[t] => s = t
      BY <2>1, <3>1, BoundFacts
    <3>3. Leads(g, p, M) BY <3>2 DEF Leads
    <3>4. Bound(g, fn, p, M) BY <2>3, <3>2, <3>3 DEF Bound
    <3>5. OwnOf(g, p, M) = C BY <3>1 DEF OwnOf
    <3> QED BY <3>4, <3>5
  <2> QED BY <2>2, <2>3
<1>9. slot = "lexer" => "buffer" \in M /\ g[p["lexer"]].uses = {p["buffer"]}
  BY <1>4, <1>5, <1>7
<1>10. Bound(g, fn, p, M \cup {slot}) /\ OwnOf(g, p, M \cup {slot}) = OwnOf(g, p, M) \cup {p[slot]}
  <2>1. p[slot] \in Addr /\ g[p[slot]].kind = KindOf(slot) /\ \A s \in M : p[s] # p[slot]
    BY <1>4, <1>5, <1>7
  <2>2. Bound(g, fn, p, M) BY <1>8
  <2>3. "result" \in M => p[slot] \notin g[p["result"]].owns OBVIOUS
  <2> QED BY ONLY <2>1, <2>2, <2>3, <1>9, slot \in Slots, slot \notin M,
                  slot # "result", BoundMore
<1>11. \A b \in HeldBy(ms) : b \in Addr /\ b # a BY <1>4 DEF HeldBy
<1>12. \A b \in HeldBy(ms) : g[b] = h[b] BY ONLY <1>4, <1>11
<1>13. World(g, ms, l, OwnOf(g, p, M \cup {slot})) BY ONLY <1>4, <1>5, <1>8, <1>10
<1> QED BY ONLY <1>4, <1>5, <1>10, <1>12, <1>13 DEF Extends

-----------------------------------------------------------------------------
(* The results of the C functions.                                         *)

\* What a result may own.
Fits(h, fn, obj, X) ==
    /\ X \subseteq Addr
    /\ \A a \in X : /\ h[a].content \in Contents(fn) /\ h[a].kind = KindOf(h[a].content)
                    /\ fn = "parseWat" => h[a].uses = {obj["lexer"]}
                    /\ fn = "readWasm" => h[a].uses = {}
    /\ \A a, b \in X : h[a].content = h[b].content => a = b

IsResult(o, X) ==
    ObjectOK(o) /\ o.kind = "result" /\ o.owns = X /\ o.content \in BOOLEAN

\* A result that owns X can be made.
Ready(h, ms, l, fn, obj, M, X) ==
    /\ Bound(h, fn, obj, M) /\ "result" \notin M
    /\ Fits(h, fn, obj, X)
    /\ X \cap OwnOf(h, obj, M) = {}
    /\ World(h, ms, l, OwnOf(h, obj, M) \cup X)
    /\ HasRoom(h)

\* A result that owns X.
LEMMA ResultIs ==
    ASSUME NEW X, NEW ok \in BOOLEAN
    PROVE  /\ IsResult(Object("result", {}, X, ok), X)
           /\ Object("result", {}, X, ok).content = ok
  BY DEF Object, IsResult, ObjectOK

\* The result of a C function, that owns what has just been made.
LEMMA BoundResult ==
    ASSUME NEW h, NEW ms, NEW l, NEW fn, NEW obj, NEW M,
           NEW X, Ready(h, ms, l, fn, obj, M, X), NEW o, IsResult(o, X),
           NEW g, NEW p, Made(h, obj, "result", o, g, p)
    PROVE  Extends(h, g, ms, l, fn, obj, p, M, "result") /\ g[p["result"]] = o
<1> DEFINE a == Fresh(h)
           C == OwnOf(h, obj, M) \cup X
           N == M \cup {"result"}
<1>0. /\ Bound(h, fn, obj, M) /\ "result" \notin M /\ Fits(h, fn, obj, X) /\ HasRoom(h)
      /\ X \cap OwnOf(h, obj, M) = {} /\ World(h, ms, l, C)
      /\ obj \in [Slots -> Addr \cup {Null}]
  BY DEF Ready, Made
<1>1. /\ ObjectOK(o) /\ o.kind = "result" /\ o.owns = X /\ o.content \in BOOLEAN
      /\ o.kind # "free"
  BY DEF IsResult
<1>2. World(h, ms, l, C) BY <1>0
<1>3. a = Fresh(h) /\ g = Alloc(h, o) /\ p = SetTo(obj, "result", a) BY DEF Made
<1> HIDE DEF a
<1>4. /\ a \in Addr /\ a # Null /\ a \notin C /\ a \notin HeldBy(ms)
      /\ g[a] = o /\ \A b \in Addr : b # a => g[b] = h[b]
      /\ World(g, ms, l, C \cup {a})
  <2> HIDE DEF C
  <2> QED BY ONLY <1>1, <1>2, <1>3, <1>0, Allocated
<1>5. /\ p \in [Slots -> Addr \cup {Null}] /\ p["result"] = a
      /\ \A s \in Slots : s # "result" => p[s] = obj[s]
  <2>1. "result" \in Slots BY DEF Slots
  <2>2. a \in Addr \cup {Null} BY <1>4
  <2>3. p = SetTo(obj, "result", a) BY <1>3
  <2> QED BY ONLY <2>1, <2>2, <2>3, <1>0, Set
<1>6. M \subseteq Slots /\ \A s \in M : obj[s] \in C BY <1>0, BoundFacts
<1>7. \A s \in M : p[s] = obj[s] /\ p[s] # a
  <2> TAKE s \in M
  <2>1. s \in Slots /\ s # "result" /\ obj[s] \in C BY <1>0, <1>6
  <2> QED BY ONLY <2>1, <1>4, <1>5
<1>8. p["lexer"] = obj["lexer"] BY <1>5 DEF Slots
<1>9. C \subseteq Addr /\ \A b \in C : g[b] = h[b]
  <2>1. C \subseteq Addr BY <1>0, BoundFacts DEF Fits
  <2> QED BY ONLY <2>1, <1>4
<1>10. Bound(g, fn, p, M) /\ OwnOf(g, p, M) = OwnOf(h, obj, M)
  <2>1. \A b \in OwnOf(h, obj, M) : g[b] = h[b] BY <1>9
  <2>2. \A s \in M : p[s] = obj[s] BY <1>7
  <2> QED BY ONLY <1>0, <2>1, <2>2, <1>8, BoundKept
<1>11. g[p["result"]] = o BY <1>4, <1>5
<1>12. ResultOK(g, fn, p, N)
  <2>1. \A b \in X : g[b] = h[b] BY <1>9
  <2>2. \A s \in N : p[s] \notin X
    <3>1. p["result"] \notin X BY <1>4, <1>5
    <3>2. \A s \in M : obj[s] \notin X BY <1>0, BoundFacts
    <3> QED BY <3>1, <3>2, <1>7
  <2>3. \A b \in X : /\ g[b].content \in Contents(fn) /\ g[b].kind = KindOf(g[b].content)
                     /\ fn = "parseWat" => g[b].uses = {p["lexer"]}
                     /\ fn = "readWasm" => g[b].uses = {}
    BY ONLY <2>1, <1>8, <1>0 DEF Fits
  <2>4. \A b, c \in X : g[b].content = g[c].content => b = c BY <2>1, <1>0 DEF Fits
  <2>5. o.content \in BOOLEAN /\ o.owns \subseteq Addr /\ o.owns = X BY <1>0, <1>1 DEF Fits
  <2> HIDE DEF N
  <2> QED BY ONLY <2>2, <2>3, <2>4, <2>5, <1>11 DEF ResultOK
<1>13. Bound(g, fn, p, N)
  <2>1. N \subseteq Slots /\ \A s \in N : p[s] \in Addr
    <3>1. \A s \in M : p[s] \in Addr BY ONLY <1>10, BoundFacts
    <3>2. p["result"] \in Addr BY <1>4, <1>5
    <3>3. "result" \in Slots BY DEF Slots
    <3> QED BY ONLY <3>1, <3>2, <3>3, <1>6 DEF N
  <2>2. Leads(g, p, N)
    <3>1. /\ \A s \in M : g[p[s]].kind = KindOf(s)
          /\ \A s, t \in M : p[s] = p[t] => s = t
      BY ONLY <1>10, BoundFacts
    <3>2. g[p["result"]].kind = KindOf("result") BY <1>11, <1>1, KindOfSlots
    <3>3. \A s \in M : p[s] # p["result"] BY <1>5, <1>7
    <3> QED BY ONLY <3>1, <3>2, <3>3 DEF Leads, N
  <2>3. "lexer" \in N => "buffer" \in N /\ g[p["lexer"]].uses = {p["buffer"]}
    BY ONLY <1>10 DEF Bound, N
  <2> HIDE DEF N
  <2> QED BY ONLY <2>1, <2>2, <2>3, <1>12 DEF Bound
<1>14. OwnOf(g, p, N) = C \cup {a}
  <2>1. OwnOf(g, p, N) = {p[s] : s \in N} \cup X BY <1>11, <1>1 DEF OwnOf
  <2>2. {p[s] : s \in N} = {p[s] : s \in M} \cup {a} BY <1>5
  <2>3. OwnOf(g, p, M) = {p[s] : s \in M} BY <1>0 DEF OwnOf
  <2> QED BY <2>1, <2>2, <2>3, <1>10
<1>15. \A b \in HeldBy(ms) : g[b] = h[b]
  <2>1. \A b \in HeldBy(ms) : b \in Addr /\ b # a BY <1>4 DEF HeldBy
  <2> QED BY ONLY <2>1, <1>4
<1>16. World(g, ms, l, OwnOf(g, p, N)) BY <1>4, <1>14
<1>17. p["result"] # Null /\ g[p["result"]] = o
  BY <1>4, <1>5, <1>11
<1> QED BY ONLY <1>5, <1>13, <1>15, <1>16, <1>17 DEF N, Extends

\* A result that is rid of something.
Ridden(h, g, r, X) ==
    /\ X \subseteq h[r].owns
    /\ g[r].kind = "result" /\ g[r].owns = h[r].owns \ X
    /\ g[r].content = h[r].content
    /\ \A a \in Addr : a # r => g[a] = h[a]

\* What is taken from a result is not the call's any more.
LEMMA BoundRid ==
    ASSUME NEW h, NEW fn, NEW obj, NEW M, Bound(h, fn, obj, M), "result" \in M,
           NEW X, NEW g, Ridden(h, g, obj["result"], X)
    PROVE  /\ Bound(g, fn, obj, M)
           /\ OwnOf(g, obj, M) = OwnOf(h, obj, M) \ X
           /\ X \subseteq OwnOf(h, obj, M)
<1> DEFINE r == obj["result"]
<1> USE DEF Ridden
<1>1. /\ M \subseteq Slots
      /\ \A s \in M : obj[s] \in Addr /\ obj[s] # Null /\ h[obj[s]].kind = KindOf(s)
      /\ \A s, t \in M : obj[s] = obj[t] => s = t
      /\ ResultOK(h, fn, obj, M)
      /\ h[r].owns \subseteq OwnOf(h, obj, M)
  BY BoundFacts
<1>2. r \notin h[r].owns /\ h[r].owns \subseteq Addr BY <1>1 DEF ResultOK
<1>3. \A s \in M : s # "result" => g[obj[s]] = h[obj[s]] BY <1>1
<1>4. \A s \in M : g[obj[s]].kind = KindOf(s) BY <1>1, <1>3, KindOfSlots
<1>5. Leads(g, obj, M) BY <1>1, <1>4 DEF Leads
<1>6. "lexer" \in M => "buffer" \in M /\ g[obj["lexer"]].uses = {obj["buffer"]}
  BY <1>3 DEF Bound
<1>7. ResultOK(g, fn, obj, M)
  <2>1. \A a \in h[r].owns : g[a] = h[a] BY <1>2
  <2> QED BY <1>1, <2>1 DEF ResultOK
<1>8. Bound(g, fn, obj, M) BY <1>1, <1>5, <1>6, <1>7 DEF Bound
<1>9. \A s \in M : obj[s] \notin h[r].owns BY <1>1 DEF ResultOK
<1>10. OwnOf(g, obj, M) = OwnOf(h, obj, M) \ X BY <1>9 DEF OwnOf
<1> QED BY <1>1, <1>8, <1>10

\* What a result owns under this name is taken over by the variable of that name.
Takes(h, obj, slot, X, A, g, p) ==
    /\ X = {a \in h[obj["result"]].owns : h[a].content = slot}
    /\ g = RidOf(h, obj["result"], X)
    /\ A = IF X = {} THEN Null ELSE CHOOSE a \in X : TRUE
    /\ p = SetTo(obj, slot, A)

Including(M, p, slot) == IF p[slot] = Null THEN M ELSE M \cup {slot}

\* The output or the log of a result.
LEMMA BoundTaken ==
    ASSUME NEW h, NEW ms, NEW l, NEW fn, NEW obj \in [Slots -> Addr \cup {Null}], NEW M,
           Bound(h, fn, obj, M), World(h, ms, l, OwnOf(h, obj, M)), "result" \in M,
           fn \notin Readers, NEW slot \in Slots, slot \notin M, slot # "result", slot # "lexer",
           NEW X, NEW A, NEW g, NEW p, Takes(h, obj, slot, X, A, g, p)
    PROVE  /\ p \in [Slots -> Addr \cup {Null}]
           /\ \A s \in Slots : s # slot => p[s] = obj[s]
           /\ \A a \in HeldBy(ms) : g[a] = h[a]
           /\ World(g, ms, l, OwnOf(g, p, Including(M, p, slot)))
           /\ Bound(g, fn, p, Including(M, p, slot))
<1> DEFINE r == obj["result"]
           C == OwnOf(h, obj, M)
<1>0. /\ X = {a \in h[obj["result"]].owns : h[a].content = slot}
      /\ g = RidOf(h, obj["result"], X)
      /\ A = IF X = {} THEN Null ELSE CHOOSE a \in X : TRUE
      /\ p = SetTo(obj, slot, A)
  BY DEF Takes
<1>1. /\ r \in C /\ h[r].kind = "result" /\ ResultOK(h, fn, obj, M) /\ C \subseteq Addr
      /\ h[r].owns \subseteq C /\ M \subseteq Slots
  BY BoundFacts, KindOfSlots
<1>2. World(h, ms, l, C) OBVIOUS
<1>3. g = RidOf(h, r, X) BY <1>0
<1>4. X \subseteq h[r].owns BY <1>0
<1> HIDE DEF C, r
<1>5. /\ World(g, ms, l, C)
      /\ g[r].kind = "result" /\ g[r].owns = h[r].owns \ X
      /\ g[r].content = h[r].content /\ g[r].uses = h[r].uses
      /\ \A a \in Addr : a # r => g[a] = h[a]
  BY ONLY <1>1, <1>2, <1>3, Released
<1>6. /\ Bound(g, fn, obj, M)
      /\ OwnOf(g, obj, M) = C \ X
      /\ X \subseteq C
  <2>1. Ridden(h, g, obj["result"], X) BY ONLY <1>4, <1>5 DEF r, Ridden
  <2>2. /\ Bound(g, fn, obj, M)
        /\ OwnOf(g, obj, M) = OwnOf(h, obj, M) \ X
        /\ X \subseteq OwnOf(h, obj, M)
    BY ONLY <2>1, Bound(h, fn, obj, M), "result" \in M, BoundRid
  <2> QED BY ONLY <2>2 DEF C
<1>7. ASSUME X # {} PROVE A \in X BY <1>0, <1>7
<1>8. A \in Addr \cup {Null} BY <1>0, <1>1, <1>6, <1>7
<1>9. /\ p \in [Slots -> Addr \cup {Null}] /\ p[slot] = A
      /\ \A s \in Slots : s # slot => p[s] = obj[s]
  <2>1. p = SetTo(obj, slot, A) BY <1>0
  <2> QED BY ONLY <1>8, <2>1, obj \in [Slots -> Addr \cup {Null}], slot \in Slots, Set
<1>10. Bound(g, fn, p, M) /\ OwnOf(g, p, M) = C \ X
  <2>1. \A s \in M : p[s] = obj[s] BY ONLY <1>1, <1>9, slot \notin M
  <2>2. p["lexer"] = obj["lexer"] BY ONLY <1>9, slot # "lexer" DEF Slots
  <2>3. \A a \in OwnOf(g, obj, M) : g[a] = g[a] OBVIOUS
  <2>4. Bound(g, fn, p, M) /\ OwnOf(g, p, M) = OwnOf(g, obj, M)
    BY ONLY <1>6, <2>1, <2>2, <2>3, BoundKept
  <2> QED BY ONLY <2>4, <1>6
<1>11. \A a \in HeldBy(ms) : g[a] = h[a]
  <2>1. \A a \in HeldBy(ms) : a \in Addr /\ a \notin C BY ONLY <1>2 DEF World, HeldBy
  <2> QED BY ONLY <2>1, <1>1, <1>5
<1>12. CASE X = {}
  <2>1. p[slot] = Null BY ONLY <1>9, <1>12, <1>0
  <2>2. OwnOf(g, p, M) = C BY ONLY <1>10, <1>12
  <2> QED BY ONLY <1>5, <1>9, <1>10, <1>11, <2>1, <2>2 DEF Including
<1>13. CASE X # {}
  <2>1. A \in X /\ X \subseteq Addr BY <1>7, <1>13, <1>1, <1>6
  <2>2. \A a, b \in X : a = b BY <1>0, <1>1 DEF ResultOK, r
  <2>3. X = {A} BY ONLY <2>1, <2>2
  <2>4. h[A].content = slot BY ONLY <2>1, <1>0
  <2>5. h[A].kind = KindOf(slot) /\ A # r
    <3>1. A \in h[r].owns BY <2>1, <1>4
    <3> QED BY ONLY <3>1, <2>4, <1>1, "result" \in M DEF ResultOK, r
  <2>6. /\ p[slot] \in Addr /\ p[slot] # Null
        /\ g[p[slot]].kind = KindOf(slot)
    BY ONLY <1>5, <1>9, <2>1, <2>5, Addressed
  <2>7. \A s \in M : p[s] # p[slot]
    <3>1. \A s \in M : p[s] \in C \ X BY ONLY <1>10, BoundFacts
    <3> QED BY ONLY <3>1, <2>1, <1>9
  <2>8. "result" \in M => p[slot] \notin g[p["result"]].owns
    <3>1. p["result"] = r BY ONLY <1>9, slot # "result" DEF Slots, r
    <3> QED BY ONLY <3>1, <1>5, <1>9, <2>1
  <2>9. /\ Bound(g, fn, p, M \cup {slot})
        /\ OwnOf(g, p, M \cup {slot}) = OwnOf(g, p, M) \cup {p[slot]}
    BY ONLY <1>10, <2>6, <2>7, <2>8, slot \in Slots, slot \notin M, slot # "result",
            slot # "lexer", BoundMore
  <2>10. OwnOf(g, p, M \cup {slot}) = C BY ONLY <1>6, <1>9, <1>10, <2>3, <2>9
  <2> QED BY ONLY <1>5, <1>9, <1>11, <2>6, <2>9, <2>10 DEF Including
<1> QED BY <1>12, <1>13

-----------------------------------------------------------------------------
(* A reader hands over what it has made to a module.                       *)

\* The module that wraps what a reader has made, and what the reader keeps.
WrapOf(obj, A) ==
    [obj EXCEPT !.module = A, !.result = Null, !.features = Null,
                !.buffer = IF obj.lexer = Null THEN Null ELSE @]

\* The variables of the new module.
LEMMA WrapOfSlots ==
    ASSUME NEW obj \in [Slots -> Addr \cup {Null}], NEW A \in Addr
    PROVE  /\ WrapOf(obj, A) \in [Slots -> Addr \cup {Null}]
           /\ WrapOf(obj, A)["module"] = A
           /\ WrapOf(obj, A)["result"] = Null /\ WrapOf(obj, A)["features"] = Null
           /\ WrapOf(obj, A)["buffer"] = IF obj["lexer"] = Null THEN Null ELSE obj["buffer"]
           /\ \A s \in {"filename", "lexer", "errors", "output", "log"} :
                 WrapOf(obj, A)[s] = obj[s]
  BY Zenon, SMT DEF WrapOf, Slots

Kept(fn) == IF fn = "parseWat" THEN {"features", "result"}
                              ELSE {"features", "result", "buffer"}

\* Where a reader is when its C function has succeeded.
Wrappable(h, fn, obj) ==
    /\ obj["module"] = Null /\ obj["output"] = Null /\ obj["log"] = Null
    /\ obj["errors"] # Null /\ obj["features"] # Null /\ obj["result"] # Null
    /\ obj["buffer"] # Null
    /\ fn = "parseWat" => obj["lexer"] # Null /\ obj["filename"] # Null
    /\ fn = "readWasm" => obj["lexer"] = Null /\ obj["filename"] = Null
    /\ h[obj["result"]].owns # {}

Wraps(h, obj, X, A, g, m, p) ==
    /\ X = {a \in h[obj["result"]].owns : h[a].content = "module"}
    /\ g = RidOf(h, obj["result"], X)
    /\ A = IF X = {} THEN Null ELSE CHOOSE a \in X : TRUE
    /\ m = WrapOf(obj, A)
    /\ p = SetTo(obj, "errors", Null)

IsSet(obj) == {s \in Slots : obj[s] # Null}

\* The module gets the reader's errors and text, and the reader keeps the rest.
LEMMA BoundWrapped ==
    ASSUME NEW h, NEW ms, NEW l, NEW fn \in Readers, NEW obj \in [Slots -> Addr \cup {Null}],
           NEW M, M = IsSet(obj),
           Bound(h, fn, obj, M), World(h, ms, l, OwnOf(h, obj, M)),
           Wrappable(h, fn, obj),
           NEW X, NEW A, NEW g, NEW m, NEW p, Wraps(h, obj, X, A, g, m, p)
    PROVE  /\ p \in [Slots -> Addr \cup {Null}] /\ p["errors"] = Null
           /\ \A s \in Slots : s # "errors" => p[s] = obj[s]
           /\ \A a \in HeldBy(ms) : g[a] = h[a]
           /\ World(g, ms \cup {m}, l, OwnOf(g, p, Kept(fn)))
           /\ Bound(g, fn, p, Kept(fn))
<1> DEFINE r == obj["result"]
           C == OwnOf(h, obj, M)
           K == Kept(fn)
<1>0. /\ X = {a \in h[obj["result"]].owns : h[a].content = "module"}
      /\ g = RidOf(h, obj["result"], X)
      /\ A = IF X = {} THEN Null ELSE CHOOSE a \in X : TRUE
      /\ m = WrapOf(obj, A)
      /\ p = SetTo(obj, "errors", Null)
      /\ obj["module"] = Null /\ obj["output"] = Null /\ obj["log"] = Null
      /\ obj["errors"] # Null /\ obj["features"] # Null /\ obj["result"] # Null
      /\ obj["buffer"] # Null
      /\ fn = "parseWat" => obj["lexer"] # Null /\ obj["filename"] # Null
      /\ fn = "readWasm" => obj["lexer"] = Null /\ obj["filename"] = Null
      /\ h[obj["result"]].owns # {}
  BY DEF Wraps, Wrappable
<1> USE <1>0
<1>1. /\ "result" \in M /\ r \in C /\ h[r].kind = "result" /\ ResultOK(h, fn, obj, M)
      /\ C \subseteq Addr /\ h[r].owns \subseteq C
  <2>1. "result" \in M BY DEF Slots, IsSet
  <2> QED BY ONLY <2>1, Bound(h, fn, obj, M), BoundFacts, KindOfSlots DEF r, C
<1>2. World(h, ms, l, C) OBVIOUS
<1>3. \A a \in h[r].owns : /\ h[a].content = "module" /\ h[a].kind = "module"
                           /\ fn = "parseWat" => h[a].uses = {obj["lexer"]}
                           /\ fn = "readWasm" => h[a].uses = {}
  BY <1>1, KindOfSlots DEF ResultOK, Contents
<1>4. X = h[r].owns /\ A \in X
  <2>1. X = h[r].owns BY <1>3
  <2> QED BY <2>1
<1>5. X = {A}
  <2>1. \A a, b \in X : a = b BY <1>1, <1>3, <1>4 DEF ResultOK
  <2> QED BY ONLY <2>1, <1>4
<1>6. g = RidOf(h, r, X) OBVIOUS
<1> HIDE DEF C, r, K
<1>7. /\ World(g, ms, l, C)
      /\ g[r].kind = "result" /\ g[r].owns = h[r].owns \ X
      /\ g[r].content = h[r].content /\ g[r].uses = h[r].uses
      /\ \A a \in Addr : a # r => g[a] = h[a]
  BY ONLY <1>1, <1>2, <1>6, Released
<1>8. /\ Bound(g, fn, obj, M)
      /\ OwnOf(g, obj, M) = C \ X
      /\ X \subseteq C
  <2>1. Ridden(h, g, obj["result"], X) BY ONLY <1>4, <1>7 DEF r, Ridden
  <2>2. /\ Bound(g, fn, obj, M)
        /\ OwnOf(g, obj, M) = OwnOf(h, obj, M) \ X
        /\ X \subseteq OwnOf(h, obj, M)
    BY ONLY <2>1, Bound(h, fn, obj, M), <1>1, BoundRid
  <2> QED BY ONLY <2>2 DEF C
<1>9. /\ p \in [Slots -> Addr \cup {Null}] /\ p["errors"] = Null
      /\ \A s \in Slots : s # "errors" => p[s] = obj[s]
  BY ONLY obj \in [Slots -> Addr \cup {Null}], <1>0, Set DEF Slots
<1>10. \A a \in HeldBy(ms) : g[a] = h[a]
  <2>1. \A a \in HeldBy(ms) : a \in Addr /\ a \notin C BY ONLY <1>2 DEF World, HeldBy
  <2> QED BY ONLY <2>1, <1>1, <1>7
<1>11. /\ m \in [Slots -> Addr \cup {Null}]
       /\ m["module"] = A /\ m["result"] = Null /\ m["features"] = Null
       /\ m["buffer"] = IF obj["lexer"] = Null THEN Null ELSE obj["buffer"]
       /\ m["filename"] = obj["filename"] /\ m["lexer"] = obj["lexer"]
       /\ m["errors"] = obj["errors"] /\ m["output"] = Null /\ m["log"] = Null
  <2>0. m = WrapOf(obj, A) BY <1>0
  <2>1. A \in Addr BY <1>1, <1>4
  <2>2. /\ m \in [Slots -> Addr \cup {Null}]
        /\ m["module"] = A /\ m["result"] = Null /\ m["features"] = Null
        /\ m["buffer"] = IF obj["lexer"] = Null THEN Null ELSE obj["buffer"]
        /\ \A s \in {"filename", "lexer", "errors", "output", "log"} : m[s] = obj[s]
    BY ONLY <2>1, obj \in [Slots -> Addr \cup {Null}], <2>0, WrapOfSlots
  <2> QED BY <2>2
<1>12. M \subseteq Slots /\ \A s \in Slots : s \in M <=> obj[s] # Null BY DEF IsSet
<1>13. /\ \A s \in M : g[obj[s]].kind = KindOf(s) /\ obj[s] \in Addr
       /\ \A s, t \in M : obj[s] = obj[t] => s = t
       /\ "lexer" \in M => g[obj["lexer"]].uses = {obj["buffer"]}
  <2>1. "lexer" \in M => g[obj["lexer"]].uses = {obj["buffer"]} BY ONLY <1>8 DEF Bound
  <2> QED BY ONLY <1>8, <2>1, BoundFacts
<1>14. /\ A \in Addr /\ A # Null /\ A # r /\ g[A] = h[A] /\ \A s \in M : obj[s] # A
  <2>1. \A s \in M : obj[s] \notin h[r].owns BY ONLY <1>1 DEF ResultOK, r
  <2>2. A \in Addr /\ A # r BY ONLY <1>1, <1>4, <2>1 DEF r
  <2> QED BY ONLY <2>1, <2>2, <1>4, <1>7, Addressed
<1>15. ModuleOK(g, m)
  <2>1. Shape(m)
    <3>1. \A s \in Transient : m[s] = Null BY ONLY <1>11 DEF Transient
    <3>2. m["module"] # Null /\ m["errors"] # Null BY <1>11, <1>14
    <3>3. fn = "parseWat" \/ fn = "readWasm" BY DEF Readers
    <3>4. m["lexer"] = Null <=> m["buffer"] = Null BY <1>11
    <3>5. m["lexer"] = Null <=> m["filename"] = Null BY <1>11, <3>3
    <3> QED BY ONLY <3>1, <3>2, <3>4, <3>5 DEF Shape
  <2>2. \A s \in Slots : m[s] # Null => s = "module" \/ (s \in M /\ m[s] = obj[s])
    BY <1>11, <1>12 DEF Slots
  <2>3. g[A].kind = KindOf("module") BY <1>3, <1>4, <1>14, KindOfSlots
  <2>4. \A s \in Slots : m[s] # Null => g[m[s]].kind = KindOf(s)
    BY ONLY <2>2, <2>3, <1>11, <1>13
  <2>5. \A s, t \in Slots : m[s] = m[t] /\ m[s] # Null => s = t
    BY ONLY <2>2, <1>11, <1>13, <1>14
  <2>6. Leads(g, m, Slots) BY ONLY <2>4, <2>5 DEF Leads
  <2>7. g[m["module"]].uses \subseteq {m["lexer"]} \ {Null}
    <3>1. fn = "parseWat" \/ fn = "readWasm" BY DEF Readers
    <3>2. CASE fn = "parseWat"
      <4>0. A \in h[r].owns BY ONLY <1>4
      <4>a. h[A].uses = {obj["lexer"]} BY ONLY <3>2, <1>3, <4>0
      <4>1. g[A].uses = {obj["lexer"]} BY ONLY <4>a, <1>14
      <4>2. obj["lexer"] # Null BY ONLY <1>0, <3>2
      <4>3. m["lexer"] = obj["lexer"] BY ONLY <1>11
      <4>4. g[m["module"]].uses = {m["lexer"]} /\ m["lexer"] # Null
        BY ONLY <4>1, <4>2, <4>3, <1>11
      <4> QED BY ONLY <4>4
    <3>3. CASE fn = "readWasm"
      <4>0. A \in h[r].owns BY ONLY <1>4
      <4>a. h[A].uses = {} BY ONLY <3>3, <1>3, <4>0
      <4>1. g[A].uses = {} BY ONLY <4>a, <1>14
      <4> QED BY ONLY <4>1, <1>11
    <3> QED BY <3>1, <3>2, <3>3
  <2>8. m["lexer"] # Null => g[m["lexer"]].uses = {m["buffer"]}
    <3>1. "lexer" \in Slots BY DEF Slots
    <3> QED BY ONLY <3>1, <1>11, <1>12, <1>13
  <2> QED BY ONLY <1>11, <2>1, <2>6, <2>7, <2>8 DEF ModuleOK
<1>16. /\ Bound(g, fn, p, K)
       /\ OwnOf(g, p, K) = {p[s] : s \in K}
  <2>1. K \subseteq M /\ "errors" \notin K /\ "lexer" \notin K /\ "result" \in K
    BY <1>12 DEF K, Kept, Slots
  <2> DEFINE D == M \ K
  <2>2. M \ D = K /\ D \subseteq M /\ "lexer" \notin M \ D BY ONLY <2>1
  <2> HIDE DEF D
  <2>3. Bound(g, fn, obj, M \ D) BY ONLY <1>8, <2>2, BoundLess
  <2>4. \A s \in K : p[s] = obj[s] BY ONLY <2>1, <1>9, <1>12
  <2>5. p["lexer"] = obj["lexer"] BY ONLY <1>9 DEF Slots
  <2>6. \A a \in OwnOf(g, obj, K) : g[a] = g[a] OBVIOUS
  <2>7. Bound(g, fn, p, K) BY ONLY <2>2, <2>3, <2>4, <2>5, <2>6, BoundKept
  <2>8. p["result"] = r BY ONLY <1>9 DEF Slots, r
  <2>9. g[r].owns = {} BY <1>4, <1>7
  <2> QED BY ONLY <2>7, <2>8, <2>9 DEF OwnOf
<1>17. Addresses(m) \subseteq C /\ C \ Addresses(m) = {p[s] : s \in K}
  <2>1. C = {obj[s] : s \in M} \cup {A} BY <1>1, <1>4, <1>5 DEF C, OwnOf, r
  <2>2. \A a \in Addresses(m) : a = A \/ \E s \in {"filename", "lexer", "errors", "buffer"} \cap M : a = obj[s]
    <3> TAKE a \in Addresses(m)
    <3>1. PICK s \in Slots : m[s] = a BY DEF Addresses
    <3>2. a # Null BY Addressed DEF Addresses
    <3> QED BY ONLY <3>1, <3>2, <1>11, <1>12 DEF Slots
  <2>3. A \in Addresses(m) BY ONLY <1>11, <1>14 DEF Addresses, Slots
  <2>4. \A s \in {"filename", "lexer", "errors"} \cap M : obj[s] \in Addresses(m)
    BY ONLY <1>11, <1>13 DEF Addresses, Slots
  <2>5. fn = "parseWat" => "buffer" \in M /\ obj["buffer"] \in Addresses(m)
    BY <1>11, <1>12, <1>13 DEF Addresses, Slots
  <2>6. fn = "readWasm" => obj["buffer"] \notin Addresses(m)
    <3> SUFFICES ASSUME fn = "readWasm", obj["buffer"] \in Addresses(m) PROVE FALSE OBVIOUS
    <3>1. "buffer" \in M BY <1>12 DEF Slots
    <3>2. PICK s \in Slots : m[s] = obj["buffer"] BY DEF Addresses
    <3>0. m[s] # Null BY ONLY <3>1, <3>2, <1>12
    <3>a. m["buffer"] = Null BY <1>11
    <3>3. s \in {"filename", "lexer", "errors", "module"} /\ m[s] # Null
      BY ONLY <3>0, <3>a, <3>2, <1>11 DEF Slots
    <3>4. s # "module" BY ONLY <3>1, <3>2, <1>11, <1>14
    <3>5. s \in M /\ m[s] = obj[s] BY ONLY <3>3, <3>4, <1>11, <1>12
    <3>6. s = "buffer" BY ONLY <3>1, <3>2, <3>5, <1>13
    <3> QED BY ONLY <3>3, <3>6
  <2>7. "features" \in M /\ "result" \in M /\ "buffer" \in M BY <1>12 DEF Slots
  <2>8. obj["features"] \notin Addresses(m) /\ obj["result"] \notin Addresses(m)
    <3> SUFFICES ASSUME NEW t \in {"features", "result"}, obj[t] \in Addresses(m) PROVE FALSE
      OBVIOUS
    <3>1. obj[t] # A /\ t \in M BY <2>7, <1>14
    <3>2. PICK s \in {"filename", "lexer", "errors", "buffer"} \cap M : obj[t] = obj[s]
      BY ONLY <2>2, <3>1, obj[t] \in Addresses(m)
    <3>3. s = t BY ONLY <3>1, <3>2, <1>13
    <3> QED BY ONLY <3>2, <3>3, t \in {"features", "result"}
  <2>9. \A s \in M : s \in {"filename", "lexer", "errors", "buffer", "features", "result"}
    BY <1>12 DEF Slots
  <2>10. {p[s] : s \in K} = {obj["features"], obj["result"]}
                           \cup (IF fn = "parseWat" THEN {} ELSE {obj["buffer"]})
    BY <1>9 DEF K, Kept, Slots
  <2>11. fn = "parseWat" \/ fn = "readWasm" BY DEF Readers
  <2>12. Addresses(m) \subseteq C BY ONLY <2>1, <2>2
  <2>13. CASE fn = "parseWat"
    <3>1. \A s \in M : obj[s] \in Addresses(m) \/ s = "features" \/ s = "result"
      BY ONLY <2>4, <2>5, <2>9, <2>13
    <3>2. {p[s] : s \in K} = {obj["features"], obj["result"]} BY ONLY <2>10, <2>13
    <3>3. C \ Addresses(m) = {obj["features"], obj["result"]}
      BY ONLY <3>1, <2>1, <2>3, <2>7, <2>8
    <3> QED BY ONLY <2>12, <3>2, <3>3
  <2>14. CASE fn = "readWasm"
    <3>1. \A s \in M : obj[s] \in Addresses(m) \/ s = "features" \/ s = "result" \/ s = "buffer"
      BY ONLY <2>4, <2>9
    <3>2. {p[s] : s \in K} = {obj["features"], obj["result"], obj["buffer"]}
      BY ONLY <2>10, <2>14
    <3>3. obj["buffer"] \notin Addresses(m) BY ONLY <2>6, <2>14
    <3>4. C \ Addresses(m) = {obj["features"], obj["result"], obj["buffer"]}
      BY ONLY <3>1, <3>3, <2>1, <2>3, <2>7, <2>8
    <3> QED BY ONLY <2>12, <3>2, <3>4
  <2> QED BY ONLY <2>11, <2>13, <2>14
<1>18. World(g, ms \cup {m}, l, C \ Addresses(m)) BY ONLY <1>7, <1>15, <1>17, Given
<1>19. World(g, ms \cup {m}, l, OwnOf(g, p, K)) BY ONLY <1>16, <1>17, <1>18
<1> QED BY ONLY <1>9, <1>10, <1>16, <1>19 DEF K

-----------------------------------------------------------------------------
(* The steps of the functions.                                             *)

\* Three sequences, one after the other.
LEMMA Cat ==
    ASSUME NEW S, NEW s \in Seq(S), NEW t \in Seq(S), NEW u \in Seq(S)
    PROVE  /\ s \o t \o u \in Seq(S) /\ Len(s \o t \o u) = Len(s) + Len(t) + Len(u)
           /\ \A i \in 1..Len(s) : (s \o t \o u)[i] = s[i]
           /\ \A i \in 1..Len(t) : (s \o t \o u)[Len(s) + i] = t[i]
           /\ \A i \in 1..Len(u) : (s \o t \o u)[Len(s) + Len(t) + i] = u[i]
  OBVIOUS

\* What a function's parts tell of its steps.
Has(fn, s, t, u) ==
    /\ Program(fn) \in Seq(StepNames) /\ Len(Program(fn)) = Len(s) + Len(t) + Len(u)
    /\ \A i \in 1..Len(s) : StepAt(fn, Len(s) + Len(t) + Len(u) + 1 - i) = s[i]
    /\ \A i \in 1..Len(t) : StepAt(fn, Len(t) + Len(u) + 1 - i) = t[i]
    /\ \A i \in 1..Len(u) : StepAt(fn, Len(u) + 1 - i) = u[i]
    /\ Fn[fn].cleanup = u
    /\ Len(Fn[fn].body \o Fn[fn].cleanup) = Len(t) + Len(u)

\* A function's parts give its steps.
LEMMA Steps ==
    ASSUME NEW fn \in DOMAIN Fn, NEW s \in Seq(StepNames), NEW t \in Seq(StepNames),
           NEW u \in Seq(StepNames), Fn[fn] = Function(s, t, u)
    PROVE  Has(fn, s, t, u)
<1> DEFINE q == s \o t \o u
<1>1. Fn[fn].setup = s /\ Fn[fn].body = t /\ Fn[fn].cleanup = u BY DEF Function
<1>2. Program(fn) = q BY <1>1 DEF Program
<1>3. /\ q \in Seq(StepNames) /\ Len(q) = Len(s) + Len(t) + Len(u)
      /\ \A i \in 1..Len(s) : q[i] = s[i]
      /\ \A i \in 1..Len(t) : q[Len(s) + i] = t[i]
      /\ \A i \in 1..Len(u) : q[Len(s) + Len(t) + i] = u[i]
  BY Cat
<1> HIDE DEF q
<1>4. \A n : StepAt(fn, n) = q[Len(q) + 1 - n] BY <1>2 DEF StepAt
<1>5. Len(s) \in Nat /\ Len(t) \in Nat /\ Len(u) \in Nat OBVIOUS
<1>6. \A i \in 1..Len(s) : StepAt(fn, Len(s) + Len(t) + Len(u) + 1 - i) = s[i]
  <2> TAKE i \in 1..Len(s)
  <2>1. Len(q) + 1 - (Len(s) + Len(t) + Len(u) + 1 - i) = i BY <1>3, <1>5
  <2> QED BY <2>1, <1>3, <1>4
<1>7. \A i \in 1..Len(t) : StepAt(fn, Len(t) + Len(u) + 1 - i) = t[i]
  <2> TAKE i \in 1..Len(t)
  <2>1. Len(q) + 1 - (Len(t) + Len(u) + 1 - i) = Len(s) + i BY <1>3, <1>5
  <2> QED BY <2>1, <1>3, <1>4
<1>8. \A i \in 1..Len(u) : StepAt(fn, Len(u) + 1 - i) = u[i]
  <2> TAKE i \in 1..Len(u)
  <2>1. Len(q) + 1 - (Len(u) + 1 - i) = Len(s) + Len(t) + i BY <1>3, <1>5
  <2> QED BY <2>1, <1>3, <1>4
<1>9. Len(Fn[fn].body \o Fn[fn].cleanup) = Len(t) + Len(u) BY <1>1
<1> QED BY <1>1, <1>2, <1>3, <1>6, <1>7, <1>8, <1>9 DEF Has

\* The steps of parseWat.
LEMMA Steps_parseWat ==
    /\ "parseWat" \in DOMAIN Fn
    /\ Program("parseWat") \in Seq(StepNames) /\ Len(Program("parseWat")) = 10
    /\ StepAt("parseWat", 10) = "filename" /\ StepAt("parseWat", 9) = "buffer" /\ StepAt("parseWat", 8) = "lexer"
    /\ StepAt("parseWat", 7) = "errors" /\ StepAt("parseWat", 6) = "features" /\ StepAt("parseWat", 5) = "parse"
    /\ StepAt("parseWat", 4) = "wrap" /\ StepAt("parseWat", 3) = "~result" /\ StepAt("parseWat", 2) = "~features"
    /\ StepAt("parseWat", 1) = "~errors"
    /\ Rest("parseWat", Fn["parseWat"].cleanup) /\ Len(Fn["parseWat"].cleanup) = 3
    /\ Len(Fn["parseWat"].body \o Fn["parseWat"].cleanup) = 5
<1> DEFINE fn == "parseWat"
           s == <<"filename", "buffer", "lexer", "errors", "features">>
           t == <<"parse", "wrap">>
           u == <<"~result", "~features", "~errors">>
<1>1. fn \in DOMAIN Fn /\ Fn[fn] = Function(s, t, u) BY DEF Fn, ParseWatFn
<1>2. s \in Seq(StepNames) /\ t \in Seq(StepNames) /\ u \in Seq(StepNames)
  <2>1. s \in Seq(StepNames) BY DEF StepNames
  <2>2. t \in Seq(StepNames) BY DEF StepNames
  <2>3. u \in Seq(StepNames) BY DEF StepNames
  <2> QED BY <2>1, <2>2, <2>3
<1>3. Len(s) = 5 OBVIOUS
<1>4. Len(t) = 2 OBVIOUS
<1>5. Len(u) = 3 OBVIOUS
<1>6. s[1] = "filename" /\ s[2] = "buffer" /\ s[3] = "lexer" /\ s[4] = "errors" /\ s[5] = "features" OBVIOUS
<1>7. t[1] = "parse" /\ t[2] = "wrap" OBVIOUS
<1>8. u[1] = "~result" /\ u[2] = "~features" /\ u[3] = "~errors" OBVIOUS
<1> HIDE DEF fn, s, t, u
<1>9. Has(fn, s, t, u) BY ONLY <1>1, <1>2, Steps
<1>10. Len(Program(fn)) = 10 /\ Len(Fn[fn].body \o Fn[fn].cleanup) = 5
  BY ONLY <1>3, <1>4, <1>5, <1>9 DEF Has
<1>11. StepAt(fn, 10) = "filename" /\ StepAt(fn, 9) = "buffer" /\ StepAt(fn, 8) = "lexer" /\ StepAt(fn, 7) = "errors" /\ StepAt(fn, 6) = "features"
  <2>1. \A i \in 1..Len(s) : StepAt(fn, Len(s) + Len(t) + Len(u) + 1 - i) = s[i] BY ONLY <1>9 DEF Has
  <2> QED BY ONLY <2>1, <1>3, <1>4, <1>5, <1>6, <1>7, <1>8
<1>12. StepAt(fn, 5) = "parse" /\ StepAt(fn, 4) = "wrap"
  <2>1. \A i \in 1..Len(t) : StepAt(fn, Len(t) + Len(u) + 1 - i) = t[i] BY ONLY <1>9 DEF Has
  <2> QED BY ONLY <2>1, <1>3, <1>4, <1>5, <1>6, <1>7, <1>8
<1>13. StepAt(fn, 3) = "~result" /\ StepAt(fn, 2) = "~features" /\ StepAt(fn, 1) = "~errors"
  <2>1. \A i \in 1..Len(u) : StepAt(fn, Len(u) + 1 - i) = u[i] BY ONLY <1>9 DEF Has
  <2> QED BY ONLY <2>1, <1>3, <1>4, <1>5, <1>6, <1>7, <1>8
<1>14. Program(fn) \in Seq(StepNames) /\ Fn[fn].cleanup = u BY ONLY <1>9 DEF Has
<1>15. Rest(fn, u)
  <2>1. \A i \in 1..Len(u) : u[i] = StepAt(fn, Len(u) + 1 - i) BY ONLY <1>9 DEF Has
  <2>2. Len(u) <= Len(Program(fn)) BY ONLY <1>5, <1>10
  <2> QED BY ONLY <1>2, <2>1, <2>2 DEF Rest
<1> QED BY ONLY <1>1, <1>10, <1>11, <1>12, <1>13, <1>14, <1>5, <1>15 DEF fn

\* The steps of readWasm.
LEMMA Steps_readWasm ==
    /\ "readWasm" \in DOMAIN Fn
    /\ Program("readWasm") \in Seq(StepNames) /\ Len(Program("readWasm")) = 10
    /\ StepAt("readWasm", 10) = "buffer" /\ StepAt("readWasm", 9) = "errors" /\ StepAt("readWasm", 8) = "options"
    /\ StepAt("readWasm", 7) = "features" /\ StepAt("readWasm", 6) = "read" /\ StepAt("readWasm", 5) = "wrap"
    /\ StepAt("readWasm", 4) = "~result" /\ StepAt("readWasm", 3) = "~features" /\ StepAt("readWasm", 2) = "~errors"
    /\ StepAt("readWasm", 1) = "~buffer"
    /\ Rest("readWasm", Fn["readWasm"].cleanup) /\ Len(Fn["readWasm"].cleanup) = 4
    /\ Len(Fn["readWasm"].body \o Fn["readWasm"].cleanup) = 6
<1> DEFINE fn == "readWasm"
           s == <<"buffer", "errors", "options", "features">>
           t == <<"read", "wrap">>
           u == <<"~result", "~features", "~errors", "~buffer">>
<1>1. fn \in DOMAIN Fn /\ Fn[fn] = Function(s, t, u) BY DEF Fn, ReadWasmFn
<1>2. s \in Seq(StepNames) /\ t \in Seq(StepNames) /\ u \in Seq(StepNames)
  <2>1. s \in Seq(StepNames) BY DEF StepNames
  <2>2. t \in Seq(StepNames) BY DEF StepNames
  <2>3. u \in Seq(StepNames) BY DEF StepNames
  <2> QED BY <2>1, <2>2, <2>3
<1>3. Len(s) = 4 OBVIOUS
<1>4. Len(t) = 2 OBVIOUS
<1>5. Len(u) = 4 OBVIOUS
<1>6. s[1] = "buffer" /\ s[2] = "errors" /\ s[3] = "options" /\ s[4] = "features" OBVIOUS
<1>7. t[1] = "read" /\ t[2] = "wrap" OBVIOUS
<1>8. u[1] = "~result" /\ u[2] = "~features" /\ u[3] = "~errors" /\ u[4] = "~buffer" OBVIOUS
<1> HIDE DEF fn, s, t, u
<1>9. Has(fn, s, t, u) BY ONLY <1>1, <1>2, Steps
<1>10. Len(Program(fn)) = 10 /\ Len(Fn[fn].body \o Fn[fn].cleanup) = 6
  BY ONLY <1>3, <1>4, <1>5, <1>9 DEF Has
<1>11. StepAt(fn, 10) = "buffer" /\ StepAt(fn, 9) = "errors" /\ StepAt(fn, 8) = "options" /\ StepAt(fn, 7) = "features"
  <2>1. \A i \in 1..Len(s) : StepAt(fn, Len(s) + Len(t) + Len(u) + 1 - i) = s[i] BY ONLY <1>9 DEF Has
  <2> QED BY ONLY <2>1, <1>3, <1>4, <1>5, <1>6, <1>7, <1>8
<1>12. StepAt(fn, 6) = "read" /\ StepAt(fn, 5) = "wrap"
  <2>1. \A i \in 1..Len(t) : StepAt(fn, Len(t) + Len(u) + 1 - i) = t[i] BY ONLY <1>9 DEF Has
  <2> QED BY ONLY <2>1, <1>3, <1>4, <1>5, <1>6, <1>7, <1>8
<1>13. StepAt(fn, 4) = "~result" /\ StepAt(fn, 3) = "~features" /\ StepAt(fn, 2) = "~errors" /\ StepAt(fn, 1) = "~buffer"
  <2>1. \A i \in 1..Len(u) : StepAt(fn, Len(u) + 1 - i) = u[i] BY ONLY <1>9 DEF Has
  <2> QED BY ONLY <2>1, <1>3, <1>4, <1>5, <1>6, <1>7, <1>8
<1>14. Program(fn) \in Seq(StepNames) /\ Fn[fn].cleanup = u BY ONLY <1>9 DEF Has
<1>15. Rest(fn, u)
  <2>1. \A i \in 1..Len(u) : u[i] = StepAt(fn, Len(u) + 1 - i) BY ONLY <1>9 DEF Has
  <2>2. Len(u) <= Len(Program(fn)) BY ONLY <1>5, <1>10
  <2> QED BY ONLY <1>2, <2>1, <2>2 DEF Rest
<1> QED BY ONLY <1>1, <1>10, <1>11, <1>12, <1>13, <1>14, <1>5, <1>15 DEF fn

\* The steps of validate.
LEMMA Steps_validate ==
    /\ "validate" \in DOMAIN Fn
    /\ Program("validate") \in Seq(StepNames) /\ Len(Program("validate")) = 3
    /\ StepAt("validate", 3) = "features" /\ StepAt("validate", 2) = "validate" /\ StepAt("validate", 1) = "~features"
    /\ Rest("validate", Fn["validate"].cleanup) /\ Len(Fn["validate"].cleanup) = 1
    /\ Len(Fn["validate"].body \o Fn["validate"].cleanup) = 2
<1> DEFINE fn == "validate"
           s == <<"features">>
           t == <<"validate">>
           u == <<"~features">>
<1>1. fn \in DOMAIN Fn /\ Fn[fn] = Function(s, t, u) BY DEF Fn, ValidateFn
<1>2. s \in Seq(StepNames) /\ t \in Seq(StepNames) /\ u \in Seq(StepNames)
  <2>1. s \in Seq(StepNames) BY DEF StepNames
  <2>2. t \in Seq(StepNames) BY DEF StepNames
  <2>3. u \in Seq(StepNames) BY DEF StepNames
  <2> QED BY <2>1, <2>2, <2>3
<1>3. Len(s) = 1 OBVIOUS
<1>4. Len(t) = 1 OBVIOUS
<1>5. Len(u) = 1 OBVIOUS
<1>6. s[1] = "features" OBVIOUS
<1>7. t[1] = "validate" OBVIOUS
<1>8. u[1] = "~features" OBVIOUS
<1> HIDE DEF fn, s, t, u
<1>9. Has(fn, s, t, u) BY ONLY <1>1, <1>2, Steps
<1>10. Len(Program(fn)) = 3 /\ Len(Fn[fn].body \o Fn[fn].cleanup) = 2
  BY ONLY <1>3, <1>4, <1>5, <1>9 DEF Has
<1>11. StepAt(fn, 3) = "features"
  <2>1. \A i \in 1..Len(s) : StepAt(fn, Len(s) + Len(t) + Len(u) + 1 - i) = s[i] BY ONLY <1>9 DEF Has
  <2> QED BY ONLY <2>1, <1>3, <1>4, <1>5, <1>6, <1>7, <1>8
<1>12. StepAt(fn, 2) = "validate"
  <2>1. \A i \in 1..Len(t) : StepAt(fn, Len(t) + Len(u) + 1 - i) = t[i] BY ONLY <1>9 DEF Has
  <2> QED BY ONLY <2>1, <1>3, <1>4, <1>5, <1>6, <1>7, <1>8
<1>13. StepAt(fn, 1) = "~features"
  <2>1. \A i \in 1..Len(u) : StepAt(fn, Len(u) + 1 - i) = u[i] BY ONLY <1>9 DEF Has
  <2> QED BY ONLY <2>1, <1>3, <1>4, <1>5, <1>6, <1>7, <1>8
<1>14. Program(fn) \in Seq(StepNames) /\ Fn[fn].cleanup = u BY ONLY <1>9 DEF Has
<1>15. Rest(fn, u)
  <2>1. \A i \in 1..Len(u) : u[i] = StepAt(fn, Len(u) + 1 - i) BY ONLY <1>9 DEF Has
  <2>2. Len(u) <= Len(Program(fn)) BY ONLY <1>5, <1>10
  <2> QED BY ONLY <1>2, <2>1, <2>2 DEF Rest
<1> QED BY ONLY <1>1, <1>10, <1>11, <1>12, <1>13, <1>14, <1>5, <1>15 DEF fn

\* The steps of resolveNames.
LEMMA Steps_resolveNames ==
    /\ "resolveNames" \in DOMAIN Fn
    /\ Program("resolveNames") \in Seq(StepNames) /\ Len(Program("resolveNames")) = 1
    /\ StepAt("resolveNames", 1) = "names"
    /\ Rest("resolveNames", Fn["resolveNames"].cleanup) /\ Len(Fn["resolveNames"].cleanup) = 0
    /\ Len(Fn["resolveNames"].body \o Fn["resolveNames"].cleanup) = 0
<1> DEFINE fn == "resolveNames"
           s == <<"names">>
           t == << >>
           u == << >>
<1>1. fn \in DOMAIN Fn /\ Fn[fn] = Function(s, t, u) BY DEF Fn, ResolveNamesFn
<1>2. s \in Seq(StepNames) /\ t \in Seq(StepNames) /\ u \in Seq(StepNames)
  <2>1. s \in Seq(StepNames) BY DEF StepNames
  <2>2. t \in Seq(StepNames) BY DEF StepNames
  <2>3. u \in Seq(StepNames) BY DEF StepNames
  <2> QED BY <2>1, <2>2, <2>3
<1>3. Len(s) = 1 OBVIOUS
<1>4. Len(t) = 0 OBVIOUS
<1>5. Len(u) = 0 OBVIOUS
<1>6. s[1] = "names" OBVIOUS
<1> HIDE DEF fn, s, t, u
<1>7. Has(fn, s, t, u) BY ONLY <1>1, <1>2, Steps
<1>8. Len(Program(fn)) = 1 /\ Len(Fn[fn].body \o Fn[fn].cleanup) = 0
  BY ONLY <1>3, <1>4, <1>5, <1>7 DEF Has
<1>9. StepAt(fn, 1) = "names"
  <2>1. \A i \in 1..Len(s) : StepAt(fn, Len(s) + Len(t) + Len(u) + 1 - i) = s[i] BY ONLY <1>7 DEF Has
  <2> QED BY ONLY <2>1, <1>3, <1>4, <1>5, <1>6
<1>10. Program(fn) \in Seq(StepNames) /\ Fn[fn].cleanup = u BY ONLY <1>7 DEF Has
<1>11. Rest(fn, u)
  <2>1. \A i \in 1..Len(u) : u[i] = StepAt(fn, Len(u) + 1 - i) BY ONLY <1>7 DEF Has
  <2>2. Len(u) <= Len(Program(fn)) BY ONLY <1>5, <1>8
  <2> QED BY ONLY <1>2, <2>1, <2>2 DEF Rest
<1> QED BY ONLY <1>1, <1>8, <1>9, <1>10, <1>5, <1>11 DEF fn

\* The steps of generateNames.
LEMMA Steps_generateNames ==
    /\ "generateNames" \in DOMAIN Fn
    /\ Program("generateNames") \in Seq(StepNames) /\ Len(Program("generateNames")) = 1
    /\ StepAt("generateNames", 1) = "names"
    /\ Rest("generateNames", Fn["generateNames"].cleanup) /\ Len(Fn["generateNames"].cleanup) = 0
    /\ Len(Fn["generateNames"].body \o Fn["generateNames"].cleanup) = 0
<1> DEFINE fn == "generateNames"
           s == <<"names">>
           t == << >>
           u == << >>
<1>1. fn \in DOMAIN Fn /\ Fn[fn] = Function(s, t, u) BY DEF Fn, GenerateNamesFn
<1>2. s \in Seq(StepNames) /\ t \in Seq(StepNames) /\ u \in Seq(StepNames)
  <2>1. s \in Seq(StepNames) BY DEF StepNames
  <2>2. t \in Seq(StepNames) BY DEF StepNames
  <2>3. u \in Seq(StepNames) BY DEF StepNames
  <2> QED BY <2>1, <2>2, <2>3
<1>3. Len(s) = 1 OBVIOUS
<1>4. Len(t) = 0 OBVIOUS
<1>5. Len(u) = 0 OBVIOUS
<1>6. s[1] = "names" OBVIOUS
<1> HIDE DEF fn, s, t, u
<1>7. Has(fn, s, t, u) BY ONLY <1>1, <1>2, Steps
<1>8. Len(Program(fn)) = 1 /\ Len(Fn[fn].body \o Fn[fn].cleanup) = 0
  BY ONLY <1>3, <1>4, <1>5, <1>7 DEF Has
<1>9. StepAt(fn, 1) = "names"
  <2>1. \A i \in 1..Len(s) : StepAt(fn, Len(s) + Len(t) + Len(u) + 1 - i) = s[i] BY ONLY <1>7 DEF Has
  <2> QED BY ONLY <2>1, <1>3, <1>4, <1>5, <1>6
<1>10. Program(fn) \in Seq(StepNames) /\ Fn[fn].cleanup = u BY ONLY <1>7 DEF Has
<1>11. Rest(fn, u)
  <2>1. \A i \in 1..Len(u) : u[i] = StepAt(fn, Len(u) + 1 - i) BY ONLY <1>7 DEF Has
  <2>2. Len(u) <= Len(Program(fn)) BY ONLY <1>5, <1>8
  <2> QED BY ONLY <1>2, <2>1, <2>2 DEF Rest
<1> QED BY ONLY <1>1, <1>8, <1>9, <1>10, <1>5, <1>11 DEF fn

\* The steps of applyNames.
LEMMA Steps_applyNames ==
    /\ "applyNames" \in DOMAIN Fn
    /\ Program("applyNames") \in Seq(StepNames) /\ Len(Program("applyNames")) = 1
    /\ StepAt("applyNames", 1) = "names"
    /\ Rest("applyNames", Fn["applyNames"].cleanup) /\ Len(Fn["applyNames"].cleanup) = 0
    /\ Len(Fn["applyNames"].body \o Fn["applyNames"].cleanup) = 0
<1> DEFINE fn == "applyNames"
           s == <<"names">>
           t == << >>
           u == << >>
<1>1. fn \in DOMAIN Fn /\ Fn[fn] = Function(s, t, u) BY DEF Fn, ApplyNamesFn
<1>2. s \in Seq(StepNames) /\ t \in Seq(StepNames) /\ u \in Seq(StepNames)
  <2>1. s \in Seq(StepNames) BY DEF StepNames
  <2>2. t \in Seq(StepNames) BY DEF StepNames
  <2>3. u \in Seq(StepNames) BY DEF StepNames
  <2> QED BY <2>1, <2>2, <2>3
<1>3. Len(s) = 1 OBVIOUS
<1>4. Len(t) = 0 OBVIOUS
<1>5. Len(u) = 0 OBVIOUS
<1>6. s[1] = "names" OBVIOUS
<1> HIDE DEF fn, s, t, u
<1>7. Has(fn, s, t, u) BY ONLY <1>1, <1>2, Steps
<1>8. Len(Program(fn)) = 1 /\ Len(Fn[fn].body \o Fn[fn].cleanup) = 0
  BY ONLY <1>3, <1>4, <1>5, <1>7 DEF Has
<1>9. StepAt(fn, 1) = "names"
  <2>1. \A i \in 1..Len(s) : StepAt(fn, Len(s) + Len(t) + Len(u) + 1 - i) = s[i] BY ONLY <1>7 DEF Has
  <2> QED BY ONLY <2>1, <1>3, <1>4, <1>5, <1>6
<1>10. Program(fn) \in Seq(StepNames) /\ Fn[fn].cleanup = u BY ONLY <1>7 DEF Has
<1>11. Rest(fn, u)
  <2>1. \A i \in 1..Len(u) : u[i] = StepAt(fn, Len(u) + 1 - i) BY ONLY <1>7 DEF Has
  <2>2. Len(u) <= Len(Program(fn)) BY ONLY <1>5, <1>8
  <2> QED BY ONLY <1>2, <2>1, <2>2 DEF Rest
<1> QED BY ONLY <1>1, <1>8, <1>9, <1>10, <1>5, <1>11 DEF fn

\* The steps of toText.
LEMMA Steps_toText ==
    /\ "toText" \in DOMAIN Fn
    /\ Program("toText") \in Seq(StepNames) /\ Len(Program("toText")) = 6
    /\ StepAt("toText", 6) = "options" /\ StepAt("toText", 5) = "write" /\ StepAt("toText", 4) = "output"
    /\ StepAt("toText", 3) = "convert" /\ StepAt("toText", 2) = "~output" /\ StepAt("toText", 1) = "~result"
    /\ Rest("toText", Fn["toText"].cleanup) /\ Len(Fn["toText"].cleanup) = 2
    /\ Len(Fn["toText"].body \o Fn["toText"].cleanup) = 4
<1> DEFINE fn == "toText"
           s == <<"options", "write">>
           t == <<"output", "convert">>
           u == <<"~output", "~result">>
<1>1. fn \in DOMAIN Fn /\ Fn[fn] = Function(s, t, u) BY DEF Fn, ToTextFn
<1>2. s \in Seq(StepNames) /\ t \in Seq(StepNames) /\ u \in Seq(StepNames)
  <2>1. s \in Seq(StepNames) BY DEF StepNames
  <2>2. t \in Seq(StepNames) BY DEF StepNames
  <2>3. u \in Seq(StepNames) BY DEF StepNames
  <2> QED BY <2>1, <2>2, <2>3
<1>3. Len(s) = 2 OBVIOUS
<1>4. Len(t) = 2 OBVIOUS
<1>5. Len(u) = 2 OBVIOUS
<1>6. s[1] = "options" /\ s[2] = "write" OBVIOUS
<1>7. t[1] = "output" /\ t[2] = "convert" OBVIOUS
<1>8. u[1] = "~output" /\ u[2] = "~result" OBVIOUS
<1> HIDE DEF fn, s, t, u
<1>9. Has(fn, s, t, u) BY ONLY <1>1, <1>2, Steps
<1>10. Len(Program(fn)) = 6 /\ Len(Fn[fn].body \o Fn[fn].cleanup) = 4
  BY ONLY <1>3, <1>4, <1>5, <1>9 DEF Has
<1>11. StepAt(fn, 6) = "options" /\ StepAt(fn, 5) = "write"
  <2>1. \A i \in 1..Len(s) : StepAt(fn, Len(s) + Len(t) + Len(u) + 1 - i) = s[i] BY ONLY <1>9 DEF Has
  <2> QED BY ONLY <2>1, <1>3, <1>4, <1>5, <1>6, <1>7, <1>8
<1>12. StepAt(fn, 4) = "output" /\ StepAt(fn, 3) = "convert"
  <2>1. \A i \in 1..Len(t) : StepAt(fn, Len(t) + Len(u) + 1 - i) = t[i] BY ONLY <1>9 DEF Has
  <2> QED BY ONLY <2>1, <1>3, <1>4, <1>5, <1>6, <1>7, <1>8
<1>13. StepAt(fn, 2) = "~output" /\ StepAt(fn, 1) = "~result"
  <2>1. \A i \in 1..Len(u) : StepAt(fn, Len(u) + 1 - i) = u[i] BY ONLY <1>9 DEF Has
  <2> QED BY ONLY <2>1, <1>3, <1>4, <1>5, <1>6, <1>7, <1>8
<1>14. Program(fn) \in Seq(StepNames) /\ Fn[fn].cleanup = u BY ONLY <1>9 DEF Has
<1>15. Rest(fn, u)
  <2>1. \A i \in 1..Len(u) : u[i] = StepAt(fn, Len(u) + 1 - i) BY ONLY <1>9 DEF Has
  <2>2. Len(u) <= Len(Program(fn)) BY ONLY <1>5, <1>10
  <2> QED BY ONLY <1>2, <2>1, <2>2 DEF Rest
<1> QED BY ONLY <1>1, <1>10, <1>11, <1>12, <1>13, <1>14, <1>5, <1>15 DEF fn

\* The steps of toBinary.
LEMMA Steps_toBinary ==
    /\ "toBinary" \in DOMAIN Fn
    /\ Program("toBinary") \in Seq(StepNames) /\ Len(Program("toBinary")) = 8
    /\ StepAt("toBinary", 8) = "options" /\ StepAt("toBinary", 7) = "write" /\ StepAt("toBinary", 6) = "output"
    /\ StepAt("toBinary", 5) = "log" /\ StepAt("toBinary", 4) = "convert" /\ StepAt("toBinary", 3) = "~output"
    /\ StepAt("toBinary", 2) = "~log" /\ StepAt("toBinary", 1) = "~result"
    /\ Rest("toBinary", Fn["toBinary"].cleanup) /\ Len(Fn["toBinary"].cleanup) = 3
    /\ Len(Fn["toBinary"].body \o Fn["toBinary"].cleanup) = 6
<1> DEFINE fn == "toBinary"
           s == <<"options", "write">>
           t == <<"output", "log", "convert">>
           u == <<"~output", "~log", "~result">>
<1>1. fn \in DOMAIN Fn /\ Fn[fn] = Function(s, t, u) BY DEF Fn, ToBinaryFn
<1>2. s \in Seq(StepNames) /\ t \in Seq(StepNames) /\ u \in Seq(StepNames)
  <2>1. s \in Seq(StepNames) BY DEF StepNames
  <2>2. t \in Seq(StepNames) BY DEF StepNames
  <2>3. u \in Seq(StepNames) BY DEF StepNames
  <2> QED BY <2>1, <2>2, <2>3
<1>3. Len(s) = 2 OBVIOUS
<1>4. Len(t) = 3 OBVIOUS
<1>5. Len(u) = 3 OBVIOUS
<1>6. s[1] = "options" /\ s[2] = "write" OBVIOUS
<1>7. t[1] = "output" /\ t[2] = "log" /\ t[3] = "convert" OBVIOUS
<1>8. u[1] = "~output" /\ u[2] = "~log" /\ u[3] = "~result" OBVIOUS
<1> HIDE DEF fn, s, t, u
<1>9. Has(fn, s, t, u) BY ONLY <1>1, <1>2, Steps
<1>10. Len(Program(fn)) = 8 /\ Len(Fn[fn].body \o Fn[fn].cleanup) = 6
  BY ONLY <1>3, <1>4, <1>5, <1>9 DEF Has
<1>11. StepAt(fn, 8) = "options" /\ StepAt(fn, 7) = "write"
  <2>1. \A i \in 1..Len(s) : StepAt(fn, Len(s) + Len(t) + Len(u) + 1 - i) = s[i] BY ONLY <1>9 DEF Has
  <2> QED BY ONLY <2>1, <1>3, <1>4, <1>5, <1>6, <1>7, <1>8
<1>12. StepAt(fn, 6) = "output" /\ StepAt(fn, 5) = "log" /\ StepAt(fn, 4) = "convert"
  <2>1. \A i \in 1..Len(t) : StepAt(fn, Len(t) + Len(u) + 1 - i) = t[i] BY ONLY <1>9 DEF Has
  <2> QED BY ONLY <2>1, <1>3, <1>4, <1>5, <1>6, <1>7, <1>8
<1>13. StepAt(fn, 3) = "~output" /\ StepAt(fn, 2) = "~log" /\ StepAt(fn, 1) = "~result"
  <2>1. \A i \in 1..Len(u) : StepAt(fn, Len(u) + 1 - i) = u[i] BY ONLY <1>9 DEF Has
  <2> QED BY ONLY <2>1, <1>3, <1>4, <1>5, <1>6, <1>7, <1>8
<1>14. Program(fn) \in Seq(StepNames) /\ Fn[fn].cleanup = u BY ONLY <1>9 DEF Has
<1>15. Rest(fn, u)
  <2>1. \A i \in 1..Len(u) : u[i] = StepAt(fn, Len(u) + 1 - i) BY ONLY <1>9 DEF Has
  <2>2. Len(u) <= Len(Program(fn)) BY ONLY <1>5, <1>10
  <2> QED BY ONLY <1>2, <2>1, <2>2 DEF Rest
<1> QED BY ONLY <1>1, <1>10, <1>11, <1>12, <1>13, <1>14, <1>5, <1>15 DEF fn

\* The steps of destroy.
LEMMA Steps_destroy ==
    /\ "destroy" \in DOMAIN Fn
    /\ Program("destroy") \in Seq(StepNames) /\ Len(Program("destroy")) = 2
    /\ StepAt("destroy", 2) = "~module" /\ StepAt("destroy", 1) = "~errors"
    /\ Rest("destroy", Fn["destroy"].cleanup) /\ Len(Fn["destroy"].cleanup) = 2
    /\ Len(Fn["destroy"].body \o Fn["destroy"].cleanup) = 2
<1> DEFINE fn == "destroy"
           s == << >>
           t == << >>
           u == <<"~module", "~errors">>
<1>1. fn \in DOMAIN Fn /\ Fn[fn] = Function(s, t, u) BY DEF Fn, DestroyFn
<1>2. s \in Seq(StepNames) /\ t \in Seq(StepNames) /\ u \in Seq(StepNames)
  <2>1. s \in Seq(StepNames) BY DEF StepNames
  <2>2. t \in Seq(StepNames) BY DEF StepNames
  <2>3. u \in Seq(StepNames) BY DEF StepNames
  <2> QED BY <2>1, <2>2, <2>3
<1>3. Len(s) = 0 OBVIOUS
<1>4. Len(t) = 0 OBVIOUS
<1>5. Len(u) = 2 OBVIOUS
<1>6. u[1] = "~module" /\ u[2] = "~errors" OBVIOUS
<1> HIDE DEF fn, s, t, u
<1>7. Has(fn, s, t, u) BY ONLY <1>1, <1>2, Steps
<1>8. Len(Program(fn)) = 2 /\ Len(Fn[fn].body \o Fn[fn].cleanup) = 2
  BY ONLY <1>3, <1>4, <1>5, <1>7 DEF Has
<1>9. StepAt(fn, 2) = "~module" /\ StepAt(fn, 1) = "~errors"
  <2>1. \A i \in 1..Len(u) : StepAt(fn, Len(u) + 1 - i) = u[i] BY ONLY <1>7 DEF Has
  <2> QED BY ONLY <2>1, <1>3, <1>4, <1>5, <1>6
<1>10. Program(fn) \in Seq(StepNames) /\ Fn[fn].cleanup = u BY ONLY <1>7 DEF Has
<1>11. Rest(fn, u)
  <2>1. \A i \in 1..Len(u) : u[i] = StepAt(fn, Len(u) + 1 - i) BY ONLY <1>7 DEF Has
  <2>2. Len(u) <= Len(Program(fn)) BY ONLY <1>5, <1>8
  <2> QED BY ONLY <1>2, <2>1, <2>2 DEF Rest
<1> QED BY ONLY <1>1, <1>8, <1>9, <1>10, <1>5, <1>11 DEF fn

\* Where a step is.
Place(step, fn, n) ==
    /\ step = "filename" =>
          (fn = "parseWat" /\ n = 10)
    /\ step = "buffer" =>
          (fn = "parseWat" /\ n = 9) \/ (fn = "readWasm" /\ n = 10)
    /\ step = "lexer" =>
          (fn = "parseWat" /\ n = 8)
    /\ step = "errors" =>
          (fn = "parseWat" /\ n = 7) \/ (fn = "readWasm" /\ n = 9)
    /\ step = "features" =>
          (fn = "parseWat" /\ n = 6) \/ (fn = "readWasm" /\ n = 7) \/ (fn = "validate" /\ n = 3)
    /\ step = "parse" =>
          (fn = "parseWat" /\ n = 5)
    /\ step = "wrap" =>
          (fn = "parseWat" /\ n = 4) \/ (fn = "readWasm" /\ n = 5)
    /\ step = "~result" =>
          (fn = "parseWat" /\ n = 3) \/ (fn = "readWasm" /\ n = 4) \/ (fn = "toText" /\ n = 1) \/ (fn = "toBinary" /\ n = 1)
    /\ step = "~features" =>
          (fn = "parseWat" /\ n = 2) \/ (fn = "readWasm" /\ n = 3) \/ (fn = "validate" /\ n = 1)
    /\ step = "~errors" =>
          (fn = "parseWat" /\ n = 1) \/ (fn = "readWasm" /\ n = 2) \/ (fn = "destroy" /\ n = 1)
    /\ step = "options" =>
          (fn = "readWasm" /\ n = 8) \/ (fn = "toText" /\ n = 6) \/ (fn = "toBinary" /\ n = 8)
    /\ step = "read" =>
          (fn = "readWasm" /\ n = 6)
    /\ step = "~buffer" =>
          (fn = "readWasm" /\ n = 1)
    /\ step = "validate" =>
          (fn = "validate" /\ n = 2)
    /\ step = "names" =>
          (fn = "resolveNames" /\ n = 1) \/ (fn = "generateNames" /\ n = 1) \/ (fn = "applyNames" /\ n = 1)
    /\ step = "write" =>
          (fn = "toText" /\ n = 5) \/ (fn = "toBinary" /\ n = 7)
    /\ step = "output" =>
          (fn = "toText" /\ n = 4) \/ (fn = "toBinary" /\ n = 6)
    /\ step = "convert" =>
          (fn = "toText" /\ n = 3) \/ (fn = "toBinary" /\ n = 4)
    /\ step = "~output" =>
          (fn = "toText" /\ n = 2) \/ (fn = "toBinary" /\ n = 3)
    /\ step = "log" =>
          (fn = "toBinary" /\ n = 5)
    /\ step = "~log" =>
          (fn = "toBinary" /\ n = 2)
    /\ step = "~module" =>
          (fn = "destroy" /\ n = 2)

\* There are nine functions.
LEMMA Functions ==
    \A fn \in DOMAIN Fn :
        fn \in {"parseWat", "readWasm", "validate", "resolveNames", "generateNames",
               "applyNames", "toText", "toBinary", "destroy"}
  BY DEF Fn

\* Each step is where Place says.
LEMMA Placed ==
    ASSUME NEW fn \in DOMAIN Fn, NEW n \in 1..Len(Program(fn))
    PROVE  Place(StepAt(fn, n), fn, n)
<1>1. CASE fn = "parseWat"
  <2>0. Len(Program(fn)) = 10 BY Zenon, <1>1, Steps_parseWat
  <2>1. n = 1 \/ n = 2 \/ n = 3 \/ n = 4 \/ n = 5 \/ n = 6 \/ n = 7 \/ n = 8 \/ n = 9 \/ n = 10 BY <2>0
  <2>2. CASE n = 1
    <3>1. StepAt(fn, n) = "~errors" BY <2>2, <1>1, Steps_parseWat
    <3> QED BY <3>1, <2>2, <1>1 DEF Place
  <2>3. CASE n = 2
    <3>1. StepAt(fn, n) = "~features" BY <2>3, <1>1, Steps_parseWat
    <3> QED BY <3>1, <2>3, <1>1 DEF Place
  <2>4. CASE n = 3
    <3>1. StepAt(fn, n) = "~result" BY <2>4, <1>1, Steps_parseWat
    <3> QED BY <3>1, <2>4, <1>1 DEF Place
  <2>5. CASE n = 4
    <3>1. StepAt(fn, n) = "wrap" BY <2>5, <1>1, Steps_parseWat
    <3> QED BY <3>1, <2>5, <1>1 DEF Place
  <2>6. CASE n = 5
    <3>1. StepAt(fn, n) = "parse" BY <2>6, <1>1, Steps_parseWat
    <3> QED BY <3>1, <2>6, <1>1 DEF Place
  <2>7. CASE n = 6
    <3>1. StepAt(fn, n) = "features" BY <2>7, <1>1, Steps_parseWat
    <3> QED BY <3>1, <2>7, <1>1 DEF Place
  <2>8. CASE n = 7
    <3>1. StepAt(fn, n) = "errors" BY <2>8, <1>1, Steps_parseWat
    <3> QED BY <3>1, <2>8, <1>1 DEF Place
  <2>9. CASE n = 8
    <3>1. StepAt(fn, n) = "lexer" BY <2>9, <1>1, Steps_parseWat
    <3> QED BY <3>1, <2>9, <1>1 DEF Place
  <2>10. CASE n = 9
    <3>1. StepAt(fn, n) = "buffer" BY <2>10, <1>1, Steps_parseWat
    <3> QED BY <3>1, <2>10, <1>1 DEF Place
  <2>11. CASE n = 10
    <3>1. StepAt(fn, n) = "filename" BY <2>11, <1>1, Steps_parseWat
    <3> QED BY <3>1, <2>11, <1>1 DEF Place
  <2> QED BY <2>1, <2>2, <2>3, <2>4, <2>5, <2>6, <2>7, <2>8, <2>9, <2>10, <2>11
<1>2. CASE fn = "readWasm"
  <2>0. Len(Program(fn)) = 10 BY Zenon, <1>2, Steps_readWasm
  <2>1. n = 1 \/ n = 2 \/ n = 3 \/ n = 4 \/ n = 5 \/ n = 6 \/ n = 7 \/ n = 8 \/ n = 9 \/ n = 10 BY <2>0
  <2>2. CASE n = 1
    <3>1. StepAt(fn, n) = "~buffer" BY <2>2, <1>2, Steps_readWasm
    <3> QED BY <3>1, <2>2, <1>2 DEF Place
  <2>3. CASE n = 2
    <3>1. StepAt(fn, n) = "~errors" BY <2>3, <1>2, Steps_readWasm
    <3> QED BY <3>1, <2>3, <1>2 DEF Place
  <2>4. CASE n = 3
    <3>1. StepAt(fn, n) = "~features" BY <2>4, <1>2, Steps_readWasm
    <3> QED BY <3>1, <2>4, <1>2 DEF Place
  <2>5. CASE n = 4
    <3>1. StepAt(fn, n) = "~result" BY <2>5, <1>2, Steps_readWasm
    <3> QED BY <3>1, <2>5, <1>2 DEF Place
  <2>6. CASE n = 5
    <3>1. StepAt(fn, n) = "wrap" BY <2>6, <1>2, Steps_readWasm
    <3> QED BY <3>1, <2>6, <1>2 DEF Place
  <2>7. CASE n = 6
    <3>1. StepAt(fn, n) = "read" BY <2>7, <1>2, Steps_readWasm
    <3> QED BY <3>1, <2>7, <1>2 DEF Place
  <2>8. CASE n = 7
    <3>1. StepAt(fn, n) = "features" BY <2>8, <1>2, Steps_readWasm
    <3> QED BY <3>1, <2>8, <1>2 DEF Place
  <2>9. CASE n = 8
    <3>1. StepAt(fn, n) = "options" BY <2>9, <1>2, Steps_readWasm
    <3> QED BY <3>1, <2>9, <1>2 DEF Place
  <2>10. CASE n = 9
    <3>1. StepAt(fn, n) = "errors" BY <2>10, <1>2, Steps_readWasm
    <3> QED BY <3>1, <2>10, <1>2 DEF Place
  <2>11. CASE n = 10
    <3>1. StepAt(fn, n) = "buffer" BY <2>11, <1>2, Steps_readWasm
    <3> QED BY <3>1, <2>11, <1>2 DEF Place
  <2> QED BY <2>1, <2>2, <2>3, <2>4, <2>5, <2>6, <2>7, <2>8, <2>9, <2>10, <2>11
<1>3. CASE fn = "validate"
  <2>0. Len(Program(fn)) = 3 BY Zenon, <1>3, Steps_validate
  <2>1. n = 1 \/ n = 2 \/ n = 3 BY <2>0
  <2>2. CASE n = 1
    <3>1. StepAt(fn, n) = "~features" BY <2>2, <1>3, Steps_validate
    <3> QED BY <3>1, <2>2, <1>3 DEF Place
  <2>3. CASE n = 2
    <3>1. StepAt(fn, n) = "validate" BY <2>3, <1>3, Steps_validate
    <3> QED BY <3>1, <2>3, <1>3 DEF Place
  <2>4. CASE n = 3
    <3>1. StepAt(fn, n) = "features" BY <2>4, <1>3, Steps_validate
    <3> QED BY <3>1, <2>4, <1>3 DEF Place
  <2> QED BY <2>1, <2>2, <2>3, <2>4
<1>4. CASE fn = "resolveNames"
  <2>0. Len(Program(fn)) = 1 BY Zenon, <1>4, Steps_resolveNames
  <2>1. n = 1 BY <2>0
  <2>2. StepAt(fn, n) = "names" BY <2>1, <1>4, Steps_resolveNames
  <2> QED BY <2>1, <2>2, <1>4 DEF Place
<1>5. CASE fn = "generateNames"
  <2>0. Len(Program(fn)) = 1 BY Zenon, <1>5, Steps_generateNames
  <2>1. n = 1 BY <2>0
  <2>2. StepAt(fn, n) = "names" BY <2>1, <1>5, Steps_generateNames
  <2> QED BY <2>1, <2>2, <1>5 DEF Place
<1>6. CASE fn = "applyNames"
  <2>0. Len(Program(fn)) = 1 BY Zenon, <1>6, Steps_applyNames
  <2>1. n = 1 BY <2>0
  <2>2. StepAt(fn, n) = "names" BY <2>1, <1>6, Steps_applyNames
  <2> QED BY <2>1, <2>2, <1>6 DEF Place
<1>7. CASE fn = "toText"
  <2>0. Len(Program(fn)) = 6 BY Zenon, <1>7, Steps_toText
  <2>1. n = 1 \/ n = 2 \/ n = 3 \/ n = 4 \/ n = 5 \/ n = 6 BY <2>0
  <2>2. CASE n = 1
    <3>1. StepAt(fn, n) = "~result" BY <2>2, <1>7, Steps_toText
    <3> QED BY <3>1, <2>2, <1>7 DEF Place
  <2>3. CASE n = 2
    <3>1. StepAt(fn, n) = "~output" BY <2>3, <1>7, Steps_toText
    <3> QED BY <3>1, <2>3, <1>7 DEF Place
  <2>4. CASE n = 3
    <3>1. StepAt(fn, n) = "convert" BY <2>4, <1>7, Steps_toText
    <3> QED BY <3>1, <2>4, <1>7 DEF Place
  <2>5. CASE n = 4
    <3>1. StepAt(fn, n) = "output" BY <2>5, <1>7, Steps_toText
    <3> QED BY <3>1, <2>5, <1>7 DEF Place
  <2>6. CASE n = 5
    <3>1. StepAt(fn, n) = "write" BY <2>6, <1>7, Steps_toText
    <3> QED BY <3>1, <2>6, <1>7 DEF Place
  <2>7. CASE n = 6
    <3>1. StepAt(fn, n) = "options" BY <2>7, <1>7, Steps_toText
    <3> QED BY <3>1, <2>7, <1>7 DEF Place
  <2> QED BY <2>1, <2>2, <2>3, <2>4, <2>5, <2>6, <2>7
<1>8. CASE fn = "toBinary"
  <2>0. Len(Program(fn)) = 8 BY Zenon, <1>8, Steps_toBinary
  <2>1. n = 1 \/ n = 2 \/ n = 3 \/ n = 4 \/ n = 5 \/ n = 6 \/ n = 7 \/ n = 8 BY <2>0
  <2>2. CASE n = 1
    <3>1. StepAt(fn, n) = "~result" BY <2>2, <1>8, Steps_toBinary
    <3> QED BY <3>1, <2>2, <1>8 DEF Place
  <2>3. CASE n = 2
    <3>1. StepAt(fn, n) = "~log" BY <2>3, <1>8, Steps_toBinary
    <3> QED BY <3>1, <2>3, <1>8 DEF Place
  <2>4. CASE n = 3
    <3>1. StepAt(fn, n) = "~output" BY <2>4, <1>8, Steps_toBinary
    <3> QED BY <3>1, <2>4, <1>8 DEF Place
  <2>5. CASE n = 4
    <3>1. StepAt(fn, n) = "convert" BY <2>5, <1>8, Steps_toBinary
    <3> QED BY <3>1, <2>5, <1>8 DEF Place
  <2>6. CASE n = 5
    <3>1. StepAt(fn, n) = "log" BY <2>6, <1>8, Steps_toBinary
    <3> QED BY <3>1, <2>6, <1>8 DEF Place
  <2>7. CASE n = 6
    <3>1. StepAt(fn, n) = "output" BY <2>7, <1>8, Steps_toBinary
    <3> QED BY <3>1, <2>7, <1>8 DEF Place
  <2>8. CASE n = 7
    <3>1. StepAt(fn, n) = "write" BY <2>8, <1>8, Steps_toBinary
    <3> QED BY <3>1, <2>8, <1>8 DEF Place
  <2>9. CASE n = 8
    <3>1. StepAt(fn, n) = "options" BY <2>9, <1>8, Steps_toBinary
    <3> QED BY <3>1, <2>9, <1>8 DEF Place
  <2> QED BY <2>1, <2>2, <2>3, <2>4, <2>5, <2>6, <2>7, <2>8, <2>9
<1>9. CASE fn = "destroy"
  <2>0. Len(Program(fn)) = 2 BY Zenon, <1>9, Steps_destroy
  <2>1. n = 1 \/ n = 2 BY <2>0
  <2>2. CASE n = 1
    <3>1. StepAt(fn, n) = "~errors" BY <2>2, <1>9, Steps_destroy
    <3> QED BY <3>1, <2>2, <1>9 DEF Place
  <2>3. CASE n = 2
    <3>1. StepAt(fn, n) = "~module" BY <2>3, <1>9, Steps_destroy
    <3> QED BY <3>1, <2>3, <1>9 DEF Place
  <2> QED BY <2>1, <2>2, <2>3
<1> QED BY Functions, <1>1, <1>2, <1>3, <1>4, <1>5, <1>6, <1>7, <1>8, <1>9

\* So is the one that comes next.
LEMMA Where ==
    ASSUME NEW fn \in DOMAIN Fn, NEW todo, Rest(fn, todo), todo # << >>
    PROVE  Place(Head(todo), fn, Len(todo))
<1>1. todo \in Seq(StepNames) /\ Len(todo) \in 1..Len(Program(fn)) /\ Head(todo) = todo[1]
  BY DEF Rest
<1>2. todo[1] = StepAt(fn, Len(todo) + 1 - 1) BY <1>1 DEF Rest
<1>3. Len(todo) + 1 - 1 = Len(todo) BY <1>1
<1> QED BY <1>1, <1>2, <1>3, Placed

\* What is left after it.
LEMMA RestTail ==
    ASSUME NEW fn \in DOMAIN Fn, NEW todo, Rest(fn, todo), todo # << >>
    PROVE  Rest(fn, Tail(todo)) /\ Len(Tail(todo)) = Len(todo) - 1 /\ Len(todo) \in Nat
<1> DEFINE q == Tail(todo)
<1>1. /\ todo \in Seq(StepNames) /\ Len(todo) <= Len(Program(fn))
      /\ \A i \in 1..Len(todo) : todo[i] = StepAt(fn, Len(todo) + 1 - i)
  BY DEF Rest
<1>2. Len(todo) \in Nat /\ Len(todo) # 0 BY <1>1
<1>3. q \in Seq(StepNames) /\ Len(q) = Len(todo) - 1 BY <1>1
<1>4. \A i \in 1..Len(q) : q[i] = todo[i + 1] BY <1>1
<1> HIDE DEF q
<1>5. Len(Program(fn)) \in Nat
  BY Functions, Steps_parseWat, Steps_readWasm, Steps_validate, Steps_resolveNames,
     Steps_generateNames, Steps_applyNames, Steps_toText, Steps_toBinary, Steps_destroy
<1>6. \A i \in 1..Len(q) : q[i] = StepAt(fn, Len(q) + 1 - i)
  <2> TAKE i \in 1..Len(q)
  <2>1. i + 1 \in 1..Len(todo) /\ Len(todo) + 1 - (i + 1) = Len(q) + 1 - i BY <1>2, <1>3
  <2> QED BY <2>1, <1>1, <1>4
<1>7. Len(q) <= Len(Program(fn)) BY <1>1, <1>2, <1>3, <1>5
<1>8. Rest(fn, q) BY <1>3, <1>6, <1>7 DEF Rest
<1> QED BY <1>2, <1>3, <1>8 DEF q

\* What is left at the start.
LEMMA RestStart == \A fn \in DOMAIN Fn : Rest(fn, Program(fn))
<1> TAKE fn \in DOMAIN Fn
<1> DEFINE q == Program(fn)
<1>1. q \in Seq(StepNames)
  BY Functions, Steps_parseWat, Steps_readWasm, Steps_validate, Steps_resolveNames,
     Steps_generateNames, Steps_applyNames, Steps_toText, Steps_toBinary, Steps_destroy
<1>2. \A n : StepAt(fn, n) = q[Len(q) + 1 - n] BY DEF StepAt
<1> HIDE DEF q
<1>3. \A i \in 1..Len(q) : q[i] = StepAt(fn, Len(q) + 1 - i)
  <2> TAKE i \in 1..Len(q)
  <2>1. Len(q) + 1 - (Len(q) + 1 - i) = i BY <1>1
  <2> QED BY <2>1, <1>2
<1>4. Len(q) <= Len(q) BY <1>1
<1> QED BY <1>1, <1>3, <1>4 DEF Rest, q

-----------------------------------------------------------------------------
(* The variables of a call, from one step to the next.                     *)

\* A variable is set, and the call is one step further.
Grows(fn, n, obj, slot, p) ==
    /\ slot \notin Mine(fn, n, obj)
    /\ Mine(fn, n - 1, p) = IF p[slot] = Null THEN Mine(fn, n, obj) ELSE Mine(fn, n, obj) \cup {slot}
    /\ Reached(fn, n - 1, p)
    /\ slot \notin {"output", "log"} => "result" \notin Mine(fn, n, obj)
    /\ slot \in {"output", "log"} => "result" \in Mine(fn, n, obj)
    /\ slot = "buffer" => "lexer" \notin Mine(fn, n, obj)
    /\ slot = "lexer" => "buffer" \in Mine(fn, n, obj)

Sets(fn, n, slot) ==
    \/ fn = "parseWat" /\ n = 10 /\ slot = "filename"
    \/ fn = "parseWat" /\ n = 9 /\ slot = "buffer"
    \/ fn = "parseWat" /\ n = 8 /\ slot = "lexer"
    \/ fn = "parseWat" /\ n = 7 /\ slot = "errors"
    \/ fn = "parseWat" /\ n = 6 /\ slot = "features"
    \/ fn = "parseWat" /\ n = 5 /\ slot = "result"
    \/ fn = "readWasm" /\ n = 10 /\ slot = "buffer"
    \/ fn = "readWasm" /\ n = 9 /\ slot = "errors"
    \/ fn = "readWasm" /\ n = 7 /\ slot = "features"
    \/ fn = "readWasm" /\ n = 6 /\ slot = "result"
    \/ fn = "validate" /\ n = 3 /\ slot = "features"
    \/ fn = "toText" /\ n = 5 /\ slot = "result"
    \/ fn = "toBinary" /\ n = 7 /\ slot = "result"
    \/ fn = "toText" /\ n = 4 /\ slot = "output"
    \/ fn = "toBinary" /\ n = 6 /\ slot = "output"
    \/ fn = "toBinary" /\ n = 5 /\ slot = "log"

\* A variable that is set becomes the call's.
LEMMA MineGrows ==
    ASSUME NEW obj \in [Slots -> Addr \cup {Null}], NEW fn, NEW n, Reached(fn, n, obj),
           NEW slot \in Slots, Sets(fn, n, slot), NEW p \in [Slots -> Addr \cup {Null}],
           \A s \in Slots : s # slot => p[s] = obj[s],
           slot \in {"output", "log"} \/ p[slot] # Null
    PROVE  Grows(fn, n, obj, slot, p)
<1> USE DEF Grows, Reached, Mine, Belongs, Slots, TextSlots, Transient
<1>1. CASE fn = "parseWat" /\ n = 10 /\ slot = "filename"
  BY <1>1
<1>2. CASE fn = "parseWat" /\ n = 9 /\ slot = "buffer"
  BY <1>2
<1>3. CASE fn = "parseWat" /\ n = 8 /\ slot = "lexer"
  BY <1>3
<1>4. CASE fn = "parseWat" /\ n = 7 /\ slot = "errors"
  BY <1>4
<1>5. CASE fn = "parseWat" /\ n = 6 /\ slot = "features"
  BY <1>5
<1>6. CASE fn = "parseWat" /\ n = 5 /\ slot = "result"
  BY <1>6
<1>7. CASE fn = "readWasm" /\ n = 10 /\ slot = "buffer"
  BY <1>7
<1>8. CASE fn = "readWasm" /\ n = 9 /\ slot = "errors"
  BY <1>8
<1>9. CASE fn = "readWasm" /\ n = 7 /\ slot = "features"
  BY <1>9
<1>10. CASE fn = "readWasm" /\ n = 6 /\ slot = "result"
  BY <1>10
<1>11. CASE fn = "validate" /\ n = 3 /\ slot = "features"
  BY <1>11
<1>12. CASE fn = "toText" /\ n = 5 /\ slot = "result"
  BY <1>12
<1>13. CASE fn = "toBinary" /\ n = 7 /\ slot = "result"
  BY <1>13
<1>14. CASE fn = "toText" /\ n = 4 /\ slot = "output"
  BY <1>14
<1>15. CASE fn = "toBinary" /\ n = 6 /\ slot = "output"
  BY <1>15
<1>16. CASE fn = "toBinary" /\ n = 5 /\ slot = "log"
  BY <1>16
<1> QED BY <1>1, <1>2, <1>3, <1>4, <1>5, <1>6, <1>7, <1>8, <1>9, <1>10, <1>11, <1>12, <1>13, <1>14, <1>15, <1>16 DEF Sets

\* The call goes on with the variables as they are.
Moves(fn, n, k) ==
    \/ fn = "readWasm" /\ n = 8 /\ k = 7
    \/ fn = "toText" /\ n = 6 /\ k = 5
    \/ fn = "toBinary" /\ n = 8 /\ k = 7
    \/ fn = "validate" /\ n = 2 /\ k = 1
    \/ fn = "resolveNames" /\ n = 1 /\ k = 0
    \/ fn = "generateNames" /\ n = 1 /\ k = 0
    \/ fn = "applyNames" /\ n = 1 /\ k = 0
    \/ fn = "toText" /\ n = 3 /\ k = 2
    \/ fn = "toBinary" /\ n = 4 /\ k = 3
    \/ fn = "parseWat" /\ n = 4 /\ k = 3
    \/ fn = "readWasm" /\ n = 5 /\ k = 4
    \/ fn = "toText" /\ n = 4 /\ k = 2
    \/ fn = "toBinary" /\ n = 6 /\ k = 3
    \/ fn = "toBinary" /\ n = 5 /\ k = 3

\* A step that sets and destroys nothing leaves it with what it had.
LEMMA MineMoves ==
    ASSUME NEW obj \in [Slots -> Addr \cup {Null}], NEW fn, NEW n, Reached(fn, n, obj),
           NEW k, Moves(fn, n, k)
    PROVE  Mine(fn, k, obj) = Mine(fn, n, obj) /\ Reached(fn, k, obj)
<1> USE DEF Reached, Mine, Belongs, Slots, TextSlots, Transient
<1>1. CASE fn = "readWasm" /\ n = 8 /\ k = 7
  BY <1>1
<1>2. CASE fn = "toText" /\ n = 6 /\ k = 5
  BY <1>2
<1>3. CASE fn = "toBinary" /\ n = 8 /\ k = 7
  BY <1>3
<1>4. CASE fn = "validate" /\ n = 2 /\ k = 1
  BY <1>4
<1>5. CASE fn = "resolveNames" /\ n = 1 /\ k = 0
  BY <1>5
<1>6. CASE fn = "generateNames" /\ n = 1 /\ k = 0
  BY <1>6
<1>7. CASE fn = "applyNames" /\ n = 1 /\ k = 0
  BY <1>7
<1>8. CASE fn = "toText" /\ n = 3 /\ k = 2
  BY <1>8
<1>9. CASE fn = "toBinary" /\ n = 4 /\ k = 3
  BY <1>9
<1>10. CASE fn = "parseWat" /\ n = 4 /\ k = 3
  BY <1>10
<1>11. CASE fn = "readWasm" /\ n = 5 /\ k = 4
  BY <1>11
<1>12. CASE fn = "toText" /\ n = 4 /\ k = 2
  BY <1>12
<1>13. CASE fn = "toBinary" /\ n = 6 /\ k = 3
  BY <1>13
<1>14. CASE fn = "toBinary" /\ n = 5 /\ k = 3
  BY <1>14
<1> QED BY <1>1, <1>2, <1>3, <1>4, <1>5, <1>6, <1>7, <1>8, <1>9, <1>10, <1>11, <1>12, <1>13, <1>14 DEF Moves

\* What these variables lead to is destroyed, and the call is one step further.
Shrinks(fn, n, obj, S) ==
    /\ {s \in S : obj[s] # Null} \subseteq Mine(fn, n, obj)
    /\ Mine(fn, n - 1, obj) = Mine(fn, n, obj) \ {s \in S : obj[s] # Null}
    /\ Reached(fn, n - 1, obj)
    /\ "lexer" \in Mine(fn, n - 1, obj) => obj["buffer"] = Null \/ "buffer" \notin S

TextOf(obj) ==
    IF obj["errors"] = Null THEN {}
    ELSE {"errors"} \cup IF obj["lexer"] = Null THEN {} ELSE {"lexer", "buffer", "filename"}

Drops(fn, n, obj, S) ==
    \/ fn = "parseWat" /\ n = 3 /\ S = {"result"}
    \/ fn = "readWasm" /\ n = 4 /\ S = {"result"}
    \/ fn = "toText" /\ n = 1 /\ S = {"result"}
    \/ fn = "toBinary" /\ n = 1 /\ S = {"result"}
    \/ fn = "parseWat" /\ n = 2 /\ S = {"features"}
    \/ fn = "readWasm" /\ n = 3 /\ S = {"features"}
    \/ fn = "validate" /\ n = 1 /\ S = {"features"}
    \/ fn = "readWasm" /\ n = 1 /\ S = {"buffer"}
    \/ fn = "destroy" /\ n = 2 /\ S = {"module"}
    \/ fn = "toText" /\ n = 2 /\ S = {"output"}
    \/ fn = "toBinary" /\ n = 3 /\ S = {"output"}
    \/ fn = "toBinary" /\ n = 2 /\ S = {"log"}
    \/ fn = "parseWat" /\ n = 1 /\ S = TextOf(obj)
    \/ fn = "readWasm" /\ n = 2 /\ S = TextOf(obj)
    \/ fn = "destroy" /\ n = 1 /\ S = TextOf(obj)

\* A destroyed variable is the call's no more.
LEMMA MineShrinks ==
    ASSUME NEW obj \in [Slots -> Addr \cup {Null}], NEW fn, NEW n, Reached(fn, n, obj),
           NEW S, Drops(fn, n, obj, S)
    PROVE  Shrinks(fn, n, obj, S)
<1> USE DEF Shrinks, Reached, Mine, Belongs, Slots, TextSlots, Transient
<1>1. CASE fn = "parseWat" /\ n = 3 /\ S = {"result"}
  BY <1>1
<1>2. CASE fn = "readWasm" /\ n = 4 /\ S = {"result"}
  BY <1>2
<1>3. CASE fn = "toText" /\ n = 1 /\ S = {"result"}
  BY <1>3
<1>4. CASE fn = "toBinary" /\ n = 1 /\ S = {"result"}
  BY <1>4
<1>5. CASE fn = "parseWat" /\ n = 2 /\ S = {"features"}
  BY <1>5
<1>6. CASE fn = "readWasm" /\ n = 3 /\ S = {"features"}
  BY <1>6
<1>7. CASE fn = "validate" /\ n = 1 /\ S = {"features"}
  BY <1>7
<1>8. CASE fn = "readWasm" /\ n = 1 /\ S = {"buffer"}
  BY <1>8
<1>9. CASE fn = "destroy" /\ n = 2 /\ S = {"module"}
  BY <1>9
<1>10. CASE fn = "toText" /\ n = 2 /\ S = {"output"}
  BY <1>10
<1>11. CASE fn = "toBinary" /\ n = 3 /\ S = {"output"}
  BY <1>11
<1>12. CASE fn = "toBinary" /\ n = 2 /\ S = {"log"}
  BY <1>12
<1>13. CASE fn = "parseWat" /\ n = 1 /\ S = TextOf(obj)
  BY <1>13 DEF TextOf, Shape
<1>14. CASE fn = "readWasm" /\ n = 2 /\ S = TextOf(obj)
  BY <1>14 DEF TextOf, Shape
<1>15. CASE fn = "destroy" /\ n = 1 /\ S = TextOf(obj)
  BY <1>15 DEF TextOf, Shape
<1> QED BY <1>1, <1>2, <1>3, <1>4, <1>5, <1>6, <1>7, <1>8, <1>9, <1>10, <1>11, <1>12, <1>13, <1>14, <1>15 DEF Drops

\* A reader gives the module its errors, and with them the text.
LEMMA MineWraps ==
    ASSUME NEW obj \in [Slots -> Addr \cup {Null}], NEW fn, NEW n, Reached(fn, n, obj),
           (fn = "parseWat" /\ n = 4) \/ (fn = "readWasm" /\ n = 5),
           NEW p \in [Slots -> Addr \cup {Null}], p["errors"] = Null,
           \A s \in Slots : s # "errors" => p[s] = obj[s]
    PROVE  /\ Mine(fn, n, obj) = {s \in Slots : obj[s] # Null}
           /\ Mine(fn, n - 1, p) = Kept(fn)
           /\ Reached(fn, n - 1, p)
<1> USE DEF Kept, Reached, Mine, Belongs, Slots, TextSlots, Transient
<1>1. CASE fn = "parseWat" /\ n = 4
  BY <1>1
<1>2. CASE fn = "readWasm" /\ n = 5
  BY <1>2
<1> QED BY <1>1, <1>2

-----------------------------------------------------------------------------
(* The step of a call that makes or destroys objects.                      *)

\* No step changes what the program's modules are made of.
Calm == \A a \in HeldBy(modules) : heap'[a] = heap[a]

\* The call under way, and what is known of it.
Going ==
    /\ call = [fn |-> call.fn, todo |-> call.todo, obj |-> call.obj, options |-> call.options,
               input |-> call.input]
    /\ call.fn \in DOMAIN Fn
    /\ Rest(call.fn, call.todo)
    /\ Local(heap, call.fn, Len(call.todo), call.obj)
    /\ call.fn \in Methods => This(call.obj) \in modules
    /\ World(heap, modules, lost, Own(heap, call.fn, Len(call.todo), call.obj))
    /\ ~misused

\* IndInv says Going of a call under way.
LEMMA IsGoing == IndInv /\ call # NoCall => Going
  BY DEF IndInv, CallOK, Going

\* What is known at a step.
LEMMA AtStep ==
    ASSUME IndInv, NEW step, At(step)
    PROVE  /\ Going
           /\ Place(step, call.fn, Len(call.todo))
           /\ Rest(call.fn, Tail(call.todo))
           /\ Len(Tail(call.todo)) = Len(call.todo) - 1 /\ Len(call.todo) \in Nat
<1>1. call # NoCall /\ call.todo # << >> /\ Head(call.todo) = step BY DEF At, NoCall
<1>2. Going BY <1>1, IsGoing
<1>3. call.fn \in DOMAIN Fn /\ Rest(call.fn, call.todo) BY <1>2 DEF Going
<1> QED BY ONLY <1>1, <1>2, <1>3, Where, RestTail

\* The call under way goes on.
LEMMA Went ==
    ASSUME Going, NEW todo, NEW p, call' = [call EXCEPT !.todo = todo, !.obj = p],
           Rest(call.fn, todo), Local(heap', call.fn, Len(todo), p),
           call.fn \in Methods => This(p) \in modules',
           World(heap', modules', lost', Own(heap', call.fn, Len(todo), p)), ~misused'
    PROVE  IndInv'
<1> DEFINE c == call'
<1>1. call = [fn |-> call.fn, todo |-> call.todo, obj |-> call.obj, options |-> call.options,
              input |-> call.input] /\ call.fn \in DOMAIN Fn
  BY DEF Going
<1>2. c = [fn |-> call.fn, todo |-> todo, obj |-> p, options |-> call.options,
           input |-> call.input]
  BY <1>1
<1> HIDE DEF c
<1>3. /\ c = [fn |-> c.fn, todo |-> c.todo, obj |-> c.obj, options |-> c.options,
              input |-> c.input]
      /\ c.fn = call.fn /\ c.todo = todo /\ c.obj = p
  BY ONLY <1>2
<1>4. CallOK(heap', modules', c) BY <1>1, <1>3 DEF CallOK
<1>5. World(heap', modules', lost', Own(heap', c.fn, Len(c.todo), c.obj)) BY <1>3
<1> QED BY ONLY <1>4, <1>5, ~misused' DEF IndInv, c

\* A method's own variables are not part of its module.
LEMMA Unmoved ==
    ASSUME NEW obj \in [Slots -> Addr \cup {Null}], NEW p \in [Slots -> Addr \cup {Null}],
           NEW slot, \A s \in Slots : s # slot => p[s] = obj[s], slot \in Transient
    PROVE  This(p) = This(obj)
  BY DEF This

\* What is given of the variables and of the heap, by name.
LEMMA GoingFacts ==
    ASSUME Going
    PROVE  /\ call.fn \in DOMAIN Fn
           /\ call.obj \in [Slots -> Addr \cup {Null}]
           /\ Reached(call.fn, Len(call.todo), call.obj)
           /\ Bound(heap, call.fn, call.obj, Mine(call.fn, Len(call.todo), call.obj))
           /\ Loaded(heap, call.fn, Len(call.todo), call.obj)
           /\ World(heap, modules, lost,
                    OwnOf(heap, call.obj, Mine(call.fn, Len(call.todo), call.obj)))
           /\ call.fn \in Methods => This(call.obj) \in modules
           /\ ~misused
  BY DEF Going, Local, Own

\* A variable set by a function of the API, to a new object.
Setups == {"filename", "buffer", "lexer", "errors", "features"}

\* A step that makes an object keeps the invariant.
LEMMA AfterNew ==
    ASSUME IndInv, NEW slot \in Setups, At(slot), NEW o, ObjectOK(o), o.kind = KindOf(slot),
           slot = "lexer" => o.uses = {call.obj["buffer"]}, New(slot, o), ~misused'
    PROVE  IndInv' /\ Calm
<1> DEFINE fn == call.fn
           n == Len(call.todo)
           k == Len(Tail(call.todo))
           obj == call.obj
           M == Mine(fn, n, obj)
           p == SetTo(obj, slot, Fresh(heap))
<1>1. /\ Going /\ Place(slot, fn, n) /\ Rest(fn, Tail(call.todo))
      /\ k = n - 1 /\ n \in Nat
  BY AtStep
<1>2. Sets(fn, n, slot) BY ONLY <1>1, slot \in Setups DEF Place, Sets, Setups
<1>3. slot \in Slots /\ slot \notin {"result", "output", "log"} BY DEF Setups, Slots
<1>4. /\ fn \in DOMAIN Fn /\ obj \in [Slots -> Addr \cup {Null}] /\ Reached(fn, n, obj)
      /\ Bound(heap, fn, obj, M) /\ World(heap, modules, lost, OwnOf(heap, obj, M))
      /\ fn \in Methods => This(obj) \in modules
  BY ONLY <1>1, GoingFacts
<1>5. /\ heap' = Alloc(heap, o) /\ HasRoom(heap)
      /\ call' = [call EXCEPT !.todo = Tail(call.todo), !.obj = p]
      /\ UNCHANGED <<modules, lost>>
  BY DEF New, Assign, Go, SetTo
<1>6. /\ slot \notin M /\ "result" \notin M
      /\ slot = "buffer" => "lexer" \notin M
      /\ slot = "lexer" => "buffer" \in M
  <2>1. p \in [Slots -> Addr \cup {Null}] /\ p[slot] # Null
        /\ \A s \in Slots : s # slot => p[s] = obj[s]
    <3>1. Fresh(heap) \in Addr BY <1>5 DEF HasRoom, Fresh
    <3> QED BY <3>1, <1>3, <1>4, Addressed DEF SetTo
  <2> HIDE DEF p
  <2>2. Grows(fn, n, obj, slot, p) BY ONLY <1>2, <1>3, <1>4, <2>1, MineGrows
  <2> QED BY ONLY <1>3, <2>2 DEF Grows
<1>7. p = SetTo(obj, slot, Fresh(heap)) OBVIOUS
<1> HIDE DEF p, M, k, n, fn, obj
<1>8. /\ p \in [Slots -> Addr \cup {Null}] /\ p[slot] # Null
      /\ \A s \in Slots : s # slot => p[s] = obj[s]
      /\ Bound(heap', fn, p, M \cup {slot})
      /\ World(heap', modules, lost, OwnOf(heap', p, M \cup {slot}))
      /\ \A a \in HeldBy(modules) : heap'[a] = heap[a]
  <2>1. slot = "lexer" => "buffer" \in M /\ o.uses = {obj["buffer"]} BY <1>6 DEF obj
  <2>2. slot # "result" BY <1>3
  <2> DEFINE g == heap'
             ms == modules
             l == lost
  <2>3. MayMake(heap, ms, l, fn, obj, M, slot, o)
    BY ONLY <1>3, <1>4, <1>5, <1>6, <2>1, <2>2, ObjectOK(o), o.kind = KindOf(slot) DEF MayMake
  <2>5. Made(heap, obj, slot, o, g, p) BY ONLY <1>4, <1>5, <1>7 DEF Made
  <2> HIDE DEF g, ms, l
  <2>4. Extends(heap, g, ms, l, fn, obj, p, M, slot) BY ONLY <2>3, <2>5, BoundNew
  <2> QED BY ONLY <2>4 DEF Extends, g, ms, l
<1>9. Mine(fn, k, p) = M \cup {slot} /\ Reached(fn, k, p)
  <2>1. Grows(fn, n, obj, slot, p) BY ONLY <1>2, <1>3, <1>4, <1>8, MineGrows
  <2> QED BY ONLY <1>1, <1>8, <2>1 DEF Grows, M
<1>10. Local(heap', fn, k, p)
  <2>1. Loaded(heap', fn, k, p) BY ONLY <1>1, <1>2, slot \in Setups DEF Loaded, Sets, Setups
  <2> QED BY ONLY <1>8, <1>9, <2>1 DEF Local
<1>11. fn \in Methods => This(p) \in modules'
  <2> SUFFICES ASSUME fn \in Methods PROVE This(p) \in modules' OBVIOUS
  <2>1. slot \in Transient BY ONLY <1>2, fn \in Methods, slot \in Setups DEF Sets, Methods, Readers, Setups, Transient
  <2>2. This(p) = This(obj) BY ONLY <1>4, <1>8, <2>1, Unmoved
  <2> QED BY ONLY <2>2, <1>4, <1>5, fn \in Methods
<1>12. World(heap', modules', lost', Own(heap', fn, k, p))
  BY ONLY <1>5, <1>8, <1>9 DEF Own
<1>13. IndInv'
  BY ONLY <1>1, <1>5, <1>10, <1>11, <1>12, ~misused', Went DEF fn, k
<1> QED BY ONLY <1>8, <1>13 DEF Calm

\* A variable that leads nowhere is destroyed by doing nothing.
LEMMA AfterDispose ==
    ASSUME IndInv, NEW step, NEW S \in SUBSET Slots,
           Dispose(step, S), Drops(call.fn, Len(call.todo), call.obj, S)
    PROVE  IndInv' /\ Calm
<1> DEFINE fn == call.fn
           n == Len(call.todo)
           k == Len(Tail(call.todo))
           obj == call.obj
           M == Mine(fn, n, obj)
           D == {s \in S : obj[s] # Null}
           C == OwnOf(heap, obj, M)
           X == OwnOf(heap, obj, D)
<1>1. /\ Going /\ Rest(fn, Tail(call.todo)) /\ k = n - 1 /\ n \in Nat
  BY AtStep DEF Dispose
<1>2. /\ fn \in DOMAIN Fn /\ obj \in [Slots -> Addr \cup {Null}] /\ Reached(fn, n, obj)
      /\ Bound(heap, fn, obj, M) /\ World(heap, modules, lost, C)
      /\ fn \in Methods => This(obj) \in modules
      /\ ~misused
  BY ONLY <1>1, GoingFacts
<1>3. Shrinks(fn, n, obj, S) BY <1>2, MineShrinks
<1>4. /\ D \subseteq M /\ Mine(fn, k, obj) = M \ D /\ Reached(fn, k, obj)
      /\ "lexer" \in M \ D => "buffer" \notin D
  BY ONLY <1>1, <1>3 DEF Shrinks
<1>5. /\ M \subseteq Slots
      /\ \A s \in M : obj[s] \in Addr /\ obj[s] # Null /\ heap[obj[s]].kind = KindOf(s)
  BY ONLY <1>2, BoundFacts
<1>6. Destroyed(S) = X
  <2>1. {obj[s] : s \in S} \ {Null} = {obj[s] : s \in D} OBVIOUS
  <2>2. \A s \in D : s # "result" => heap[obj[s]].owns = {}
    <3> TAKE s \in D
    <3>1. s \in M /\ s \in Slots /\ obj[s] \in Addr /\ heap[obj[s]].kind = KindOf(s) BY <1>4, <1>5
    <3>2. ObjectOK(heap[obj[s]]) BY ONLY <3>1, <1>2 DEF World
    <3>3. s # "result" => KindOf(s) # "result" BY ONLY <3>1, KindOfSlots DEF Slots
    <3> QED BY ONLY <3>1, <3>2, <3>3 DEF ObjectOK
  <2>3. UNION {heap[a].owns : a \in {obj[s] : s \in D}} =
           IF "result" \in D THEN heap[obj["result"]].owns ELSE {}
    BY ONLY <2>2
  <2> QED BY ONLY <2>1, <2>3 DEF Destroyed, OwnOf, obj
<1>7. /\ heap' = [a \in Addr |-> IF a \in X THEN Free ELSE heap[a]]
      /\ misused' = (misused \/ \E s \in S : /\ obj[s] # Null
                                             /\ heap[obj[s]].kind # KindOf(s))
      /\ call' = [call EXCEPT !.todo = Tail(call.todo), !.obj = obj]
      /\ UNCHANGED <<modules, lost>>
  <2>1. /\ heap' = [a \in Addr |-> IF a \in Destroyed(S) THEN Free ELSE heap[a]]
        /\ misused' = (misused \/ \E s \in S : /\ obj[s] # Null
                                               /\ heap[obj[s]].kind # KindOf(s))
        /\ call' = [call EXCEPT !.todo = Tail(call.todo), !.obj = obj]
        /\ UNCHANGED <<modules, lost>>
    BY DEF Dispose, Destroy, Continue, Go
  <2> QED BY ONLY <1>6, <2>1
<1>8. ~misused'
  <2>1. \A s \in S : obj[s] # Null => heap[obj[s]].kind = KindOf(s) BY ONLY <1>4, <1>5
  <2> QED BY ONLY <1>2, <1>7, <2>1
<1> HIDE DEF D, X, M, C
<1>9. /\ Bound(heap', fn, obj, M \ D)
      /\ World(heap', modules, lost, OwnOf(heap', obj, M \ D))
  <2>1. /\ heap' = [a \in Addr |-> IF a \in OwnOf(heap, obj, D) THEN Free ELSE heap[a]]
        /\ World(heap, modules, lost, OwnOf(heap, obj, M))
    BY ONLY <1>2, <1>7 DEF X, C
  <2> HIDE DEF obj, fn
  <2> QED BY ONLY <2>1, <1>2, <1>4, BoundFreed
<1>10. Calm
  <2>1. X \subseteq C BY ONLY <1>2, <1>4, BoundLess DEF X, C
  <2>2. \A a \in HeldBy(modules) : a \in Addr /\ a \notin C BY ONLY <1>2 DEF World, HeldBy
  <2> QED BY ONLY <2>1, <2>2, <1>7 DEF Calm
<1>11. Local(heap', fn, k, obj)
  <2>1. Drops(fn, n, obj, S) OBVIOUS
  <2> HIDE DEF k, n
  <2>2. ~(fn = "parseWat" /\ k = 4) /\ ~(fn = "readWasm" /\ k = 5)
    BY ONLY <1>1, <2>1 DEF Drops
  <2>3. Loaded(heap', fn, k, obj) BY ONLY <2>2 DEF Loaded
  <2> QED BY ONLY <1>2, <1>4, <1>9, <2>3 DEF Local
<1>12. fn \in Methods => This(obj) \in modules' BY ONLY <1>2, <1>7
<1>13. World(heap', modules', lost', Own(heap', fn, k, obj))
  BY ONLY <1>4, <1>7, <1>9 DEF Own
<1> HIDE DEF k, obj, fn
<1>14. IndInv'
  BY ONLY <1>1, <1>7, <1>8, <1>11, <1>12, <1>13, Went DEF fn, k
<1> QED BY <1>10, <1>14

-----------------------------------------------------------------------------
(* A call that goes on, throws or ends.                                    *)

\* The call goes on without touching the heap, with the variables as they are.
LEMMA AfterMove ==
    ASSUME IndInv, Going, NEW todo, Rest(call.fn, todo),
           Moves(call.fn, Len(call.todo), Len(todo)),
           call' = [call EXCEPT !.todo = todo, !.obj = call.obj],
           UNCHANGED <<heap, modules, lost>>, ~misused'
    PROVE  IndInv' /\ Calm
<1> DEFINE fn == call.fn
           n == Len(call.todo)
           k == Len(todo)
           obj == call.obj
           M == Mine(fn, n, obj)
<1>1. /\ fn \in DOMAIN Fn /\ obj \in [Slots -> Addr \cup {Null}] /\ Reached(fn, n, obj)
      /\ Bound(heap, fn, obj, M) /\ World(heap, modules, lost, OwnOf(heap, obj, M))
      /\ fn \in Methods => This(obj) \in modules
  BY GoingFacts
<1>2. Mine(fn, k, obj) = M /\ Reached(fn, k, obj) BY ONLY <1>1, Moves(fn, n, k), MineMoves
<1>3. heap' = heap /\ modules' = modules /\ lost' = lost OBVIOUS
<1>4. ~(fn = "parseWat" /\ k = 4) /\ ~(fn = "readWasm" /\ k = 5)
  <2>1. Moves(fn, n, k) OBVIOUS
  <2> HIDE DEF fn, n, k
  <2> QED BY ONLY <2>1 DEF Moves
<1>5. Local(heap', fn, k, obj) BY ONLY <1>1, <1>2, <1>3, <1>4 DEF Local, Loaded
<1>6. World(heap', modules', lost', Own(heap', fn, k, obj)) BY ONLY <1>1, <1>2, <1>3 DEF Own
<1>7. fn \in Methods => This(obj) \in modules' BY ONLY <1>1, <1>3
<1> HIDE DEF fn, k, obj
<1>8. IndInv'
  BY ONLY Going, Rest(call.fn, todo), call' = [call EXCEPT !.todo = todo, !.obj = call.obj],
          <1>5, <1>6, <1>7, ~misused', Went DEF fn, k, obj
<1> QED BY <1>3, <1>8 DEF Calm

\* The steps of a try block that may throw, with those of its finally block; and
\* those before a try block.
InTryAt(fn, n, k) ==
    \/ fn = "parseWat" /\ n = 4 /\ k = 3
    \/ fn = "readWasm" /\ n = 5 /\ k = 4
    \/ fn = "validate" /\ n = 2 /\ k = 1
    \/ fn = "toText" /\ n = 4 /\ k = 2
    \/ fn = "toBinary" /\ n \in {5, 6} /\ k = 3

InSetupAt(fn, n) ==
    \/ fn = "parseWat" /\ n \in {9, 10}
    \/ fn = "readWasm" /\ n \in {8, 10}
    \/ fn \in {"resolveNames", "generateNames", "applyNames"} /\ n = 1
    \/ fn = "toText" /\ n = 6
    \/ fn = "toBinary" /\ n = 8

\* From where in its try block a function goes where in its finally block.
LEMMA Caught ==
    ASSUME NEW fn, NEW n, NEW k, InTryAt(fn, n, k)
    PROVE  /\ Rest(fn, Fn[fn].cleanup) /\ Len(Fn[fn].cleanup) = k
           /\ Moves(fn, n, k)
           /\ n <= Len(Fn[fn].body \o Fn[fn].cleanup)
<1>1. Moves(fn, n, k) BY DEF InTryAt, Moves
<1>2. CASE fn = "parseWat"
  <2>1. n = 4 /\ k = 3 BY <1>2 DEF InTryAt
  <2> QED BY ONLY <1>1, <1>2, <2>1, Steps_parseWat
<1>3. CASE fn = "readWasm"
  <2>1. n = 5 /\ k = 4 BY <1>3 DEF InTryAt
  <2> QED BY ONLY <1>1, <1>3, <2>1, Steps_readWasm
<1>4. CASE fn = "validate"
  <2>1. n = 2 /\ k = 1 BY <1>4 DEF InTryAt
  <2> QED BY ONLY <1>1, <1>4, <2>1, Steps_validate
<1>5. CASE fn = "toText"
  <2>1. n = 4 /\ k = 2 BY <1>5 DEF InTryAt
  <2> QED BY ONLY <1>1, <1>5, <2>1, Steps_toText
<1>6. CASE fn = "toBinary"
  <2>1. n \in {5, 6} /\ k = 3 BY <1>6 DEF InTryAt
  <2> QED BY ONLY <1>1, <1>6, <2>1, Steps_toBinary
<1> QED BY <1>2, <1>3, <1>4, <1>5, <1>6 DEF InTryAt

\* Where it has not reached its try block.
LEMMA Uncaught ==
    ASSUME NEW fn, NEW n, InSetupAt(fn, n)
    PROVE  ~(n <= Len(Fn[fn].body \o Fn[fn].cleanup))
<1>1. CASE fn = "parseWat" BY <1>1, Steps_parseWat DEF InSetupAt
<1>2. CASE fn = "readWasm" BY <1>2, Steps_readWasm DEF InSetupAt
<1>3. CASE fn = "resolveNames" BY <1>3, Steps_resolveNames DEF InSetupAt
<1>4. CASE fn = "generateNames" BY <1>4, Steps_generateNames DEF InSetupAt
<1>5. CASE fn = "applyNames" BY <1>5, Steps_applyNames DEF InSetupAt
<1>6. CASE fn = "toText" BY <1>6, Steps_toText DEF InSetupAt
<1>7. CASE fn = "toBinary" BY <1>7, Steps_toBinary DEF InSetupAt
<1> QED BY <1>1, <1>2, <1>3, <1>4, <1>5, <1>6, <1>7 DEF InSetupAt

\* A throw in the try block keeps the invariant.
LEMMA AfterCaught ==
    ASSUME IndInv, Going, NEW k, InTryAt(call.fn, Len(call.todo), k), Throw,
           UNCHANGED <<heap, modules>>, ~misused'
    PROVE  IndInv' /\ Calm
<1>1. /\ Rest(call.fn, Fn[call.fn].cleanup) /\ Len(Fn[call.fn].cleanup) = k
      /\ Moves(call.fn, Len(call.todo), k)
      /\ InTry
  BY Caught DEF InTry
<1>2. call' = [call EXCEPT !.todo = Fn[call.fn].cleanup] /\ lost' = lost BY <1>1 DEF Throw
<1>3. call' = [call EXCEPT !.todo = Fn[call.fn].cleanup, !.obj = call.obj]
  <2>1. call = [fn |-> call.fn, todo |-> call.todo, obj |-> call.obj, options |-> call.options,
                input |-> call.input]
    BY DEF Going
  <2> QED BY ONLY <1>2, <2>1
<1> QED BY <1>1, <1>2, <1>3, AfterMove

\* Between two calls.
LEMMA NothingOwned ==
    /\ \A h : Own(h, NoCall.fn, Len(NoCall.todo), NoCall.obj) = {}
    /\ \A h, fn, obj : Own(h, fn, 0, obj) = {}
<1>1. \A fn, n : Mine(fn, n, NoAddresses) = {} BY DEF Mine, NoAddresses
<1>2. \A fn, obj : Mine(fn, 0, obj) = {} BY DEF Mine, Belongs
<1>3. \A h, obj : OwnOf(h, obj, {}) = {} BY DEF OwnOf
<1> QED BY <1>1, <1>2, <1>3 DEF Own, NoCall

\* The end of a call that holds nothing.
LEMMA NowIdle ==
    ASSUME call' = NoCall, World(heap', modules', lost', {}), ~misused'
    PROVE  IndInv'
<1>1. Own(heap', call'.fn, Len(call'.todo), call'.obj) = {} BY NothingOwned
<1> QED BY <1>1 DEF IndInv, CallOK

\* What the program's modules hold.
LEMMA HeldIs ==
    ASSUME NEW C, World(heap, modules, lost, C)
    PROVE  Held = HeldBy(modules) \cup {Null}
<1>1. \A m \in modules : m \in [Slots -> Addr \cup {Null}] BY DEF World, ModuleOK
<1>2. \A m \in modules : DOMAIN m = Slots /\ \A s \in Slots : m[s] \in Addr \cup {Null}
  BY <1>1
<1>3. \A a : a \in Held <=> a = Null \/ \E m \in modules : \E s \in Slots : a = m[s]
  <2>1. \A m \in modules : \A a : a \in Range(m) <=> \E s \in Slots : a = m[s] BY <1>2 DEF Range
  <2>2. \A a : a \in Held <=> a = Null \/ \E m \in modules : a \in Range(m) BY DEF Held
  <2> QED BY <2>1, <2>2
<1>4. \A a : a \in HeldBy(modules) <=> a \in Addr /\ \E m \in modules : \E s \in Slots : m[s] = a
  BY DEF HeldBy, Addresses
<1> QED BY <1>2, <1>3, <1>4

\* A throw before the try block loses what the call has made.
LEMMA AfterUncaught ==
    ASSUME IndInv, Going, InSetupAt(call.fn, Len(call.todo)), Throw,
           UNCHANGED <<heap, modules>>, ~misused'
    PROVE  IndInv' /\ Calm
<1> DEFINE fn == call.fn
           n == Len(call.todo)
           obj == call.obj
           M == Mine(fn, n, obj)
           C == OwnOf(heap, obj, M)
<1>1. /\ fn \in DOMAIN Fn /\ obj \in [Slots -> Addr \cup {Null}] /\ Reached(fn, n, obj)
      /\ Bound(heap, fn, obj, M) /\ World(heap, modules, lost, C)
      /\ fn \in Methods => This(obj) \in modules
  BY GoingFacts
<1>2. ~InTry BY Uncaught DEF InTry
<1>3. call' = NoCall /\ lost' = lost \cup (Range(obj) \ Held) BY <1>2 DEF Throw
<1>4. heap' = heap /\ modules' = modules OBVIOUS
<1>5. Held = HeldBy(modules) \cup {Null} BY <1>1, HeldIs
<1>6. Range(obj) = {obj[s] : s \in Slots} BY <1>1 DEF Range
<1>7. InSetupAt(fn, n) OBVIOUS
<1> HIDE DEF fn, n, obj
<1>8. Range(obj) \ Held = C
  <2>1. CASE fn \in Readers
    <3>1. M = {s \in Slots : obj[s] # Null} /\ "result" \notin M
      <4>1. CASE fn = "parseWat"
        BY ONLY <4>1, <1>1, <1>7 DEF InSetupAt, Reached, Mine, Belongs, Slots, TextSlots, M
      <4>2. CASE fn = "readWasm"
        BY ONLY <4>2, <1>1, <1>7 DEF InSetupAt, Reached, Mine, Belongs, Slots, TextSlots, M
      <4> QED BY <2>1, <4>1, <4>2 DEF Readers
    <3>2. C = {obj[s] : s \in M} BY <3>1 DEF OwnOf
    <3>3. HeldBy(modules) \cap C = {} BY <1>1 DEF World
    <3>4. Null \notin C BY <3>1, <3>2
    <3> HIDE DEF C
    <3>5. {obj[s] : s \in Slots} \ {Null} = C BY ONLY <3>1, <3>2
    <3> QED BY ONLY <3>3, <3>4, <3>5, <1>5, <1>6
  <2>2. CASE fn \notin Readers
    <3>1. /\ fn \in Methods
          /\ fn \in {"toText", "toBinary", "resolveNames", "generateNames", "applyNames"}
      BY <2>2, <1>1, <1>7 DEF InSetupAt, Methods, Readers
    <3>2. M = {} BY ONLY <3>1, <1>1, <1>7 DEF InSetupAt, Reached, Mine, Belongs, Slots, M, Transient
    <3>3. C = {} BY <3>2 DEF OwnOf
    <3>4. \A s \in Transient : obj[s] = Null
      BY ONLY <3>1, <1>1, <1>7 DEF InSetupAt, Reached, Transient
    <3>5. \A s \in Slots : This(obj)[s] = obj[s] BY <3>4 DEF This
    <3>6. \A s \in Slots : obj[s] = Null \/ obj[s] \in HeldBy(modules)
      BY <3>1, <3>5, <1>1 DEF HeldBy, Addresses
    <3> QED BY ONLY <3>3, <3>6, <1>5, <1>6
  <2> QED BY <2>1, <2>2
<1>9. World(heap', modules', lost', {})
  <2>1. World(heap, modules, lost \cup C, {}) BY <1>1, Lost
  <2> QED BY ONLY <2>1, <1>3, <1>4, <1>8
<1> QED BY ONLY <1>3, <1>4, <1>9, ~misused', NowIdle DEF Calm

\* The end of a call keeps the invariant.
LEMMA AfterReturn ==
    ASSUME IndInv, Return
    PROVE  IndInv' /\ Calm
<1>1. call # NoCall /\ call.todo = << >> /\ call' = NoCall
      /\ UNCHANGED <<heap, modules, lost, misused>>
  BY DEF Return, Idle
<1>2. Going BY <1>1, IsGoing
<1>3. Own(heap, call.fn, Len(call.todo), call.obj) = {} BY <1>1, NothingOwned
<1>4. World(heap', modules', lost', {}) /\ ~misused' BY <1>1, <1>2, <1>3 DEF Going
<1> QED BY <1>1, <1>4, NowIdle DEF Calm

-----------------------------------------------------------------------------
(* A call begins.                                                          *)

\* A call of the API begins.
LEMMA AfterBegin ==
    ASSUME IndInv, NEW fn \in DOMAIN Fn, NEW obj, NEW options, NEW input,
           Begin(fn, obj, options, input),
           NEW ms, modules' = ms,
           Local(heap, fn, Len(Program(fn)), obj), fn \in Methods => This(obj) \in ms,
           World(heap, ms, lost, Own(heap, fn, Len(Program(fn)), obj))
    PROVE  IndInv' /\ Calm
<1>1. /\ call' = [fn |-> fn, todo |-> Program(fn), obj |-> obj, options |-> options,
                  input |-> input]
      /\ UNCHANGED <<heap, lost, misused>>
  BY DEF Begin, Program
<1> DEFINE c == call'
<1>2. /\ c = [fn |-> c.fn, todo |-> c.todo, obj |-> c.obj, options |-> c.options,
              input |-> c.input]
      /\ c.fn = fn /\ c.todo = Program(fn) /\ c.obj = obj
  BY ONLY <1>1
<1> HIDE DEF c
<1>3. CallOK(heap', modules', c) BY <1>1, <1>2, RestStart DEF CallOK
<1>4. World(heap', modules', lost', Own(heap', c.fn, Len(c.todo), c.obj)) BY <1>1, <1>2
<1>5. ~misused' BY <1>1 DEF IndInv
<1> QED BY ONLY <1>1, <1>3, <1>4, <1>5 DEF IndInv, Calm, c

\* Between two calls every object is a module's or lost.
LEMMA IdleWorld ==
    ASSUME IndInv, Idle PROVE World(heap, modules, lost, {})
  BY NothingOwned DEF IndInv, Idle

\* Calling a reader keeps the invariant.
LEMMA AfterCallReader ==
    ASSUME IndInv, NEW fn \in Readers, NEW options, NEW input,
           CallReader(fn, options, input)
    PROVE  IndInv' /\ Calm
<1> DEFINE n == Len(Program(fn))
<1>1. /\ Begin(fn, NoAddresses, options, input) /\ modules' = modules
      /\ World(heap, modules, lost, {})
  BY IdleWorld DEF CallReader, Begin
<1>2. fn \in DOMAIN Fn /\ n = 10 /\ fn \notin Methods
  BY Steps_parseWat, Steps_readWasm DEF Readers, Methods
<1>3. Mine(fn, n, NoAddresses) = {} BY DEF Mine, NoAddresses
<1>4. OwnOf(heap, NoAddresses, {}) = {} BY DEF OwnOf
<1>5. Local(heap, fn, n, NoAddresses)
  <2>1. \A s \in Slots : NoAddresses[s] = Null BY DEF NoAddresses
  <2>2. NoAddresses \in [Slots -> Addr \cup {Null}] BY DEF NoAddresses
  <2>3. Bound(heap, fn, NoAddresses, {}) BY DEF Bound, Leads
  <2>4. Reached(fn, n, NoAddresses)
    BY <2>1, <1>2 DEF Reached, Readers, Slots
  <2>5. Loaded(heap, fn, n, NoAddresses) BY <1>2 DEF Loaded
  <2> QED BY ONLY <2>2, <2>3, <2>4, <2>5, <1>3 DEF Local
<1>6. World(heap, modules, lost, Own(heap, fn, n, NoAddresses))
  BY ONLY <1>1, <1>3, <1>4 DEF Own
<1> QED BY ONLY IndInv, <1>1, <1>2, <1>5, <1>6, AfterBegin

\* Calling a method keeps it; destroy takes the module's objects.
LEMMA AfterCallMethod ==
    ASSUME IndInv, NEW fn \in (DOMAIN Fn) \ Readers, NEW this, NEW options,
           CallMethod(fn, this, options)
    PROVE  IndInv' /\ Calm
<1> DEFINE n == Len(Program(fn))
<1>1. /\ Begin(fn, this, options, NoInput) /\ this \in modules
      /\ modules' = IF fn = "destroy" THEN modules \ {this} ELSE modules
      /\ World(heap, modules, lost, {})
  BY IdleWorld DEF CallMethod, Begin
<1>2. ModuleOK(heap, this) BY <1>1 DEF World
<1>3. this \in [Slots -> Addr \cup {Null}] /\ Shape(this) BY <1>2 DEF ModuleOK
<1>4. ~Loaded(heap, fn, n, this) => FALSE BY DEF Loaded, Readers
<1>5. CASE fn # "destroy"
  <2>1. fn \in {"validate", "resolveNames", "generateNames", "applyNames", "toText", "toBinary"}
    BY <1>5, Functions DEF Readers
  <2>2. /\ fn = "validate" => n = 3
        /\ fn \in {"resolveNames", "generateNames", "applyNames"} => n = 1
        /\ fn = "toText" => n = 6
        /\ fn = "toBinary" => n = 8
    BY Steps_validate, Steps_resolveNames, Steps_generateNames, Steps_applyNames,
       Steps_toText, Steps_toBinary
  <2>3. \A s \in Transient : this[s] = Null BY <1>3 DEF Shape
  <2> HIDE DEF n
  <2>4. Reached(fn, n, this) BY ONLY <2>1, <2>2, <2>3 DEF Reached, Transient
  <2>5. Mine(fn, n, this) = {} BY ONLY <2>1, <2>2, <2>3 DEF Mine, Belongs, Transient
  <2>6. Bound(heap, fn, this, {}) BY DEF Bound, Leads
  <2>7. Local(heap, fn, n, this) BY ONLY <2>4, <2>5, <2>6, <1>3, <1>4 DEF Local
  <2>8. This(this) = this BY <1>3, <2>3 DEF This
  <2>9. OwnOf(heap, this, {}) = {} BY DEF OwnOf
  <2>10. World(heap, modules, lost, Own(heap, fn, n, this)) BY ONLY <2>5, <2>9, <1>1 DEF Own
  <2>11. modules' = modules /\ fn \in DOMAIN Fn /\ This(this) \in modules BY <1>1, <1>5, <2>8
  <2> QED BY ONLY IndInv, <1>1, <2>7, <2>10, <2>11, AfterBegin DEF n
<1>6. CASE fn = "destroy"
  <2>1. n = 2 BY <1>6, Steps_destroy
  <2> HIDE DEF n
  <2> DEFINE M == Mine(fn, n, this)
  <2>2. M = {s \in Slots : this[s] # Null}
    BY ONLY <1>3, <1>6, <2>1 DEF Mine, Belongs, Shape, Transient, TextSlots, Slots
  <2>3. Reached(fn, n, this) BY ONLY <1>3, <1>6, <2>1 DEF Reached
  <2> HIDE DEF M
  <2>4. Bound(heap, fn, this, M)
    <3>1. M \subseteq Slots /\ \A s \in M : this[s] \in Addr BY <1>3, <2>2
    <3>2. Leads(heap, this, M) BY <1>2, <2>2 DEF ModuleOK, Leads
    <3>3. "lexer" \in M => "buffer" \in M /\ heap[this["lexer"]].uses = {this["buffer"]}
      BY <1>2, <1>3, <2>2 DEF ModuleOK, Shape, Slots
    <3>4. "result" \notin M BY <1>3, <2>2 DEF Shape, Transient
    <3> QED BY ONLY <3>1, <3>2, <3>3, <3>4 DEF Bound
  <2>5. OwnOf(heap, this, M) = Addresses(this)
    <3>1. "result" \notin M BY <1>3, <2>2 DEF Shape, Transient
    <3>2. OwnOf(heap, this, M) = {this[s] : s \in M} BY <3>1 DEF OwnOf
    <3> QED BY <1>3, <2>2, <3>2, Addressed DEF Addresses
  <2>6. World(heap, modules \ {this}, lost, Addresses(this)) BY <1>1, Taken
  <2>7. Local(heap, fn, n, this) BY ONLY <2>3, <2>4, <1>3, <1>4 DEF Local, M
  <2>8. World(heap, modules \ {this}, lost, Own(heap, fn, n, this))
    BY ONLY <2>5, <2>6 DEF Own, M
  <2>9. modules' = modules \ {this} /\ fn \in DOMAIN Fn /\ fn \notin Methods
    BY <1>1, <1>6 DEF Methods
  <2> QED BY ONLY IndInv, <1>1, <2>7, <2>8, <2>9, AfterBegin DEF n
<1> QED BY <1>5, <1>6

-----------------------------------------------------------------------------
(* What a C function is lent. *)

\* A module's objects point into no object but its own.
LEMMA UsableModule ==
    ASSUME NEW C, World(heap, modules, lost, C), NEW m \in modules, NEW slot \in Slots,
           m[slot] # Null, call.obj[slot] = m[slot]
    PROVE  Usable(slot)
<1>1. /\ ModuleOK(heap, m) /\ m \in [Slots -> Addr \cup {Null}]
      /\ \A a \in Addr : ObjectOK(heap[a])
      /\ \A s \in Slots : m[s] # Null => heap[m[s]].kind = KindOf(s)
  BY DEF World, ModuleOK, Leads
<1>2. \A s \in Slots : m[s] # Null => m[s] \in Live BY <1>1, NotFree, Addressed DEF Live
<1>3. \A s \in Slots : m[s] # Null =>
         heap[m[s]].uses \subseteq {m[t] : t \in {r \in Slots : m[r] # Null}}
  <2> SUFFICES ASSUME NEW s \in Slots, m[s] # Null
               PROVE heap[m[s]].uses \subseteq {m[t] : t \in {r \in Slots : m[r] # Null}}
    OBVIOUS
  <2>1. CASE s = "module"
    <3>1. heap[m["module"]].uses \subseteq {m["lexer"]} \ {Null} BY <1>1 DEF ModuleOK
    <3>2. "lexer" \in Slots BY DEF Slots
    <3> QED BY <2>1, <3>1, <3>2
  <2>2. CASE s = "lexer"
    <3>1. heap[m["lexer"]].uses = {m["buffer"]} /\ m["buffer"] # Null
      BY <1>1, <2>2 DEF ModuleOK, Shape
    <3>2. "buffer" \in Slots BY DEF Slots
    <3> QED BY <2>2, <3>1, <3>2
  <2>3. CASE s # "module" /\ s # "lexer"
    <3>1. KindOf(s) # "module" /\ KindOf(s) # "lexer" BY ONLY <2>3, KindOfSlots, s \in Slots DEF Slots
    <3>2. m[s] \in Addr BY <1>1
    <3>3. heap[m[s]].uses = {} BY <1>1, <3>1, <3>2 DEF ObjectOK
    <3> QED BY <3>3
  <2> QED BY <2>1, <2>2, <2>3
<1>4. \A s \in Slots : m[s] # Null => heap[m[s]].uses \subseteq Live BY <1>2, <1>3
<1> DEFINE a == m[slot]
<1>5. a \in Live /\ heap[a].kind = KindOf(slot) /\ heap[a].uses \subseteq Live BY <1>1, <1>2, <1>4
<1>6. \A b \in heap[a].uses : heap[b].uses \subseteq Live BY <1>3, <1>4
<1>7. Reach(a) \subseteq Live BY ONLY <1>5, <1>6 DEF Reach
<1> QED BY <1>5, <1>7 DEF Usable

\* So do those that a call has made.
LEMMA UsableMine ==
    ASSUME NEW C, World(heap, modules, lost, C), NEW fn, NEW M,
           Bound(heap, fn, call.obj, M), NEW slot \in M, slot # "module"
    PROVE  Usable(slot)
<1> DEFINE obj == call.obj
           a == obj[slot]
<1>1. \A b \in Addr : ObjectOK(heap[b]) BY DEF World
<1>2. /\ M \subseteq Slots
      /\ \A s \in M : obj[s] \in Addr /\ heap[obj[s]].kind = KindOf(s)
  BY BoundFacts
<1>3. \A s \in M : obj[s] \in Live BY <1>2, NotFree DEF Live
<1>4. slot # "lexer" => heap[a].uses = {}
  <2>1. slot # "lexer" => KindOf(slot) # "module" /\ KindOf(slot) # "lexer"
    BY <1>2, KindOfSlots DEF Slots
  <2> QED BY <1>1, <1>2, <2>1 DEF ObjectOK
<1>5. slot = "lexer" => /\ "buffer" \in M /\ heap[a].uses = {obj["buffer"]}
                        /\ heap[obj["buffer"]].uses = {}
  <2> SUFFICES ASSUME slot = "lexer"
               PROVE /\ "buffer" \in M /\ heap[a].uses = {obj["buffer"]}
                     /\ heap[obj["buffer"]].uses = {}
    OBVIOUS
  <2>1. "buffer" \in M /\ heap[a].uses = {obj["buffer"]} BY DEF Bound
  <2>2. heap[obj["buffer"]].kind = "malloc" /\ obj["buffer"] \in Addr BY <1>2, <2>1, KindOfSlots
  <2> QED BY <1>1, <2>1, <2>2 DEF ObjectOK
<1>6. heap[a].uses \subseteq Live /\ \A b \in heap[a].uses : heap[b].uses \subseteq Live
  BY <1>3, <1>4, <1>5
<1>7. Reach(a) \subseteq Live BY ONLY <1>3, <1>6 DEF Reach
<1> QED BY <1>2, <1>3, <1>7 DEF Usable

\* Lending what is usable is no misuse.
LEMMA Lent ==
    ASSUME ~misused, NEW S, \A s \in S : Usable(s), Lend(S)
    PROVE  ~misused'
  BY DEF Lend

-----------------------------------------------------------------------------
(* The C functions that make a result, and what becomes of it.             *)

\* The variable `result' is set to what a C function has returned, in a heap h to
\* which the function has added X.
LEMMA AfterResult ==
    ASSUME IndInv, NEW step, At(step), Sets(call.fn, Len(call.todo), "result"),
           NEW C, C = Own(heap, call.fn, Len(call.todo), call.obj),
           NEW h, NEW X, Fits(h, call.fn, call.obj, X), X \cap C = {}, World(h, modules, lost, C \cup X),
           \A a \in C \cup HeldBy(modules) : h[a] = heap[a], HasRoom(h),
           NEW o, IsResult(o, X), call.fn \in Readers /\ o.content => X # {},
           heap' = Alloc(h, o), Assign("result", Fresh(h)),
           UNCHANGED <<modules, lost>>, ~misused'
    PROVE  IndInv' /\ Calm
<1> DEFINE fn == call.fn
           n == Len(call.todo)
           k == Len(Tail(call.todo))
           obj == call.obj
           M == Mine(fn, n, obj)
           p == SetTo(obj, "result", Fresh(h))
<1>1. /\ Going /\ Rest(fn, Tail(call.todo)) /\ k = n - 1 /\ n \in Nat
  BY AtStep
<1>2. /\ fn \in DOMAIN Fn /\ obj \in [Slots -> Addr \cup {Null}] /\ Reached(fn, n, obj)
      /\ Bound(heap, fn, obj, M)
      /\ fn \in Methods => This(obj) \in modules
  BY ONLY <1>1, GoingFacts
<1>3. call' = [call EXCEPT !.todo = Tail(call.todo), !.obj = p] BY DEF Assign, Go, SetTo
<1>4. Sets(fn, n, "result") /\ C = OwnOf(heap, obj, M) BY DEF Own
<1>5. "result" \in Slots /\ "result" \notin {"output", "log"} BY DEF Slots
<1>6. Bound(h, fn, obj, M) /\ OwnOf(h, obj, M) = C
  <2>1. \A a \in OwnOf(heap, obj, M) : h[a] = heap[a] BY <1>4
  <2> HIDE DEF M, obj, fn
  <2> QED BY ONLY <1>2, <1>4, <2>1, BoundSame
<1>7. "result" \notin M
  <2> HIDE DEF p
  <2>1. Fresh(h) \in Addr /\ Fresh(h) # Null BY Addressed DEF HasRoom, Fresh
  <2>2. /\ p \in [Slots -> Addr \cup {Null}] /\ p["result"] = Fresh(h)
        /\ \A s \in Slots : s # "result" => p[s] = obj[s]
    BY ONLY <1>2, <1>5, <2>1, Set DEF p
  <2>3. p["result"] # Null BY ONLY <2>1, <2>2
  <2> HIDE DEF fn, n, obj
  <2>4. Grows(fn, n, obj, "result", p) BY ONLY <1>2, <1>4, <1>5, <2>2, <2>3, MineGrows
  <2> QED BY ONLY <2>4 DEF Grows, M
<1>8. p = SetTo(obj, "result", Fresh(h)) /\ heap' = Alloc(h, o) OBVIOUS
<1>9. /\ Fits(h, fn, obj, X) /\ X \cap OwnOf(h, obj, M) = {}
      /\ World(h, modules, lost, OwnOf(h, obj, M) \cup X)
  BY <1>6
<1> HIDE DEF p, M, k, n, fn, obj
<1>10. /\ p \in [Slots -> Addr \cup {Null}] /\ p["result"] # Null
       /\ \A s \in Slots : s # "result" => p[s] = obj[s]
       /\ Bound(heap', fn, p, M \cup {"result"})
       /\ World(heap', modules, lost, OwnOf(heap', p, M \cup {"result"}))
       /\ heap'[p["result"]] = o
       /\ \A a \in HeldBy(modules) : heap'[a] = h[a]
  <2> DEFINE g == heap'
             ms == modules
             l == lost
  <2>1. obj \in [Slots -> Addr \cup {Null}] /\ Bound(h, fn, obj, M) BY ONLY <1>2, <1>6
  <2>2. Ready(h, ms, l, fn, obj, M, X) BY ONLY <1>6, <1>7, <1>9, HasRoom(h) DEF Ready
  <2>4. Made(h, obj, "result", o, g, p) BY ONLY <2>1, <1>8 DEF Made
  <2> HIDE DEF g, ms, l
  <2>5. Extends(h, g, ms, l, fn, obj, p, M, "result") /\ g[p["result"]] = o
    BY ONLY <2>2, <2>4, IsResult(o, X), BoundResult
  <2> QED BY ONLY <2>5 DEF Extends, g, ms, l
<1>11. Mine(fn, k, p) = M \cup {"result"} /\ Reached(fn, k, p)
  <2>1. Grows(fn, n, obj, "result", p) BY ONLY <1>2, <1>4, <1>5, <1>10, MineGrows
  <2> QED BY ONLY <1>1, <1>10, <2>1 DEF Grows, M
<1>12. Local(heap', fn, k, p)
  <2>1. fn \in Readers /\ o.content => o.owns # {} BY DEF fn, IsResult
  <2>2. Loaded(heap', fn, k, p) BY ONLY <1>10, <2>1 DEF Loaded, Readers
  <2> QED BY ONLY <1>10, <1>11, <2>2 DEF Local
<1>13. fn \in Methods => This(p) \in modules'
  <2>1. This(p) = This(obj) BY ONLY <1>2, <1>10, Unmoved DEF Transient
  <2> QED BY ONLY <2>1, <1>2, modules' = modules
<1>14. World(heap', modules', lost', Own(heap', fn, k, p))
  BY <1>10, <1>11 DEF Own
<1>15. IndInv'
  BY ONLY <1>1, <1>3, <1>12, <1>13, <1>14, ~misused', Went DEF fn, k
<1>16. Calm BY ONLY <1>10, \A a \in C \cup HeldBy(modules) : h[a] = heap[a] DEF Calm
<1> QED BY <1>15, <1>16

\* wabt_parse_wat and wabt_read_binary keep the invariant.
LEMMA AfterMake ==
    ASSUME IndInv, NEW step, NEW S, NEW uses, NEW always \in BOOLEAN, At(step),
           MakeModule(S, uses, always), \A s \in S : Usable(s),
           \/ call.fn = "parseWat" /\ Len(call.todo) = 5 /\ uses = {call.obj.lexer}
           \/ call.fn = "readWasm" /\ Len(call.todo) = 6 /\ uses = {}
    PROVE  IndInv' /\ Calm
<1> DEFINE fn == call.fn
           obj == call.obj
           C == Own(heap, fn, Len(call.todo), obj)
           a == Fresh(heap)
           o == Object("module", uses, {}, "module")
           made == Alloc(heap, o)
<1>1. Going BY AtStep
<1>2. /\ Sets(fn, Len(call.todo), "result") /\ fn \in Readers
  BY DEF Sets, Readers
<1>3. World(heap, modules, lost, C) /\ ~misused BY <1>1 DEF Going
<1>4. ~misused' BY <1>3, Lent DEF MakeModule
<1>5. UNCHANGED <<modules, lost>> BY DEF MakeModule
<1>6. C \cap {} = {} /\ C \cup {} = C OBVIOUS
<1>7. PICK ok \in BOOLEAN :
         LET new == IF ok \/ always THEN {a} ELSE {}
             after == IF new = {} THEN heap ELSE made
         IN  /\ HasRoom(after)
             /\ heap' = Alloc(after, Object("result", {}, new, ok))
             /\ Assign("result", Fresh(after))
  BY Zenon DEF MakeModule
<1>8. C = Own(heap, call.fn, Len(call.todo), call.obj) OBVIOUS
<1>9. CASE ~(ok \/ always)
  <2>1. HasRoom(heap) /\ heap' = Alloc(heap, Object("result", {}, {}, ok))
        /\ Assign("result", Fresh(heap))
    BY <1>7, <1>9
  <2> DEFINE X == {}
  <2>2. /\ X \cap C = {} /\ World(heap, modules, lost, C \cup X)
        /\ Fits(heap, call.fn, call.obj, X)
    BY <1>3, <1>6 DEF Fits
  <2>3. call.fn \in Readers /\ ok => X # {} BY <1>9
  <2> DEFINE r == Object("result", {}, X, ok)
  <2>4. heap' = Alloc(heap, r) BY <2>1
  <2>5. IsResult(r, X) /\ r.content = ok BY ResultIs
  <2>6. call.fn \in Readers /\ r.content => X # {} BY ONLY <2>3, <2>5
  <2> HIDE DEF C, X, r
  <2> QED BY ONLY IndInv, At(step), <1>2, <1>4, <1>5, <1>8, <2>1, <2>2, <2>4, <2>5, <2>6, AfterResult
<1>10. CASE ok \/ always
  <2> DEFINE X == {a}
  <2>1. HasRoom(made) /\ heap' = Alloc(made, Object("result", {}, X, ok))
        /\ Assign("result", Fresh(made))
    BY <1>7, <1>10
  <2>2. ObjectOK(o) /\ o.kind # "free" /\ o.kind = "module" /\ o.uses = uses
        /\ o.content = "module"
    BY DEF Object, ObjectOK
  <2>3. HasRoom(heap)
    <3> SUFFICES ASSUME ~HasRoom(heap) PROVE HasRoom(heap) OBVIOUS
    <3>1. heap = [b \in Addr |-> heap[b]] BY <1>3 DEF World
    <3>2. \A b \in Addr : heap[b].kind # "free" BY DEF HasRoom
    <3>3. \A b \in Addr : made[b] = heap[b] \/ made[b] = o BY <3>1 DEF Alloc
    <3>4. \A b \in Addr : made[b].kind # "free" BY <2>2, <3>2, <3>3
    <3> QED BY <2>1, <3>4 DEF HasRoom
  <2>4. a = Fresh(heap) /\ made = Alloc(heap, o) OBVIOUS
  <2> HIDE DEF a, o, made, C
  <2>5. /\ a \in Addr /\ a # Null
        /\ a \notin HeldBy(modules) /\ a \notin lost /\ a \notin C
        /\ made[a] = o /\ \A b \in Addr : b # a => made[b] = heap[b]
        /\ World(made, modules, lost, C \cup {a})
    BY ONLY <1>3, <2>2, <2>3, <2>4, Allocated
  <2>6. X \subseteq Addr /\ X \cap C = {} /\ World(made, modules, lost, C \cup X)
    BY <2>5
  <2>7. \A b \in C \cup HeldBy(modules) : made[b] = heap[b]
    <3>1. \A b \in C \cup HeldBy(modules) : b \in Addr /\ b # a
      BY ONLY <1>3, <2>5 DEF World, HeldBy, LiveIn
    <3> QED BY ONLY <2>5, <3>1
  <2>8. \A b \in X : /\ made[b].content \in Contents(call.fn)
                     /\ made[b].kind = KindOf(made[b].content)
                     /\ call.fn = "parseWat" => made[b].uses = {call.obj["lexer"]}
                     /\ call.fn = "readWasm" => made[b].uses = {}
    BY <1>2, <2>2, <2>5, KindOfSlots DEF Contents
  <2>9. \A b, c \in X : made[b].content = made[c].content => b = c OBVIOUS
  <2>10. X # {} OBVIOUS
  <2>11. Fits(made, call.fn, call.obj, X) BY ONLY <2>6, <2>8, <2>9 DEF Fits
  <2> DEFINE r == Object("result", {}, X, ok)
  <2>12. heap' = Alloc(made, r) BY <2>1
  <2>13. IsResult(r, X) BY ResultIs
  <2>14. call.fn \in Readers /\ r.content => X # {} BY ONLY <2>10
  <2> HIDE DEF X, r
  <2> QED BY ONLY IndInv, At(step), <1>2, <1>4, <1>5, <1>8, <2>1, <2>6, <2>7, <2>11, <2>12,
                  <2>13, <2>14, AfterResult
<1> QED BY <1>9, <1>10

\* A heap with room left had room before.
LEMMA HadRoom ==
    ASSUME NEW ms, NEW l, NEW C, NEW h, World(h, ms, l, C), NEW o, o.kind # "free",
           HasRoom(Alloc(h, o))
    PROVE  HasRoom(h)
<1> DEFINE g == Alloc(h, o)
<1> SUFFICES ASSUME ~HasRoom(h) PROVE HasRoom(h) OBVIOUS
<1>1. h = [b \in Addr |-> h[b]] BY DEF World
<1>2. \A b \in Addr : h[b].kind # "free" BY DEF HasRoom
<1>3. \A b \in Addr : g[b] = h[b] \/ g[b] = o BY <1>1 DEF Alloc
<1> HIDE DEF g
<1>4. \A b \in Addr : g[b].kind # "free" BY <1>2, <1>3
<1>5. ~HasRoom(g) BY <1>4 DEF HasRoom
<1> QED BY <1>5 DEF g

\* The module that a method was called on is usable.
LEMMA UsableThis ==
    ASSUME Going, call.fn \in Methods
    PROVE  /\ Usable("module") /\ Usable("errors")
           /\ call.obj["lexer"] # Null => Usable("lexer")
<1> DEFINE m == This(call.obj)
           C == Own(heap, call.fn, Len(call.todo), call.obj)
<1>1. m \in modules /\ World(heap, modules, lost, C) BY DEF Going
<1>2. Shape(m) BY <1>1 DEF World, ModuleOK
<1>3. \A s \in Slots \ Transient : m[s] = call.obj[s] BY DEF This
<1>4. {"module", "errors", "lexer"} \subseteq Slots \ Transient BY DEF Slots, Transient
<1>5. m["module"] # Null /\ m["errors"] # Null BY <1>2 DEF Shape
<1>6. m["lexer"] = call.obj["lexer"] /\ call.obj["module"] = m["module"]
      /\ call.obj["errors"] = m["errors"]
  BY <1>3, <1>4
<1> HIDE DEF m, C
<1>7. Usable("module") BY ONLY <1>1, <1>4, <1>5, <1>6, UsableModule
<1>8. Usable("errors") BY ONLY <1>1, <1>4, <1>5, <1>6, UsableModule
<1>9. call.obj["lexer"] # Null => Usable("lexer") BY ONLY <1>1, <1>4, <1>6, UsableModule
<1> QED BY <1>7, <1>8, <1>9

\* An output buffer has been made, for a result that is to own it.
Buffered(h, g, C, X, a, content) ==
    /\ World(g, modules, lost, C \cup X \cup {a})
    /\ a \in Addr /\ a \notin C /\ a \notin X
    /\ g[a].content = content /\ g[a].kind = "OutputBuffer"
    /\ \A b \in C \cup HeldBy(modules) \cup X : g[b] = h[b]

\* A new output buffer.
LEMMA MadeBuffer ==
    ASSUME NEW h, NEW C, NEW X, C \subseteq Addr, X \subseteq Addr,
           World(h, modules, lost, C \cup X), HasRoom(h), NEW content,
           NEW o, o = Object("OutputBuffer", {}, {}, content), NEW g, g = Alloc(h, o)
    PROVE  Buffered(h, g, C, X, Fresh(h), content)
<1> DEFINE a == Fresh(h)
           E == C \cup X
<1>1. ObjectOK(o) /\ o.kind # "free" /\ o.kind = "OutputBuffer" /\ o.content = content
  BY DEF Object, ObjectOK
<1>2. a = Fresh(h) /\ World(h, modules, lost, E) OBVIOUS
<1> HIDE DEF a, E
<1>3. /\ a \in Addr /\ a \notin E /\ a \notin HeldBy(modules)
      /\ g[a] = o /\ \A b \in Addr : b # a => g[b] = h[b]
      /\ World(g, modules, lost, E \cup {a})
  BY ONLY <1>1, <1>2, HasRoom(h), g = Alloc(h, o), Allocated
<1>4. HeldBy(modules) \subseteq Addr BY DEF HeldBy
<1>5. \A b \in C \cup HeldBy(modules) \cup X : b \in Addr /\ b # a BY <1>3, <1>4 DEF E
<1> QED BY <1>1, <1>3, <1>5 DEF Buffered, E, a

\* wabt_write_text_module and wabt_write_binary_module keep the invariant.
LEMMA AfterWrite ==
    ASSUME IndInv, WriteModule
    PROVE  IndInv' /\ Calm
<1> DEFINE fn == call.fn
           n == Len(call.todo)
           C == Own(heap, fn, n, call.obj)
           a == Fresh(heap)
           logs == call.fn = "toBinary" /\ call.options.log
           one == Object("OutputBuffer", {}, {}, "output")
           two == Object("OutputBuffer", {}, {}, "log")
           written == Alloc(heap, one)
           b == Fresh(written)
           logged == Alloc(written, two)
<1>1. Going /\ Place("write", fn, n) /\ At("write") BY AtStep DEF WriteModule
<1>2. (fn = "toText" /\ n = 5) \/ (fn = "toBinary" /\ n = 7) BY <1>1 DEF Place
<1>3. Sets(fn, n, "result") /\ fn \notin Readers /\ fn \in Methods
  BY <1>2 DEF Sets, Readers, Methods, Fn
<1>4. World(heap, modules, lost, C) /\ ~misused /\ C \subseteq Addr
  <2>1. World(heap, modules, lost, C) /\ ~misused BY <1>1 DEF Going
  <2>2. C \subseteq Addr BY <1>1, GoingFacts, BoundFacts DEF Own
  <2> QED BY <2>1, <2>2
<1>5. ~misused'
  <2>1. Lend({"module"}) BY DEF WriteModule
  <2>2. \A s \in {"module"} : Usable(s) BY <1>1, <1>3, UsableThis
  <2> QED BY <1>4, <2>1, <2>2, Lent
<1>6. UNCHANGED <<modules, lost>> BY DEF WriteModule
<1>7. PICK ok \in BOOLEAN :
         LET after == IF ~ok THEN heap ELSE IF logs THEN logged ELSE written
             buffers == IF ~ok THEN {} ELSE IF logs THEN {a, b} ELSE {a}
         IN  /\ HasRoom(after)
             /\ heap' = Alloc(after, Object("result", {}, buffers, ok))
             /\ Assign("result", Fresh(after))
  BY Zenon DEF WriteModule
<1>8. /\ one.kind # "free" /\ two.kind # "free" BY DEF Object
<1>9. Contents(fn) = {"output", "log"} BY <1>3 DEF Contents
<1>10. KindOf("output") = "OutputBuffer" /\ KindOf("log") = "OutputBuffer" BY KindOfSlots
<1>11. fn # "parseWat" /\ fn # "readWasm" BY <1>2
<1>12. \A o : ~(call.fn \in Readers /\ o.content) BY <1>3
<1>13. C = Own(heap, call.fn, Len(call.todo), call.obj) OBVIOUS
<1>14. CASE ~ok
  <2> DEFINE X == {}
             r == Object("result", {}, X, ok)
  <2>1. HasRoom(heap) /\ heap' = Alloc(heap, r) /\ Assign("result", Fresh(heap))
    BY <1>7, <1>14
  <2>2. /\ X \cap C = {} /\ World(heap, modules, lost, C \cup X)
        /\ Fits(heap, call.fn, call.obj, X)
        /\ \A c \in C \cup HeldBy(modules) : heap[c] = heap[c]
    <3>1. C \cup {} = C OBVIOUS
    <3> QED BY <1>4, <3>1 DEF Fits
  <2>3. IsResult(r, X) BY ResultIs
  <2>4. call.fn \in Readers /\ r.content => X # {} BY <1>12
  <2> HIDE DEF C, X, r
  <2> QED BY ONLY IndInv, <1>1, <1>3, <1>5, <1>6, <1>13, <2>1, <2>2, <2>3, <2>4, AfterResult
             DEF fn, n
<1>15. CASE ok /\ ~logs
  <2> DEFINE X == {a}
             r == Object("result", {}, X, ok)
  <2>1. HasRoom(written) /\ heap' = Alloc(written, r) /\ Assign("result", Fresh(written))
    BY <1>7, <1>15
  <2>2. HasRoom(heap) BY <1>4, <1>8, <2>1, HadRoom
  <2>3. Buffered(heap, written, C, {}, a, "output")
    <3>1. C \cup {} = C OBVIOUS
    <3>2. World(heap, modules, lost, C \cup {}) BY <1>4, <3>1
    <3> QED BY <1>4, <2>2, <3>2, MadeBuffer
  <2> HIDE DEF a, one, written, C, n
  <2>4. /\ X \cap C = {} /\ X \subseteq Addr
        /\ \A c \in C \cup HeldBy(modules) : written[c] = heap[c]
    BY <2>3 DEF Buffered
  <2>5. World(written, modules, lost, C \cup X)
    <3>1. C \cup {} \cup {a} = C \cup X OBVIOUS
    <3> QED BY <2>3, <3>1 DEF Buffered
  <2>6. Fits(written, call.fn, call.obj, X)
    BY <1>9, <1>10, <1>11, <2>3, <2>4 DEF Buffered, Fits
  <2>7. IsResult(r, X) BY ResultIs
  <2>8. call.fn \in Readers /\ r.content => X # {} BY <1>12
  <2> HIDE DEF X, r
  <2> QED BY ONLY IndInv, <1>1, <1>3, <1>5, <1>6, <1>13, <2>1, <2>4, <2>5, <2>6, <2>7, <2>8,
                  AfterResult DEF fn, n
<1>16. CASE ok /\ logs
  <2> DEFINE X == {a, b}
             r == Object("result", {}, X, ok)
  <2>1. HasRoom(logged) /\ heap' = Alloc(logged, r) /\ Assign("result", Fresh(logged))
    BY <1>7, <1>16
  <2>2. HasRoom(heap) /\ HasRoom(written) /\ Buffered(heap, written, C, {}, a, "output")
    <3>1. HasRoom(heap) => Buffered(heap, written, C, {}, a, "output")
      <4>1. C \cup {} = C OBVIOUS
      <4>2. World(heap, modules, lost, C \cup {}) BY <1>4, <4>1
      <4> QED BY <1>4, <4>2, MadeBuffer
    <3>2. HasRoom(heap)
      <4>1. CASE HasRoom(written) BY <1>4, <1>8, <4>1, HadRoom
      <4>2. CASE ~HasRoom(heap) /\ ~HasRoom(written)
        <5>1. \A c \in Addr : written[c].kind # "free" BY <4>2 DEF HasRoom
        <5>2. DOMAIN written = Addr
          <6>1. heap = [c \in Addr |-> heap[c]] BY <1>4 DEF World
          <6> QED BY <6>1 DEF Alloc
        <5>3. \A c \in Addr : logged[c] = written[c] \/ logged[c] = two
          <6> HIDE DEF two, written
          <6> QED BY <5>2 DEF Alloc
        <5> HIDE DEF logged, written, two
        <5>4. \A c \in Addr : logged[c].kind # "free" BY <1>8, <5>1, <5>3
        <5> QED BY <2>1, <5>4 DEF HasRoom
      <4> QED BY <4>1, <4>2
    <3>3. World(written, modules, lost, C \cup {} \cup {a}) BY <3>1, <3>2 DEF Buffered
    <3>4. HasRoom(written) BY <1>8, <2>1, <3>3, HadRoom
    <3> QED BY <3>1, <3>2, <3>4
  <2>3. Buffered(written, logged, C, {a}, b, "log")
    <3>1. C \cup {} \cup {a} = C \cup {a} OBVIOUS
    <3>2. World(written, modules, lost, C \cup {a}) /\ {a} \subseteq Addr
      BY <2>2, <3>1 DEF Buffered
    <3> HIDE DEF a, written, C
    <3> QED BY <1>4, <2>2, <3>2, MadeBuffer
  <2> HIDE DEF a, b, one, two, written, logged, C, n
  <2>4. /\ X \cap C = {} /\ X \subseteq Addr
        /\ \A c \in C \cup HeldBy(modules) : logged[c] = heap[c]
    BY <2>2, <2>3 DEF Buffered
  <2>5. World(logged, modules, lost, C \cup X)
    <3>1. C \cup {a} \cup {b} = C \cup X OBVIOUS
    <3> QED BY <2>3, <3>1 DEF Buffered
  <2>6. /\ logged[a].content = "output" /\ logged[a].kind = "OutputBuffer"
        /\ logged[b].content = "log" /\ logged[b].kind = "OutputBuffer"
    BY <2>2, <2>3 DEF Buffered
  <2>7. Fits(logged, call.fn, call.obj, X)
    BY <1>9, <1>10, <1>11, <2>4, <2>6 DEF Fits
  <2>8. IsResult(r, X) BY ResultIs
  <2>9. call.fn \in Readers /\ r.content => X # {} BY <1>12
  <2> HIDE DEF X, r
  <2> QED BY ONLY IndInv, <1>1, <1>3, <1>5, <1>6, <1>13, <2>1, <2>4, <2>5, <2>7, <2>8, <2>9,
                  AfterResult DEF fn, n
<1> QED BY <1>14, <1>15, <1>16

\* Taking over an output buffer keeps it, or throws.
LEMMA AfterTake ==
    ASSUME IndInv, NEW slot \in {"output", "log"}, TakeOutput(slot)
    PROVE  IndInv' /\ Calm
<1> DEFINE fn == call.fn
           n == Len(call.todo)
           k == Len(Tail(call.todo))
           obj == call.obj
           M == Mine(fn, n, obj)
           X == Owned(slot)
           p == SetTo(obj, slot, OwnedAddress(slot))
<1>1. /\ Going /\ Place(slot, fn, n) /\ Rest(fn, Tail(call.todo)) /\ k = n - 1 /\ n \in Nat
      /\ At(slot)
  BY AtStep DEF TakeOutput
<1>2. /\ slot = "output" => (fn = "toText" /\ n = 4) \/ (fn = "toBinary" /\ n = 6)
      /\ slot = "log" => fn = "toBinary" /\ n = 5
  BY <1>1 DEF Place
<1>3. Sets(fn, n, slot) BY <1>2 DEF Sets
<1>4. /\ fn \in DOMAIN Fn /\ obj \in [Slots -> Addr \cup {Null}] /\ Reached(fn, n, obj)
      /\ Bound(heap, fn, obj, M) /\ World(heap, modules, lost, OwnOf(heap, obj, M))
      /\ fn \in Methods => This(obj) \in modules
      /\ ~misused
  BY ONLY <1>1, GoingFacts
<1>5. ~misused' /\ modules' = modules BY <1>4 DEF TakeOutput
<1>6. CASE ~Ok
  <2>1. Throw /\ UNCHANGED <<heap, modules>> BY <1>6 DEF TakeOutput
  <2>2. InTryAt(fn, n, IF fn = "toText" THEN 2 ELSE 3) BY <1>2 DEF InTryAt
  <2> QED BY ONLY IndInv, <1>1, <1>5, <2>1, <2>2, AfterCaught
<1>7. CASE Ok
  <2>1. /\ heap' = RidOf(heap, obj["result"], X)
        /\ call' = [call EXCEPT !.todo = Tail(call.todo), !.obj = p]
        /\ lost' = lost
    BY <1>7 DEF TakeOutput, Release, RidOf, Assign, Go, SetTo
  <2>2. slot \in Slots /\ slot # "result" /\ slot # "lexer" /\ slot \in Transient
        /\ fn \notin Readers
    BY <1>2 DEF Slots, Transient, Readers
  <2>3. slot \notin M /\ "result" \in M
    <3> DEFINE q == SetTo(obj, slot, Null)
    <3>1. q \in [Slots -> Addr \cup {Null}] /\ \A s \in Slots : s # slot => q[s] = obj[s]
      BY <1>4, <2>2, Set
    <3> HIDE DEF q, n, fn, obj
    <3>2. Grows(fn, n, obj, slot, q) BY ONLY <1>3, <1>4, <2>2, <3>1, slot \in {"output", "log"}, MineGrows
    <3> QED BY ONLY <3>2, slot \in {"output", "log"} DEF Grows, M
  <2> DEFINE A == OwnedAddress(slot)
             N == Including(M, p, slot)
             g == heap'
  <2>4. /\ X = {a \in heap[obj["result"]].owns : heap[a].content = slot}
        /\ A = IF X = {} THEN Null ELSE CHOOSE a \in X : TRUE
        /\ p = SetTo(obj, slot, A)
    BY DEF Owned, OwnedAddress
  <2> HIDE DEF fn, n, k, obj, M, X, A, p
  <2>5. Takes(heap, obj, slot, X, A, g, p) BY ONLY <2>1, <2>4 DEF Takes
  <2> HIDE DEF g
  <2>6. /\ p \in [Slots -> Addr \cup {Null}]
        /\ \A s \in Slots : s # slot => p[s] = obj[s]
        /\ \A a \in HeldBy(modules) : g[a] = heap[a]
        /\ World(g, modules, lost, OwnOf(g, p, N))
        /\ Bound(g, fn, p, N)
    BY ONLY <1>4, <2>2, <2>3, <2>5, BoundTaken
  <2>7. Mine(fn, k, p) = N /\ Reached(fn, k, p)
    <3>1. Grows(fn, n, obj, slot, p)
      BY ONLY <1>3, <1>4, <2>2, <2>6, slot \in {"output", "log"}, MineGrows
    <3> QED BY ONLY <1>1, <3>1 DEF Grows, M, Including
  <2>8. Local(g, fn, k, p)
    <3>1. Loaded(g, fn, k, p) BY ONLY <2>2 DEF Loaded, Readers
    <3> HIDE DEF N
    <3> QED BY ONLY <2>6, <2>7, <3>1 DEF Local
  <2>9. fn \in Methods => This(p) \in modules'
    <3>1. This(p) = This(obj) BY ONLY <1>4, <2>2, <2>6, Unmoved
    <3> QED BY ONLY <3>1, <1>4, <1>5
  <2>10. World(g, modules', lost', Own(g, fn, k, p)) BY <1>5, <2>1, <2>6, <2>7 DEF Own
  <2>11. IndInv'
    BY ONLY <1>1, <1>5, <2>1, <2>8, <2>9, <2>10, Went DEF fn, k, g
  <2> QED BY <2>6, <2>11 DEF Calm, g
<1> QED BY <1>6, <1>7

\* So does wrapping the module, or throwing when there is none.
LEMMA AfterWrap ==
    ASSUME IndInv, Wrap
    PROVE  IndInv' /\ Calm
<1> DEFINE fn == call.fn
           n == Len(call.todo)
           k == Len(Tail(call.todo))
           obj == call.obj
           M == Mine(fn, n, obj)
           X == Owned("module")
           A == OwnedAddress("module")
           p == SetTo(obj, "errors", Null)
           m == WrapOf(obj, A)
<1>1. /\ Going /\ Place("wrap", fn, n) /\ Rest(fn, Tail(call.todo)) /\ k = n - 1 /\ n \in Nat
      /\ At("wrap")
  BY AtStep DEF Wrap
<1>2. (fn = "parseWat" /\ n = 4) \/ (fn = "readWasm" /\ n = 5) BY <1>1 DEF Place
<1>3. /\ fn \in DOMAIN Fn /\ obj \in [Slots -> Addr \cup {Null}] /\ Reached(fn, n, obj)
      /\ Bound(heap, fn, obj, M) /\ World(heap, modules, lost, OwnOf(heap, obj, M))
      /\ Loaded(heap, fn, n, obj)
      /\ ~misused
  BY ONLY <1>1, GoingFacts
<1>4. p \in [Slots -> Addr \cup {Null}] /\ p["errors"] = Null
      /\ \A s \in Slots : s # "errors" => p[s] = obj[s]
  BY <1>3, Set DEF Slots
<1>5. M = IsSet(obj) /\ Mine(fn, k, p) = Kept(fn) /\ Reached(fn, k, p)
  <2> HIDE DEF p, obj, n, k, fn
  <2> QED BY ONLY <1>1, <1>2, <1>3, <1>4, MineWraps DEF M, IsSet
<1>6. /\ obj["module"] = Null /\ obj["output"] = Null /\ obj["log"] = Null
      /\ obj["errors"] # Null /\ obj["features"] # Null /\ obj["result"] # Null
      /\ obj["buffer"] # Null
      /\ fn = "parseWat" => obj["lexer"] # Null /\ obj["filename"] # Null
      /\ fn = "readWasm" => obj["lexer"] = Null /\ obj["filename"] = Null
  <2> HIDE DEF p, obj, n, k, fn
  <2>1. CASE fn = "parseWat" /\ n = 4 BY ONLY <1>3, <2>1 DEF Reached
  <2>2. CASE fn = "readWasm" /\ n = 5 BY ONLY <1>3, <2>2 DEF Reached
  <2> QED BY <1>2, <2>1, <2>2
<1>7. CASE ~Ok
  <2>1. Throw /\ UNCHANGED <<heap, modules>> /\ Lend(LentToFormat) BY <1>7 DEF Wrap
  <2>2. InTryAt(fn, n, IF fn = "parseWat" THEN 3 ELSE 4) BY <1>2 DEF InTryAt
  <2>3. "errors" \in M /\ obj["lexer"] # Null => "lexer" \in M BY <1>5, <1>6 DEF Slots, IsSet
  <2>4. \A s \in LentToFormat : s \in {"errors", "lexer"} /\ s \in M
    <3>1. "errors" \in M BY <1>5, <1>6 DEF Slots, IsSet
    <3>2. obj["lexer"] # Null => "lexer" \in M BY <1>5 DEF Slots, IsSet
    <3> QED BY <3>1, <3>2 DEF LentToFormat
  <2>5. \A s \in LentToFormat : Usable(s)
    <3> TAKE s \in LentToFormat
    <3>1. s \in M /\ s # "module" BY <2>4
    <3>2. Bound(heap, fn, call.obj, M) BY <1>3
    <3> HIDE DEF M
    <3> QED BY ONLY <1>3, <3>1, <3>2, UsableMine
  <2>6. ~misused' BY ONLY <1>3, <2>1, <2>5, Lent
  <2> QED BY ONLY IndInv, <1>1, <2>1, <2>2, <2>6, AfterCaught
<1>8. CASE Ok
  <2>1. /\ heap' = RidOf(heap, obj["result"], X)
        /\ call' = [call EXCEPT !.todo = Tail(call.todo), !.obj = p]
        /\ modules' = modules \cup {m}
        /\ lost' = lost /\ misused' = misused
    BY <1>8 DEF Wrap, WrapModule, Release, RidOf, Assign, Go, SetTo, WrapOf
  <2>2. /\ X = {a \in heap[obj["result"]].owns : heap[a].content = "module"}
        /\ A = IF X = {} THEN Null ELSE CHOOSE a \in X : TRUE
        /\ m = WrapOf(obj, A) /\ p = SetTo(obj, "errors", Null)
    BY DEF Owned, OwnedAddress
  <2>3. Wrappable(heap, fn, obj) BY <1>2, <1>3, <1>6, <1>8 DEF Loaded, Ok, Wrappable
  <2>4. fn \in Readers BY <1>2 DEF Readers
  <2> DEFINE g == heap'
  <2> HIDE DEF fn, n, k, obj, M, X, A, p, m
  <2>5. Wraps(heap, obj, X, A, g, m, p) BY ONLY <2>1, <2>2 DEF Wraps
  <2> HIDE DEF g
  <2>6. /\ \A a \in HeldBy(modules) : g[a] = heap[a]
        /\ World(g, modules \cup {m}, lost, OwnOf(g, p, Kept(fn)))
        /\ Bound(g, fn, p, Kept(fn))
    BY ONLY <1>3, <1>5, <2>3, <2>4, <2>5, BoundWrapped
  <2>7. Local(g, fn, k, p)
    <3>1. Loaded(g, fn, k, p) BY ONLY <1>1, <1>2 DEF Loaded
    <3> QED BY ONLY <1>4, <1>5, <2>6, <3>1 DEF Local
  <2>8. fn \notin Methods BY ONLY <2>4 DEF Methods
  <2>9. World(g, modules', lost', Own(g, fn, k, p)) BY ONLY <1>5, <2>1, <2>6 DEF Own
  <2>10. ~misused' BY <1>3, <2>1
  <2>11. IndInv'
    BY ONLY <1>1, <2>1, <2>7, <2>8, <2>9, <2>10, Went DEF fn, k, g
  <2> QED BY <2>6, <2>11 DEF Calm, g
<1> QED BY <1>7, <1>8

-----------------------------------------------------------------------------
(* The steps before the try block, and the other C functions. *)

\* What the lemmas on single steps need of the invariant.
LEMMA SetupFacts ==
    ASSUME IndInv, NEW step, At(step)
    PROVE  /\ Going /\ ~misused
           /\ Place(step, call.fn, Len(call.todo))
           /\ Reached(call.fn, Len(call.todo), call.obj)
           /\ World(heap, modules, lost, Own(heap, call.fn, Len(call.todo), call.obj))
           /\ Bound(heap, call.fn, call.obj, Mine(call.fn, Len(call.todo), call.obj))
  BY AtStep, GoingFacts DEF Going

\* A throw from malloc, or before it.
LEMMA ThrownAtSetup ==
    ASSUME IndInv, NEW step, At(step), InSetupAt(call.fn, Len(call.todo)), ThrowAt
    PROVE  IndInv' /\ Calm
<1>1. Throw /\ UNCHANGED <<heap, modules>> /\ misused' = misused BY DEF ThrowAt
<1>2. Going /\ ~misused BY SetupFacts
<1> QED BY <1>1, <1>2, AfterUncaught

\* AllocateCString and AllocateBuffer keep the invariant.
LEMMA AfterAllocate ==
    ASSUME IndInv, AllocateCString \/ AllocateBuffer
    PROVE  IndInv' /\ Calm
<1>1. PICK slot \in {"filename", "buffer"} :
         /\ At(slot)
         /\ ThrowAt \/ \E content : New(slot, Object("malloc", {}, {}, content)) /\ UNCHANGED misused
  BY Zenon DEF AllocateCString, AllocateBuffer
<1>2. ~misused /\ Place(slot, call.fn, Len(call.todo)) BY <1>1, SetupFacts
<1>3. CASE ThrowAt
  <2>1. InSetupAt(call.fn, Len(call.todo)) BY <1>2 DEF Place, InSetupAt
  <2> QED BY ONLY IndInv, <1>1, <1>3, <2>1, ThrownAtSetup
<1>4. ASSUME NEW content, New(slot, Object("malloc", {}, {}, content)), UNCHANGED misused
      PROVE  IndInv' /\ Calm
  <2> DEFINE o == Object("malloc", {}, {}, content)
  <2>1. ObjectOK(o) /\ o.kind = "malloc" BY DEF ObjectOK, Object
  <2>2. slot \in Setups /\ KindOf(slot) = "malloc" /\ slot # "lexer" BY KindOfSlots DEF Setups
  <2>3. New(slot, o) BY <1>4
  <2>4. ~misused' BY <1>2, <1>4
  <2>5. o.kind = KindOf(slot) /\ (slot = "lexer" => o.uses = {call.obj["buffer"]}) BY <2>1, <2>2
  <2> HIDE DEF o
  <2> QED BY ONLY IndInv, <1>1, <2>1, <2>2, <2>3, <2>4, <2>5, AfterNew
<1> QED BY <1>1, <1>3, <1>4

\* NewLexer keeps it: the text and its name are there.
LEMMA AfterLexer ==
    ASSUME IndInv, NewLexer
    PROVE  IndInv' /\ Calm
<1> DEFINE o == Object("lexer", {call.obj.buffer}, {}, << >>)
           M == Mine(call.fn, Len(call.todo), call.obj)
           C == Own(heap, call.fn, Len(call.todo), call.obj)
<1>1. At("lexer") /\ Lend({"filename", "buffer"}) /\ New("lexer", o) BY DEF NewLexer
<1>2. /\ Going /\ ~misused /\ call.fn = "parseWat" /\ Len(call.todo) = 8
      /\ Reached(call.fn, Len(call.todo), call.obj)
      /\ World(heap, modules, lost, C)
      /\ Bound(heap, call.fn, call.obj, M)
  BY <1>1, SetupFacts DEF Place
<1>3. \A s \in {"filename", "buffer"} : s \in M /\ s # "module"
  BY <1>2 DEF Reached, Mine, Belongs, Slots, TextSlots
<1> HIDE DEF M, C
<1>4. \A s \in {"filename", "buffer"} : Usable(s)
  <2> TAKE s \in {"filename", "buffer"}
  <2> QED BY ONLY <1>2, <1>3, s \in {"filename", "buffer"}, UsableMine
<1>5. ~misused' BY <1>1, <1>2, <1>4, Lent
<1>6. ObjectOK(o) /\ o.kind = KindOf("lexer") /\ o.uses = {call.obj["buffer"]}
  BY KindOfSlots DEF ObjectOK, Object
<1>7. "lexer" \in Setups BY DEF Setups
<1> HIDE DEF o
<1> QED BY ONLY IndInv, <1>1, <1>5, <1>6, <1>7, AfterNew

\* NewErrors and NewFeatures keep it.
LEMMA AfterPlain ==
    ASSUME IndInv, NewErrors \/ NewFeatures
    PROVE  IndInv' /\ Calm
<1>1. PICK slot \in {"errors", "features"} :
         At(slot) /\ \E content : New(slot, Object(slot, {}, {}, content)) /\ UNCHANGED misused
  BY Zenon DEF NewErrors, NewFeatures
<1>2. PICK content : New(slot, Object(slot, {}, {}, content)) /\ UNCHANGED misused BY <1>1
<1> DEFINE o == Object(slot, {}, {}, content)
<1>3. ~misused' BY <1>1, <1>2, SetupFacts
<1>4. ObjectOK(o) /\ o.kind = slot BY DEF ObjectOK, Object
<1>5. slot \in Setups /\ KindOf(slot) = slot /\ slot # "lexer" BY KindOfSlots DEF Setups
<1>6. o.kind = KindOf(slot) /\ (slot = "lexer" => o.uses = {call.obj["buffer"]}) BY <1>4, <1>5
<1>7. New(slot, o) BY <1>2
<1> HIDE DEF o
<1> QED BY ONLY IndInv, <1>1, <1>3, <1>4, <1>5, <1>6, <1>7, AfterNew

\* A step that changes nothing but the place in the call.
LEMMA JustContinued ==
    ASSUME IndInv, NEW step, At(step), Continue, ~misused',
           Moves(call.fn, Len(call.todo), Len(call.todo) - 1),
           UNCHANGED <<heap, modules, lost>>
    PROVE  IndInv' /\ Calm
<1>1. /\ Going /\ Rest(call.fn, Tail(call.todo)) /\ Len(Tail(call.todo)) = Len(call.todo) - 1
  BY AtStep
<1>2. call' = [call EXCEPT !.todo = Tail(call.todo), !.obj = call.obj] BY DEF Continue, Go
<1> QED BY <1>1, <1>2, AfterMove

\* ReadOptions keeps it.
LEMMA AfterReadOptions ==
    ASSUME IndInv, ReadOptions
    PROVE  IndInv' /\ Calm
<1>1. At("options") BY DEF ReadOptions
<1>2. ~misused /\ Place("options", call.fn, Len(call.todo)) BY <1>1, SetupFacts
<1>3. CASE call.options.defined
  <2>1. Continue /\ UNCHANGED <<heap, modules, lost, misused>> BY <1>3 DEF ReadOptions
  <2>2. Moves(call.fn, Len(call.todo), Len(call.todo) - 1) BY <1>2 DEF Place, Moves
  <2> QED BY <1>1, <1>2, <2>1, <2>2, JustContinued
<1>4. CASE ~call.options.defined
  <2>1. ThrowAt BY <1>4 DEF ReadOptions
  <2>2. InSetupAt(call.fn, Len(call.todo)) BY <1>2 DEF Place, InSetupAt
  <2> QED BY <1>1, <2>1, <2>2, ThrownAtSetup
<1> QED BY <1>3, <1>4

\* Validate keeps it.
LEMMA AfterValidate ==
    ASSUME IndInv, Validate
    PROVE  IndInv' /\ Calm
<1> DEFINE M == Mine(call.fn, Len(call.todo), call.obj)
           C == Own(heap, call.fn, Len(call.todo), call.obj)
<1>1. At("validate") /\ UNCHANGED <<heap, modules>> BY DEF Validate
<1>2. /\ Going /\ ~misused /\ call.fn = "validate" /\ Len(call.todo) = 2
      /\ Reached(call.fn, Len(call.todo), call.obj)
      /\ World(heap, modules, lost, C)
      /\ Bound(heap, call.fn, call.obj, M)
  BY <1>1, SetupFacts DEF Place
<1>3. Usable("module") /\ Usable("errors") /\ (call.obj["lexer"] # Null => Usable("lexer"))
  BY <1>2, UsableThis DEF Methods, Readers, Fn
<1>4. Usable("features")
  <2>1. "features" \in M BY <1>2 DEF Reached, Mine, Belongs, Slots
  <2> HIDE DEF M, C
  <2> QED BY ONLY <1>2, <2>1, UsableMine
<1>5. CASE Lend({"module", "features", "errors"}) /\ Continue /\ UNCHANGED <<lost, throws>>
  <2>1. ~misused' BY <1>2, <1>3, <1>4, <1>5, Lent
  <2>2. Moves(call.fn, Len(call.todo), Len(call.todo) - 1) BY <1>2 DEF Moves
  <2> QED BY <1>1, <1>5, <2>1, <2>2, JustContinued
<1>6. CASE Lend({"module", "features"} \cup LentToFormat) /\ Throw
  <2>1. \A s \in {"module", "features"} \cup LentToFormat : Usable(s)
    BY <1>3, <1>4 DEF LentToFormat
  <2>2. ~misused' BY ONLY <1>2, <1>6, <2>1, Lent
  <2>3. InTryAt(call.fn, Len(call.todo), 1) BY <1>2 DEF InTryAt
  <2> QED BY ONLY IndInv, <1>1, <1>2, <1>6, <2>2, <2>3, AfterCaught
<1> QED BY <1>5, <1>6 DEF Validate

\* Names keeps it.
LEMMA AfterNames ==
    ASSUME IndInv, Names
    PROVE  IndInv' /\ Calm
<1>1. At("names") /\ UNCHANGED <<heap, modules>> BY DEF Names
<1>2. /\ Going /\ ~misused /\ Len(call.todo) = 1
      /\ call.fn \in {"resolveNames", "generateNames", "applyNames"}
  BY <1>1, SetupFacts DEF Place
<1>3. Usable("module") /\ Usable("errors") /\ (call.obj["lexer"] # Null => Usable("lexer"))
  BY <1>2, UsableThis DEF Methods, Readers, Fn
<1>4. CASE /\ Lend({"module"} \cup (IF call.fn = "resolveNames" THEN {"errors"} ELSE {}))
           /\ Continue
           /\ UNCHANGED <<lost, throws>>
  <2>1. ~misused' BY <1>2, <1>3, <1>4, Lent
  <2>2. Moves(call.fn, Len(call.todo), Len(call.todo) - 1) BY <1>2 DEF Moves
  <2> QED BY <1>1, <1>4, <2>1, <2>2, JustContinued
<1>5. CASE /\ Lend({"module"} \cup (IF call.fn = "resolveNames" THEN LentToFormat ELSE {}))
           /\ Throw
  <2>1. \A s \in {"module"} \cup (IF call.fn = "resolveNames" THEN LentToFormat ELSE {}) : Usable(s)
    BY <1>3 DEF LentToFormat
  <2>2. ~misused' BY ONLY <1>2, <1>5, <2>1, Lent
  <2>3. InSetupAt(call.fn, Len(call.todo)) BY <1>2 DEF InSetupAt
  <2> QED BY ONLY IndInv, <1>1, <1>2, <1>5, <2>2, <2>3, AfterUncaught
<1> QED BY <1>4, <1>5 DEF Names

\* Convert keeps it.
LEMMA AfterConvert ==
    ASSUME IndInv, Convert
    PROVE  IndInv' /\ Calm
<1> DEFINE M == Mine(call.fn, Len(call.todo), call.obj)
           C == Own(heap, call.fn, Len(call.todo), call.obj)
           S == {slot \in {"output", "log"} : call.obj[slot] # Null}
<1>1. At("convert") /\ Lend(S) /\ Continue /\ UNCHANGED <<heap, modules, lost>> BY DEF Convert
<1>2. /\ Going /\ ~misused
      /\ (call.fn = "toText" /\ Len(call.todo) = 3) \/ (call.fn = "toBinary" /\ Len(call.todo) = 4)
      /\ Reached(call.fn, Len(call.todo), call.obj)
      /\ World(heap, modules, lost, C)
      /\ Bound(heap, call.fn, call.obj, M)
  BY <1>1, SetupFacts DEF Place
<1>3. \A s \in S : s \in M /\ s # "module"
  <2>1. CASE call.fn = "toText" /\ Len(call.todo) = 3
    BY ONLY <1>2, <2>1 DEF Reached, Mine, Belongs, Slots
  <2>2. CASE call.fn = "toBinary" /\ Len(call.todo) = 4
    BY ONLY <1>2, <2>2 DEF Reached, Mine, Belongs, Slots
  <2> QED BY ONLY <1>2, <2>1, <2>2
<1> HIDE DEF M, C, S
<1>4. \A s \in S : Usable(s)
  <2> TAKE s \in S
  <2> QED BY ONLY <1>2, <1>3, s \in S, UsableMine
<1>5. ~misused' BY <1>1, <1>2, <1>4, Lent
<1>6. Moves(call.fn, Len(call.todo), Len(call.todo) - 1) BY <1>2 DEF Moves
<1> QED BY <1>1, <1>5, <1>6, JustContinued

\* ParseWat and ReadBinary keep it.
LEMMA AfterReader ==
    ASSUME IndInv, ParseWat \/ ReadBinary
    PROVE  IndInv' /\ Calm
<1> DEFINE M == Mine(call.fn, Len(call.todo), call.obj)
           C == Own(heap, call.fn, Len(call.todo), call.obj)
<1>1. CASE ParseWat
  <2> DEFINE S == {"lexer", "features", "errors"}
  <2>1. At("parse") /\ MakeModule(S, {call.obj.lexer}, FALSE) BY <1>1 DEF ParseWat
  <2>2. /\ call.fn = "parseWat" /\ Len(call.todo) = 5
        /\ Reached(call.fn, Len(call.todo), call.obj)
        /\ World(heap, modules, lost, C)
        /\ Bound(heap, call.fn, call.obj, M)
    BY <2>1, SetupFacts DEF Place
  <2>3. \A s \in S : s \in M /\ s # "module"
    BY <2>2 DEF Reached, Mine, Belongs, Slots, TextSlots
  <2> HIDE DEF M, C, S
  <2>4. \A s \in S : Usable(s)
    <3> TAKE s \in S
    <3> QED BY ONLY <2>2, <2>3, s \in S, UsableMine
  <2> DEFINE uses == {call.obj.lexer}
             always == FALSE
  <2>5. MakeModule(S, uses, always) /\ always \in BOOLEAN
        /\ (call.fn = "parseWat" /\ Len(call.todo) = 5 /\ uses = {call.obj.lexer})
    BY <2>1, <2>2
  <2> HIDE DEF uses, always
  <2> QED BY ONLY IndInv, <2>1, <2>4, <2>5, AfterMake
<1>2. CASE ReadBinary
  <2> DEFINE S == {"buffer", "features", "errors"}
  <2>1. At("read") /\ MakeModule(S, {}, TRUE) BY <1>2 DEF ReadBinary
  <2>2. /\ call.fn = "readWasm" /\ Len(call.todo) = 6
        /\ Reached(call.fn, Len(call.todo), call.obj)
        /\ World(heap, modules, lost, C)
        /\ Bound(heap, call.fn, call.obj, M)
    BY <2>1, SetupFacts DEF Place
  <2>3. \A s \in S : s \in M /\ s # "module"
    BY <2>2 DEF Reached, Mine, Belongs, Slots
  <2> HIDE DEF M, C, S
  <2>4. \A s \in S : Usable(s)
    <3> TAKE s \in S
    <3> QED BY ONLY <2>2, <2>3, s \in S, UsableMine
  <2> DEFINE uses == {}
             always == TRUE
  <2>5. MakeModule(S, uses, always) /\ always \in BOOLEAN
        /\ (call.fn = "readWasm" /\ Len(call.todo) = 6 /\ uses = {})
    BY <2>1, <2>2
  <2> HIDE DEF uses, always
  <2> QED BY ONLY IndInv, <2>1, <2>4, <2>5, AfterMake
<1> QED BY <1>1, <1>2

\* Every step that destroys keeps it.
LEMMA AfterDestroy ==
    ASSUME IndInv, DestroyLocal
    PROVE  IndInv' /\ Calm
<1>1. ASSUME NEW step, NEW S \in SUBSET Slots, Dispose(step, S),
             Place(step, call.fn, Len(call.todo)) => Drops(call.fn, Len(call.todo), call.obj, S)
      PROVE  IndInv' /\ Calm
  <2>1. At(step) BY <1>1 DEF Dispose
  <2>2. Drops(call.fn, Len(call.todo), call.obj, S) BY <1>1, <2>1, SetupFacts
  <2> QED BY ONLY IndInv, <1>1, <2>2, AfterDispose
<1>2. CASE DestroyErrors
  <2> DEFINE T == TextOf(call.obj)
  <2>1. Dispose("~errors", T) BY <1>2 DEF DestroyErrors, TextOf
  <2>2. T \in SUBSET Slots BY DEF TextOf, Slots
  <2>3. Place("~errors", call.fn, Len(call.todo)) => Drops(call.fn, Len(call.todo), call.obj, T)
    BY DEF Place, Drops
  <2> HIDE DEF T
  <2> QED BY ONLY <1>1, <2>1, <2>2, <2>3
<1>3. \A s \in Slots : {s} \in SUBSET Slots OBVIOUS
<1>4. {"result"} \in SUBSET Slots /\ {"features"} \in SUBSET Slots /\ {"buffer"} \in SUBSET Slots
      /\ {"module"} \in SUBSET Slots /\ {"output"} \in SUBSET Slots /\ {"log"} \in SUBSET Slots
  BY DEF Slots
<1>5. /\ Place("~result", call.fn, Len(call.todo)) => Drops(call.fn, Len(call.todo), call.obj, {"result"})
      /\ Place("~features", call.fn, Len(call.todo)) => Drops(call.fn, Len(call.todo), call.obj, {"features"})
      /\ Place("~buffer", call.fn, Len(call.todo)) => Drops(call.fn, Len(call.todo), call.obj, {"buffer"})
      /\ Place("~module", call.fn, Len(call.todo)) => Drops(call.fn, Len(call.todo), call.obj, {"module"})
      /\ Place("~output", call.fn, Len(call.todo)) => Drops(call.fn, Len(call.todo), call.obj, {"output"})
      /\ Place("~log", call.fn, Len(call.todo)) => Drops(call.fn, Len(call.todo), call.obj, {"log"})
  BY DEF Place, Drops
<1>6. CASE Dispose("~result", {"result"}) BY ONLY <1>1, <1>4, <1>5, <1>6
<1>7. CASE Dispose("~features", {"features"}) BY ONLY <1>1, <1>4, <1>5, <1>7
<1>8. CASE Dispose("~buffer", {"buffer"}) BY ONLY <1>1, <1>4, <1>5, <1>8
<1>9. CASE Dispose("~module", {"module"}) BY ONLY <1>1, <1>4, <1>5, <1>9
<1>10. CASE Dispose("~output", {"output"}) BY ONLY <1>1, <1>4, <1>5, <1>10
<1>11. CASE Dispose("~log", {"log"}) BY ONLY <1>1, <1>4, <1>5, <1>11
<1> QED BY <1>2, <1>6, <1>7, <1>8, <1>9, <1>10, <1>11 DEF DestroyLocal

\* Every step of a call keeps it.
LEMMA AfterStep ==
    ASSUME IndInv, Step
    PROVE  IndInv' /\ Calm
  BY AfterAllocate, AfterLexer, AfterPlain, AfterReadOptions, AfterReader, AfterWrap,
     AfterValidate, AfterNames, AfterWrite, AfterTake, AfterConvert, AfterDestroy, AfterReturn
  DEF Step

\* Every call that a program makes keeps it.
LEMMA AfterCall ==
    ASSUME IndInv, CallSomething
    PROVE  IndInv' /\ Calm
<1>1. CASE Idle /\ UNCHANGED vars BY <1>1 DEF vars, IndInv, Calm
<1>2. ASSUME NEW fn \in Readers, NEW input \in Inputs, NEW options \in OptionsOf(fn),
             CallReader(fn, options, input)
      PROVE  IndInv' /\ Calm
  BY ONLY IndInv, <1>2, AfterCallReader
<1>3. ASSUME NEW fn \in (DOMAIN Fn) \ Readers, NEW this \in modules, NEW options \in OptionsOf(fn),
             CallMethod(fn, this, options)
      PROVE  IndInv' /\ Calm
  BY ONLY IndInv, <1>3, AfterCallMethod
<1> QED BY Zenon, <1>1, <1>2, <1>3 DEF CallSomething

-----------------------------------------------------------------------------
(* The demo pages. *)

\* Short sequences.
LEMMA Plans ==
    ASSUME NEW S, NEW a \in S, NEW b \in S, NEW c \in S, NEW d \in S
    PROVE  /\ <<a, b, c, d>> \in Seq(S) /\ Len(<<a, b, c, d>>) = 4
           /\ <<a, b, c, d>>[2] = b /\ <<a, b, c, d>>[3] = c /\ <<a, b, c, d>>[4] = d
           /\ <<a, b>> \in Seq(S) /\ Len(<<a, b>>) = 2 /\ <<a, b>>[1] = a /\ <<a, b>>[2] = b
           /\ <<a>> \in Seq(S) /\ Len(<<a>>) = 1 /\ <<a>>[1] = a
           /\ << >> \in Seq(S) /\ Len(<< >>) = 0
  OBVIOUS

\* A plan in three parts.
LEMMA Joined ==
    ASSUME NEW s \in Seq(Calls), NEW t \in Seq(Calls), NEW u \in Seq(Calls), Len(s) = 1,
           \A i \in 1..Len(t) : t[i].fn \notin Readers,
           \A i \in 1..Len(u) : u[i].fn \notin Readers
    PROVE  Planned(s \o t \o u)
<1> DEFINE q == s \o t \o u
<1>0. /\ q \in Seq(Calls) /\ Len(q) = Len(s) + Len(t) + Len(u)
      /\ \A i \in 1..Len(t) : q[Len(s) + i] = t[i]
      /\ \A i \in 1..Len(u) : q[Len(s) + Len(t) + i] = u[i]
  BY ONLY s \in Seq(Calls), t \in Seq(Calls), u \in Seq(Calls), Cat
<1> HIDE DEF q
<1>1. /\ q \in Seq(Calls) /\ Len(q) = 1 + Len(t) + Len(u)
      /\ Len(t) \in Nat /\ Len(u) \in Nat
      /\ \A i \in 1..Len(t) : q[1 + i] = t[i]
      /\ \A i \in 1..Len(u) : q[1 + Len(t) + i] = u[i]
  BY <1>0, Len(s) = 1
<1>2. ASSUME NEW i \in 2..Len(q) PROVE q[i].fn \notin Readers
  <2>1. CASE i <= 1 + Len(t)
    <3>1. i - 1 \in 1..Len(t) /\ 1 + (i - 1) = i BY <1>1, <2>1
    <3>2. q[i] = t[i - 1] BY <1>1, <3>1
    <3> QED BY <3>1, <3>2
  <2>2. CASE ~(i <= 1 + Len(t))
    <3>1. i - 1 - Len(t) \in 1..Len(u) /\ 1 + Len(t) + (i - 1 - Len(t)) = i BY <1>1, <2>2
    <3>2. q[i] = u[i - 1 - Len(t)] BY <1>1, <3>1
    <3> QED BY <3>1, <3>2
  <2> QED BY <2>1, <2>2
<1> QED BY <1>1, <1>2 DEF Planned, q

\* The plan of the wat2wasm page.
LEMMA WatPlanned ==
    ASSUME NEW on \in SUBSET Range(FEATURES)
    PROVE  Planned(WatCompile([defined |-> TRUE, named |-> Range(FEATURES),
                               on |-> on, log |-> FALSE]))
<1> DEFINE f == [defined |-> TRUE, named |-> Range(FEATURES), on |-> on, log |-> FALSE]
           a == With("parseWat", f)
           b == With("resolveNames", Undefined)
           c == With("validate", f)
           d == With("toBinary", [Literal EXCEPT !.log = TRUE])
<1>1. /\ f \in OptionRecords /\ Undefined \in OptionRecords
      /\ [Literal EXCEPT !.log = TRUE] \in OptionRecords
  BY DEF OptionRecords, Undefined, Literal
<1> HIDE DEF f
<1>2. a \in Calls /\ b \in Calls /\ c \in Calls /\ d \in Calls
  BY <1>1 DEF Calls, With, Fn
<1>3. b.fn \notin Readers /\ c.fn \notin Readers /\ d.fn \notin Readers BY DEF With, Readers
<1>4. WatCompile(f) = <<a, b, c, d>> BY DEF WatCompile
<1> HIDE DEF a, b, c, d
<1> DEFINE q == <<a, b, c, d>>
<1>5. q \in Seq(Calls) /\ Len(q) = 4 /\ q[2] = b /\ q[3] = c /\ q[4] = d BY <1>2, Plans
<1> HIDE DEF q
<1>6. \A i \in 2..Len(q) : i = 2 \/ i = 3 \/ i = 4 BY ONLY <1>5
<1>7. Planned(q) BY ONLY <1>3, <1>5, <1>6 DEF Planned
<1> QED BY <1>4, <1>7 DEF f, q

\* The plan of the wasm2wat page.
LEMMA WasmPlanned ==
    ASSUME NEW generateNames \in BOOLEAN
    PROVE  Planned(WasmCompile(generateNames))
<1> DEFINE a == With("readWasm", Literal)
           b == With("generateNames", Undefined)
           c == With("applyNames", Undefined)
           d == With("toText", Literal)
<1>1. Literal \in OptionRecords /\ Undefined \in OptionRecords
  BY DEF OptionRecords, Undefined, Literal
<1>2. a \in Calls /\ b \in Calls /\ c \in Calls /\ d \in Calls
  BY <1>1 DEF Calls, With, Fn
<1>3. b.fn \notin Readers /\ c.fn \notin Readers /\ d.fn \notin Readers BY DEF With, Readers
<1>4. WasmCompile(generateNames) =
         <<a>> \o (IF generateNames THEN <<b, c>> ELSE << >>) \o <<d>>
  BY DEF WasmCompile
<1> HIDE DEF a, b, c, d
<1> DEFINE s == <<a>>
           t == IF generateNames THEN <<b, c>> ELSE << >>
           u == <<d>>
<1>5. s \in Seq(Calls) /\ Len(s) = 1 BY <1>2, Plans
<1>6. t \in Seq(Calls) /\ \A i \in 1..Len(t) : t[i].fn \notin Readers
  <2>1. CASE generateNames
    <3> DEFINE r == <<b, c>>
    <3>1. r \in Seq(Calls) /\ Len(r) = 2 /\ r[1] = b /\ r[2] = c BY <1>2, Plans
    <3>2. t = r BY <2>1
    <3> HIDE DEF r, t
    <3>3. \A i \in 1..Len(r) : i = 1 \/ i = 2 BY ONLY <3>1
    <3> QED BY ONLY <1>3, <3>1, <3>2, <3>3
  <2>2. CASE ~generateNames
    <3>1. t = << >> BY <2>2
    <3> QED BY ONLY <3>1
  <2> QED BY <2>1, <2>2
<1>7. u \in Seq(Calls) /\ \A i \in 1..Len(u) : u[i].fn \notin Readers
  <2>1. u \in Seq(Calls) /\ Len(u) = 1 /\ u[1] = d BY <1>2, Plans
  <2> HIDE DEF u
  <2>2. \A i \in 1..Len(u) : i = 1 BY ONLY <2>1
  <2> QED BY ONLY <1>3, <2>1, <2>2
<1> HIDE DEF s, t, u
<1>8. Planned(s \o t \o u) BY ONLY <1>5, <1>6, <1>7, Joined
<1> QED BY <1>4, <1>8 DEF s, t, u

\* What is left of a plan reads no module.
LEMMA PlanTail ==
    ASSUME NEW q, Planned(q), q # << >>
    PROVE  /\ Planned(Tail(q)) /\ Head(q) \in Calls
           /\ Tail(q) # << >> => Head(Tail(q)).fn \notin Readers
<1> DEFINE t == Tail(q)
<1>1. q \in Seq(Calls) /\ \A i \in 2..Len(q) : q[i].fn \notin Readers BY DEF Planned
<1>2. t \in Seq(Calls) /\ Len(t) = Len(q) - 1 /\ Len(q) \in Nat /\ Len(q) # 0
      /\ Head(q) \in Calls /\ (t # << >> => Head(t) = t[1] /\ Len(t) # 0)
      /\ \A i \in 1..Len(t) : t[i] = q[i + 1]
  BY <1>1
<1> HIDE DEF t
<1>3. \A i \in 1..Len(t) : t[i].fn \notin Readers
  <2> TAKE i \in 1..Len(t)
  <2>1. i + 1 \in 2..Len(q) BY <1>2
  <2> QED BY <1>1, <1>2, <2>1
<1>4. \A i \in 2..Len(t) : i \in 1..Len(t) BY <1>2
<1>5. t # << >> => 1 \in 1..Len(t) BY <1>2
<1> QED BY <1>2, <1>3, <1>4, <1>5 DEF Planned, t

\* Where a call goes in one step, and who gets a module then.
Ways ==
    /\ ~Idle
    /\ \/ call' = NoCall
       \/ /\ call'.fn = call.fn
          /\ call.fn \in Readers => Len(call'.todo) < Len(call.todo) /\ Len(call.todo) \in Nat
    /\ \/ modules' = modules
       \/ /\ \E m : modules' = modules \cup {m}
          /\ \/ call.fn = "parseWat" /\ Len(call.todo) = 4
             \/ call.fn = "readWasm" /\ Len(call.todo) = 5

\* A call that goes on to its next step.
LEMMA WaysOn ==
    ASSUME IndInv, NEW step, At(step), NEW p, Go(Tail(call.todo), p), modules' = modules
    PROVE  Ways
<1>1. Going /\ Len(Tail(call.todo)) = Len(call.todo) - 1 /\ Len(call.todo) \in Nat BY AtStep
<1>2. call.todo # << >> /\ NoCall.todo = << >> BY DEF At, NoCall
<1>3. /\ call = [fn |-> call.fn, todo |-> call.todo, obj |-> call.obj, options |-> call.options,
                 input |-> call.input]
  BY <1>1 DEF Going
<1>4. call'.fn = call.fn /\ call'.todo = Tail(call.todo) BY ONLY <1>3, Go(Tail(call.todo), p) DEF Go
<1>5. ~Idle BY <1>2 DEF Idle
<1> QED BY ONLY <1>1, <1>4, <1>5, modules' = modules DEF Ways

\* A call that throws.
LEMMA WaysOut ==
    ASSUME IndInv, NEW step, At(step), Throw, modules' = modules,
           InSetupAt(call.fn, Len(call.todo)) \/ \E k : InTryAt(call.fn, Len(call.todo), k)
    PROVE  Ways
<1>1. Going /\ Len(call.todo) \in Nat BY AtStep
<1>2. ~Idle
  <2>1. call.todo # << >> /\ NoCall.todo = << >> BY DEF At, NoCall
  <2> QED BY <2>1 DEF Idle
<1>3. CASE InSetupAt(call.fn, Len(call.todo))
  <2>1. ~InTry BY <1>3, Uncaught DEF InTry
  <2>2. call' = NoCall BY <2>1 DEF Throw
  <2> QED BY ONLY <1>2, <2>2, modules' = modules DEF Ways
<1>4. ASSUME NEW k, InTryAt(call.fn, Len(call.todo), k)
      PROVE  Ways
  <2>1. Len(Fn[call.fn].cleanup) = k /\ InTry BY <1>4, Caught DEF InTry
  <2>2. call' = [call EXCEPT !.todo = Fn[call.fn].cleanup] BY <2>1 DEF Throw
  <2>3. call = [fn |-> call.fn, todo |-> call.todo, obj |-> call.obj, options |-> call.options,
                input |-> call.input]
    BY <1>1 DEF Going
  <2>4. call'.fn = call.fn /\ call'.todo = Fn[call.fn].cleanup BY ONLY <2>2, <2>3
  <2>5. call.fn \in Readers => k < Len(call.todo)
    <3> DEFINE n == Len(call.todo)
    <3>1. InTryAt(call.fn, n, k) BY <1>4
    <3> HIDE DEF n
    <3>2. call.fn \in Readers => k < n BY ONLY <3>1 DEF InTryAt, Readers
    <3> QED BY <3>2 DEF n
  <2> QED BY ONLY <1>1, <1>2, <2>1, <2>4, <2>5, modules' = modules DEF Ways
<1> QED BY <1>3, <1>4

-----------------------------------------------------------------------------
(* Every step of a call and of a page.                                     *)

\* Every step of a call.
LEMMA WaysOfStep ==
    ASSUME IndInv, Step
    PROVE  Ways
<1>1. ASSUME NEW step, At(step), ThrowAt, InSetupAt(call.fn, Len(call.todo))
      PROVE  Ways
  <2>1. Throw /\ modules' = modules BY <1>1 DEF ThrowAt
  <2> QED BY ONLY IndInv, <1>1, <2>1, WaysOut
<1>2. ASSUME NEW slot, At(slot), NEW o, New(slot, o)
      PROVE  Ways
  <2>1. \E p : Go(Tail(call.todo), p) BY <1>2 DEF New, Assign
  <2>2. modules' = modules BY <1>2 DEF New
  <2> QED BY ONLY IndInv, <1>2, <2>1, <2>2, WaysOn
<1>3. ASSUME NEW step, At(step), Continue, modules' = modules
      PROVE  Ways
  <2>1. Go(Tail(call.todo), call.obj) BY <1>3 DEF Continue
  <2> QED BY ONLY IndInv, <1>3, <2>1, WaysOn
<1>4. CASE AllocateCString \/ AllocateBuffer
  <2>1. PICK slot \in {"filename", "buffer"} :
           At(slot) /\ (ThrowAt \/ \E o : New(slot, o))
    BY Zenon, <1>4 DEF AllocateCString, AllocateBuffer
  <2>2. Place(slot, call.fn, Len(call.todo)) BY <2>1, SetupFacts
  <2>3. InSetupAt(call.fn, Len(call.todo)) BY <2>2 DEF Place, InSetupAt
  <2> QED BY ONLY <1>1, <1>2, <2>1, <2>3
<1>5. CASE NewLexer \/ NewErrors \/ NewFeatures
  <2>1. \E slot : At(slot) /\ \E o : New(slot, o)
    BY Zenon, <1>5 DEF NewLexer, NewErrors, NewFeatures
  <2> QED BY ONLY <1>2, <2>1
<1>6. CASE ReadOptions
  <2>1. At("options") BY <1>6 DEF ReadOptions
  <2>2. Place("options", call.fn, Len(call.todo)) BY <2>1, SetupFacts
  <2>3. InSetupAt(call.fn, Len(call.todo)) \/ call.fn = "none" BY <2>2 DEF Place, InSetupAt
  <2>4. ThrowAt \/ (Continue /\ modules' = modules) BY <1>6 DEF ReadOptions
  <2>5. InSetupAt(call.fn, Len(call.todo)) BY <2>2 DEF Place, InSetupAt
  <2> QED BY ONLY <1>1, <1>3, <2>1, <2>4, <2>5
<1>7. CASE ParseWat \/ ReadBinary \/ WriteModule
  <2>1. \E step, p : At(step) /\ Go(Tail(call.todo), p) /\ modules' = modules
    BY Zenon, <1>7 DEF ParseWat, ReadBinary, MakeModule, WriteModule, Assign
  <2> QED BY ONLY IndInv, <2>1, WaysOn
<1>8. CASE Wrap
  <2>1. At("wrap") BY <1>8 DEF Wrap
  <2>2. Going /\ Place("wrap", call.fn, Len(call.todo)) BY <2>1, SetupFacts
  <2>3. \/ call.fn = "parseWat" /\ Len(call.todo) = 4
        \/ call.fn = "readWasm" /\ Len(call.todo) = 5
    BY <2>2 DEF Place
  <2>4. CASE Ok
    <3>1. /\ \E m : modules' = modules \cup {m}
          /\ \E p : Go(Tail(call.todo), p)
      BY <1>8, <2>4 DEF Wrap, WrapModule, Assign
    <3>2. Len(Tail(call.todo)) = Len(call.todo) - 1 /\ Len(call.todo) \in Nat BY <2>1, AtStep
    <3>3. call = [fn |-> call.fn, todo |-> call.todo, obj |-> call.obj,
                  options |-> call.options, input |-> call.input]
      BY <2>2 DEF Going
    <3>4. call'.fn = call.fn /\ call'.todo = Tail(call.todo) BY ONLY <3>1, <3>3 DEF Go
    <3>5. ~Idle
      <4>1. call.todo # << >> /\ NoCall.todo = << >> BY <2>1 DEF At, NoCall
      <4> QED BY <4>1 DEF Idle
    <3>6. /\ call'.fn = call.fn
          /\ call.fn \in Readers => Len(call'.todo) < Len(call.todo) /\ Len(call.todo) \in Nat
      BY ONLY <3>2, <3>4
    <3>7. \E m : modules' = modules \cup {m} BY <3>1
    <3> QED BY ONLY <2>3, <3>5, <3>6, <3>7, Zenon DEF Ways
  <2>5. CASE ~Ok
    <3>1. Throw /\ modules' = modules BY <1>8, <2>5 DEF Wrap
    <3>2. \E k : InTryAt(call.fn, Len(call.todo), k) BY <2>3 DEF InTryAt
    <3> QED BY ONLY IndInv, <2>1, <3>1, <3>2, WaysOut
  <2> QED BY <2>4, <2>5
<1>9. CASE Validate
  <2>1. At("validate") /\ modules' = modules /\ (Continue \/ Throw) BY <1>9 DEF Validate
  <2>2. Place("validate", call.fn, Len(call.todo)) BY <2>1, SetupFacts
  <2>3. \E k : InTryAt(call.fn, Len(call.todo), k) BY <2>2 DEF Place, InTryAt
  <2> QED BY ONLY IndInv, <1>3, <2>1, <2>3, WaysOut
<1>10. CASE Names
  <2>1. At("names") /\ modules' = modules /\ (Continue \/ Throw) BY <1>10 DEF Names
  <2>2. Place("names", call.fn, Len(call.todo)) BY <2>1, SetupFacts
  <2>3. InSetupAt(call.fn, Len(call.todo)) BY <2>2 DEF Place, InSetupAt
  <2> QED BY ONLY IndInv, <1>3, <2>1, <2>3, WaysOut
<1>11. CASE TakeOutput("output") \/ TakeOutput("log")
  <2>1. PICK slot \in {"output", "log"} : TakeOutput(slot) BY <1>11
  <2>2. At(slot) /\ modules' = modules /\ (Throw \/ \E p : Go(Tail(call.todo), p))
    BY Zenon, <2>1 DEF TakeOutput, Assign
  <2>3. Place(slot, call.fn, Len(call.todo)) BY <2>2, SetupFacts
  <2>4. \E k : InTryAt(call.fn, Len(call.todo), k) BY <2>3 DEF Place, InTryAt
  <2> QED BY ONLY IndInv, <2>2, <2>4, WaysOn, WaysOut
<1>12. CASE Convert
  <2>1. At("convert") /\ modules' = modules /\ Continue BY <1>12 DEF Convert
  <2> QED BY ONLY <1>3, <2>1
<1>13. CASE DestroyLocal
  <2>1. \E step : At(step) /\ modules' = modules /\ Continue
    BY Zenon, <1>13 DEF DestroyLocal, DestroyErrors, Dispose
  <2> QED BY ONLY <1>3, <2>1
<1>14. CASE Return BY <1>14 DEF Return, Ways
<1> QED BY <1>4, <1>5, <1>6, <1>7, <1>8, <1>9, <1>10, <1>11, <1>12, <1>13, <1>14, Step DEF Step

\* Every step of a program keeps the invariant, and lets its modules be.
LEMMA AfterClient ==
    ASSUME IndInv, ClientInv, [ClientNext]_clientVars
    PROVE  IndInv' /\ Calm
<1>1. CASE UNCHANGED clientVars BY <1>1 DEF clientVars, vars, IndInv, Calm
<1>2. CASE BeginCompile
  <2>1. CASE UNCHANGED <<heap, lost, throws>>
    BY <1>2, <2>1 DEF BeginCompile, IndInv, Calm
  <2>2. CASE heap' = [a \in Addr |-> Free] /\ lost' = {}
    <3>1. /\ Page /\ Idle /\ ~compiling /\ modules' = modules /\ call' = call
          /\ misused' = misused
      BY <1>2 DEF BeginCompile
    <3>2. modules = {} BY <3>1 DEF ClientInv
    <3>3. HeldBy(modules) = {} BY <3>2 DEF HeldBy
    <3>4. World(heap', modules', lost', {})
      <4> DEFINE g == heap'
      <4>1. g = [a \in Addr |-> Free] BY <2>2
      <4>2. g = [a \in Addr |-> g[a]] /\ \A a \in Addr : g[a] = Free BY <4>1
      <4> HIDE DEF g
      <4>3. LiveIn(g) = {} /\ \A a \in Addr : ObjectOK(g[a]) BY <4>2, FreeOK DEF LiveIn
      <4>4. HeldBy({}) = {} BY <3>2, <3>3
      <4>5. LiveIn(g) = HeldBy({}) \cup {} \cup {} BY <4>3, <4>4
      <4>6. World(g, {}, {}, {}) BY ONLY <4>2, <4>3, <4>4, <4>5 DEF World
      <4> QED BY <2>2, <3>1, <3>2, <4>6 DEF g
    <3>5. call' = NoCall /\ ~misused' BY <3>1 DEF Idle, IndInv
    <3> QED BY ONLY <3>3, <3>4, <3>5, NowIdle DEF Calm
  <2> QED BY <1>2, <2>1, <2>2 DEF BeginCompile
<1>3. CASE NextCall
  <2>1. CASE Head(plan).fn \in Readers
             /\ \E input \in Inputs : CallReader(Head(plan).fn, Head(plan).options, input)
    BY <2>1, AfterCallReader
  <2>2. CASE \E this \in modules : CallMethod(Head(plan).fn, this, Head(plan).options)
    <3>1. PICK this \in modules : CallMethod(Head(plan).fn, this, Head(plan).options) BY <2>2
    <3>2. /\ plan # << >> /\ (Page => Planned(plan))
      BY <1>3 DEF NextCall, ClientInv
    <3>3. Page BY <1>3 DEF NextCall, ClientInv
    <3>4. Head(plan) \in Calls BY <3>2, <3>3, PlanTail
    <3>5. Head(plan).fn \in DOMAIN Fn BY <3>4 DEF Calls
    <3>6. Head(plan).fn \notin Readers
      BY <3>1, <3>2, <3>3 DEF ClientInv
    <3> QED BY <3>1, <3>5, <3>6, AfterCallMethod
  <2> QED BY <1>3, <2>1, <2>2 DEF NextCall
<1>4. CASE Finally
  <2>1. CASE UNCHANGED vars BY <2>1 DEF vars, IndInv, Calm
  <2>2. CASE \E this \in modules : CallMethod("destroy", this, Undefined)
    <3>1. "destroy" \in (DOMAIN Fn) \ Readers BY DEF Fn, Readers
    <3> QED BY ONLY IndInv, <2>2, <3>1, AfterCallMethod
  <2> QED BY <1>4, <2>1, <2>2 DEF Finally
<1>5. CASE CallSomething BY <1>5, AfterCall
<1>6. CASE Step BY <1>6, AfterStep
<1> QED BY <1>1, <1>2, <1>3, <1>4, <1>5, <1>6 DEF ClientNext

\* How a call begins, for the pages.
LEMMA Begun ==
    ASSUME NEW fn, NEW obj, NEW options, NEW input, Begin(fn, obj, options, input)
    PROVE  Idle /\ call'.fn = fn
<1>1. call' = [fn |-> fn, todo |-> Fn[fn].setup \o Fn[fn].body \o Fn[fn].cleanup,
               obj |-> obj, options |-> options, input |-> input]
  BY DEF Begin
<1>2. call'.fn = fn BY ONLY <1>1
<1> QED BY <1>2 DEF Begin

\* Every step of a page keeps what is known of its plan.
LEMMA ClientKept ==
    ASSUME IndInv, ClientInv, [ClientNext]_clientVars
    PROVE  ClientInv'
<1>1. CASE UNCHANGED clientVars BY <1>1 DEF clientVars, vars, ClientInv, Page, Idle
<1>2. NoCall.fn \notin Readers /\ NoCall.fn = "none" /\ NoCall.todo = << >> BY DEF NoCall, Readers
<1>3. CASE BeginCompile
  <2>1. /\ Page /\ Idle /\ ~compiling /\ modules' = modules /\ call' = call /\ compiling' = TRUE
        /\ client' = client
    BY <1>3 DEF BeginCompile
  <2>2. Planned(plan')
    <3>1. \/ \E on \in SUBSET Range(FEATURES) :
                plan' = WatCompile([defined |-> TRUE, named |-> Range(FEATURES),
                                    on |-> on, log |-> FALSE])
          \/ \E generateNames \in BOOLEAN : plan' = WasmCompile(generateNames)
      BY Zenon, <1>3 DEF BeginCompile
    <3> QED BY ONLY <3>1, WatPlanned, WasmPlanned
  <2>3. modules = {} BY <2>1 DEF ClientInv
  <2>4. Page' /\ Idle' BY <2>1 DEF Page, Idle
  <2> QED BY ONLY <2>1, <2>2, <2>3, <2>4 DEF ClientInv
<1>4. CASE NextCall
  <2>1. /\ compiling /\ Idle /\ plan # << >> /\ plan' = Tail(plan)
        /\ client' = client /\ compiling' = compiling
    BY <1>4 DEF NextCall
  <2>2. /\ Page /\ Planned(plan) /\ \A m1, m2 \in modules : m1 = m2
        /\ Head(plan).fn \in Readers => modules = {}
    BY <2>1 DEF ClientInv
  <2>3. Page' BY <2>1, <2>2 DEF Page
  <2>4. Planned(plan') /\ (plan' # << >> => Head(plan').fn \notin Readers)
    BY <2>1, <2>2, PlanTail
  <2>5. CASE Head(plan).fn \in Readers
             /\ \E input \in Inputs : CallReader(Head(plan).fn, Head(plan).options, input)
    <3>1. modules' = modules BY <2>5 DEF CallReader
    <3> QED BY ONLY <2>1, <2>2, <2>3, <2>4, <2>5, <3>1 DEF ClientInv
  <2>6. CASE \E this \in modules : CallMethod(Head(plan).fn, this, Head(plan).options)
    <3>1. PICK this \in modules : CallMethod(Head(plan).fn, this, Head(plan).options) BY <2>6
    <3>2. modules' \subseteq modules BY <3>1 DEF CallMethod
    <3>3. call'.fn = Head(plan).fn BY <3>1, Begun DEF CallMethod
    <3>4. call'.fn \notin Readers BY <2>2, <3>1, <3>3
    <3>5. call'.fn # "parseWat" /\ call'.fn # "readWasm" BY <3>4 DEF Readers
    <3> QED BY ONLY <2>1, <2>2, <2>3, <2>4, <3>2, <3>5 DEF ClientInv
  <2> QED BY <1>4, <2>5, <2>6 DEF NextCall
<1>5. CASE Finally
  <2>1. /\ compiling /\ Idle /\ compiling' = FALSE /\ plan' = << >> /\ client' = client
    BY <1>5 DEF Finally
  <2>2. Page /\ \A m1, m2 \in modules : m1 = m2 BY <2>1 DEF ClientInv
  <2>3. Page' BY <2>1, <2>2 DEF Page
  <2>4. Planned(plan')
    <3> DEFINE q == plan'
    <3>1. q = << >> BY <2>1
    <3> HIDE DEF q
    <3>2. q \in Seq(Calls) /\ Len(q) = 0 BY ONLY <3>1
    <3>3. Planned(q) BY ONLY <3>2 DEF Planned
    <3> QED BY ONLY <3>3 DEF q
  <2>5. modules' = {} /\ call'.fn \notin Readers
    <3>1. CASE modules = {}
      <4>1. modules' = modules /\ call' = call BY <1>5, <3>1 DEF Finally, vars
      <4> QED BY <4>1, <3>1, <2>1, <1>2 DEF Idle
    <3>2. CASE modules # {}
      <4>1. PICK this \in modules : CallMethod("destroy", this, Undefined)
        BY <1>5, <3>2 DEF Finally
      <4>2. modules' = modules \ {this} /\ call'.fn = "destroy"
        BY <4>1, Begun DEF CallMethod
      <4> QED BY <4>2, <2>2 DEF Readers
    <3> QED BY <3>1, <3>2
  <2>6. call'.fn # "parseWat" /\ call'.fn # "readWasm" BY <2>5 DEF Readers
  <2> QED BY ONLY <2>1, <2>3, <2>4, <2>5, <2>6 DEF ClientInv
<1>6. CASE ~Page /\ UNCHANGED <<client, compiling, plan>>
  BY <1>6 DEF Page, ClientInv
<1>7. CASE Step /\ UNCHANGED <<client, compiling, plan>>
  <2>1. Ways BY <1>7, WaysOfStep
  <2>2. CASE ~Page BY <1>7, <2>2 DEF Page, ClientInv
  <2>3. CASE Page
    <3>1. /\ Page' /\ plan' = plan /\ compiling' = compiling BY <1>7, <2>3 DEF Page
    <3>2. /\ Planned(plan) /\ \A m1, m2 \in modules : m1 = m2
          /\ ~compiling => modules = {} /\ plan = << >> /\ call.fn \notin Readers
          /\ plan # << >> => Head(plan).fn \notin Readers
          /\ call.fn = "parseWat" /\ Len(call.todo) >= 4 => modules = {}
          /\ call.fn = "readWasm" /\ Len(call.todo) >= 5 => modules = {}
      BY <2>1, <2>3 DEF ClientInv, Ways
    <3>3. ~compiling => call'.fn \notin Readers
      BY <1>2, <2>1, <3>2 DEF Ways
    <3>4. \/ modules' = modules
          \/ /\ \E m : modules' = modules \cup {m}
             /\ \/ call.fn = "parseWat" /\ Len(call.todo) = 4
                \/ call.fn = "readWasm" /\ Len(call.todo) = 5
      BY <2>1 DEF Ways
    <3>5. \/ call'.fn = "none"
          \/ /\ call'.fn = call.fn
             /\ call.fn \in Readers => Len(call'.todo) < Len(call.todo) /\ Len(call.todo) \in Nat
      BY <1>2, <2>1 DEF Ways
    <3>6. \A m1, m2 \in modules' : m1 = m2
      <4>1. CASE modules' = modules BY <3>2, <4>1
      <4>2. CASE modules = {} /\ \E m : modules' = modules \cup {m} BY <4>2
      <4>3. modules' = modules \/ (modules = {} /\ \E m : modules' = modules \cup {m})
        <5> DEFINE n == Len(call.todo)
        <5>1. /\ call.fn = "parseWat" /\ n >= 4 => modules = {}
              /\ call.fn = "readWasm" /\ n >= 5 => modules = {}
          BY <3>2
        <5>2. \/ modules' = modules
              \/ /\ \E m : modules' = modules \cup {m}
                 /\ (call.fn = "parseWat" /\ n = 4) \/ (call.fn = "readWasm" /\ n = 5)
          BY <3>4
        <5> HIDE DEF n
        <5> QED BY ONLY <5>1, <5>2
      <4> QED BY ONLY <4>1, <4>2, <4>3
    <3>7. ~compiling => modules' = {} BY <3>2, <3>4 DEF Readers
    <3> DEFINE n == Len(call.todo)
               k == Len(call'.todo)
    <3>8. k \in Nat
      <4>1. IndInv' BY <1>7, AfterStep
      <4>2. CASE call' = NoCall BY <1>2, <4>2
      <4>3. CASE Rest(call'.fn, call'.todo) BY <4>3 DEF Rest
      <4> QED BY <4>1, <4>2, <4>3 DEF IndInv, CallOK
    <3> DEFINE fn == call.fn
               gn == call'.fn
               ms == modules'
    <3>a. \/ gn = "none"
          \/ gn = fn /\ (fn \in Readers => k < n /\ n \in Nat)
      BY <3>5
    <3>b. /\ fn = "parseWat" /\ n >= 4 => modules = {}
          /\ fn = "readWasm" /\ n >= 5 => modules = {}
      BY <3>2
    <3>c. ms = modules \/ (fn = "parseWat" /\ n = 4) \/ (fn = "readWasm" /\ n = 5) BY <3>4
    <3> HIDE DEF n, k, fn, gn, ms
    <3>d. gn = "parseWat" /\ k >= 4 => ms = {} BY ONLY <3>8, <3>a, <3>b, <3>c DEF Readers
    <3>e. gn = "readWasm" /\ k >= 5 => ms = {} BY ONLY <3>8, <3>a, <3>b, <3>c DEF Readers
    <3>9. /\ call'.fn = "parseWat" /\ Len(call'.todo) >= 4 => modules' = {}
          /\ call'.fn = "readWasm" /\ Len(call'.todo) >= 5 => modules' = {}
      BY <3>d, <3>e DEF gn, k, ms
    <3> QED BY ONLY <3>1, <3>2, <3>3, <3>6, <3>7, <3>9 DEF ClientInv
  <2> QED BY <2>2, <2>3
<1>8. CASE Idle /\ ~compiling /\ UNCHANGED clientVars BY <1>1, <1>8
<1> QED BY <1>1, <1>3, <1>4, <1>5, <1>6, <1>7, <1>8 DEF ClientNext

-----------------------------------------------------------------------------
(* The theorems.                                                           *)

\* At the start.
LEMMA AtFirst == ClientInit => IndInv /\ ClientInv
<1> SUFFICES ASSUME ClientInit PROVE IndInv /\ ClientInv OBVIOUS
<1>1. /\ heap = [a \in Addr |-> Free] /\ modules = {} /\ call = NoCall /\ lost = {} /\ ~misused
      /\ compiling = FALSE /\ plan = << >>
  BY DEF ClientInit, Init
<1>2. \A a \in Addr : heap[a] = Free BY <1>1
<1>3. heap = [a \in Addr |-> heap[a]] BY <1>1
<1>4. LiveIn(heap) = {} /\ \A a \in Addr : ObjectOK(heap[a]) BY <1>2, FreeOK DEF LiveIn
<1>5. HeldBy({}) = {} BY DEF HeldBy
<1>6. LiveIn(heap) = HeldBy({}) \cup {} \cup {} BY <1>4, <1>5
<1>7. World(heap, {}, {}, {}) BY ONLY <1>3, <1>4, <1>5, <1>6 DEF World
<1>8. World(heap, modules, lost, Own(heap, call.fn, Len(call.todo), call.obj))
  BY <1>1, <1>7, NothingOwned
<1>9. IndInv BY <1>1, <1>8 DEF IndInv, CallOK
<1>10. Planned(plan)
  <2>1. plan \in Seq(Calls) /\ Len(plan) = 0 BY ONLY <1>1
  <2> QED BY ONLY <2>1 DEF Planned
<1>11. call.fn = "none" BY <1>1 DEF NoCall
<1>12. ClientInv BY ONLY <1>1, <1>10, <1>11 DEF ClientInv, Readers
<1> QED BY <1>9, <1>12

\* The two invariants together.
LEMMA Invariants == ClientSpec => [](IndInv /\ ClientInv)
<1>1. ClientInit => IndInv /\ ClientInv BY AtFirst
<1>2. IndInv /\ ClientInv /\ [ClientNext]_clientVars => (IndInv /\ ClientInv)'
  BY AfterClient, ClientKept
<1> QED BY <1>1, <1>2, PTL DEF ClientSpec

(* Whatever program calls it, in whatever order and with whatever failures, the
   API lends the C functions only objects that are live, of the kind they
   expect and point into live objects, and destroys each of them once. *)
THEOREM LiveWhenUsed == ClientSpec => []ObjectsLiveWhenUsed
<1>1. IndInv /\ ClientInv => ObjectsLiveWhenUsed BY DEF IndInv, ObjectsLiveWhenUsed
<1> QED BY <1>1, Invariants, PTL

\* What is live between two calls.
LEMMA LiveBetweenCalls ==
    ASSUME IndInv, Idle
    PROVE  Held = HeldBy(modules) \cup {Null} /\ Live = HeldBy(modules) \cup lost
<1>1. World(heap, modules, lost, {}) BY IdleWorld
<1>2. Live = LiveIn(heap) BY DEF Live, LiveIn
<1> QED BY <1>1, <1>2, HeldIs DEF World

(* Between two calls every live object of the heap belongs to a module that the
   program holds, but for those that were left by calls that threw before their
   try block. *)
THEOREM NothingIsLost == ClientSpec => []NothingLost
<1>1. ASSUME IndInv PROVE NothingLost
  <2> SUFFICES ASSUME Idle PROVE Live = (Held \ {Null}) \cup lost BY DEF NothingLost
  <2>1. Held = HeldBy(modules) \cup {Null} /\ Live = HeldBy(modules) \cup lost
    BY <1>1, LiveBetweenCalls
  <2>2. Null \notin HeldBy(modules) BY Addressed DEF HeldBy
  <2> QED BY <2>1, <2>2
<1> QED BY <1>1, Invariants, PTL

(* A demo page that is not compiling holds no module, wherever its last
   compilation failed, so that its heap holds nothing but such leftovers. *)
THEOREM NothingIsHeld == ClientSpec => []PageHoldsNothing
<1>1. ASSUME IndInv, ClientInv PROVE PageHoldsNothing
  <2> SUFFICES ASSUME Page, Idle, ~compiling PROVE modules = {} /\ Live = lost
    BY DEF PageHoldsNothing
  <2>1. modules = {} BY <1>1 DEF ClientInv
  <2>2. Live = HeldBy(modules) \cup lost BY <1>1, LiveBetweenCalls
  <2>3. HeldBy(modules) = {} BY <2>1 DEF HeldBy
  <2> QED BY <2>1, <2>2, <2>3
<1> QED BY <1>1, Invariants, PTL

(* No step of any call changes or frees an object of a module that the program
   holds before and after the step. *)
THEOREM NoModuleIsDisturbed == ClientSpec => ModulesUndisturbed
<1>1. ASSUME IndInv, ClientInv, [ClientNext]_clientVars
      PROVE  \A this \in modules \cap modules' : \A a \in Range(this) \ {Null} :
                heap'[a] = heap[a]
  <2> SUFFICES ASSUME NEW this \in modules, NEW a \in Range(this) \ {Null}
               PROVE  heap'[a] = heap[a]
    OBVIOUS
  <2>1. Calm BY <1>1, AfterClient
  <2>2. this \in [Slots -> Addr \cup {Null}] BY <1>1 DEF IndInv, World, ModuleOK
  <2>3. a \in Addr /\ \E s \in Slots : this[s] = a BY <2>2 DEF Range
  <2>4. a \in HeldBy(modules) BY <2>3 DEF HeldBy, Addresses
  <2> QED BY <2>1, <2>4 DEF Calm
<1>2. IndInv /\ ClientInv /\ [ClientNext]_clientVars =>
         [\A this \in modules \cap modules' : \A a \in Range(this) \ {Null} :
             heap'[a] = heap[a]]_vars
  BY <1>1
<1> QED BY <1>2, Invariants, PTL DEF ClientSpec, ModulesUndisturbed

-----------------------------------------------------------------------------
(* The features that are set, one after the other.                         *)

\* Every set of naturals has a least element: what an induction comes to.
LEMMA Least ==
    ASSUME NEW T, T \subseteq Nat, T # {}
    PROVE  \E x \in T : \A y \in T : x <= y
<1> DEFINE R == {ss \in Nat \X Nat : ss[1] < ss[2]}
<1>1. IsWellFoundedOn(R, Nat) BY NatLessThanWellFounded DEF OpToRel
<1>2. PICK x \in T : \A y \in T : ~(<<y, x>> \in R)
  <2> HIDE DEF R
  <2> QED BY ONLY <1>1, T \subseteq Nat, T # {}, WFMin
<1>3. \A y \in T : x <= y
  <2> TAKE y \in T
  <2>1. x \in Nat /\ y \in Nat OBVIOUS
  <2>2. ~(<<y, x>> \in R) BY <1>2
  <2>3. <<y, x>> \in R <=> y < x BY <2>1
  <2> QED BY ONLY <2>1, <2>2, <2>3
<1> QED BY <1>3

\* What EnabledFeatures is after the first k features.
SetUpTo(on, k, after) ==
    after = [n \in 0..k |-> IF n = 0 THEN Default
                            ELSE SetFeature(after[n - 1], FEATURES[n], FEATURES[n] \in on)]

\* A function by its values.
LEMMA SetUpToIs ==
    ASSUME NEW on, NEW k \in Nat, NEW after
    PROVE  SetUpTo(on, k, after) <=>
             /\ after = [n \in 0..k |-> after[n]]
             /\ after[0] = Default
             /\ \A n \in 1..k :
                   after[n] = SetFeature(after[n - 1], FEATURES[n], FEATURES[n] \in on)
<1> DEFINE G(n) == SetFeature(after[n - 1], FEATURES[n], FEATURES[n] \in on)
<1> HIDE DEF G
<1>1. SetUpTo(on, k, after) <=> after = [n \in 0..k |-> IF n = 0 THEN Default ELSE G(n)]
  BY DEF SetUpTo, G
<1>2. after = [n \in 0..k |-> IF n = 0 THEN Default ELSE G(n)] <=>
        /\ after = [n \in 0..k |-> after[n]]
        /\ after[0] = Default
        /\ \A n \in 1..k : after[n] = G(n)
  <2>1. ASSUME after = [n \in 0..k |-> IF n = 0 THEN Default ELSE G(n)]
        PROVE  /\ after = [n \in 0..k |-> after[n]]
               /\ after[0] = Default
               /\ \A n \in 1..k : after[n] = G(n)
    BY <2>1
  <2>2. ASSUME /\ after = [n \in 0..k |-> after[n]]
               /\ after[0] = Default
               /\ \A n \in 1..k : after[n] = G(n)
        PROVE  after = [n \in 0..k |-> IF n = 0 THEN Default ELSE G(n)]
    <3> DEFINE h == [n \in 0..k |-> IF n = 0 THEN Default ELSE G(n)]
    <3>1. \A n \in 0..k : n = 0 \/ n \in 1..k OBVIOUS
    <3>2. \A n \in 0..k : after[n] = IF n = 0 THEN Default ELSE G(n)
      BY ONLY <2>2, <3>1
    <3>3. h = [n \in 0..k |-> h[n]] /\ \A n \in 0..k : h[n] = after[n] BY ONLY <3>2
    <3> HIDE DEF h
    <3>4. h = after BY ONLY <2>2, <3>3
    <3> QED BY <3>4 DEF h
  <2> QED BY <2>1, <2>2
<1> QED BY ONLY <1>1, <1>2 DEF G

\* There is such a function, however many features there are.
LEMMA SetUpToExists ==
    ASSUME NEW on, NEW N \in Nat
    PROVE  \E after : SetUpTo(on, N, after)
<1> DEFINE T == {k \in Nat : ~\E after : SetUpTo(on, k, after)}
<1> SUFFICES ASSUME T # {} PROVE FALSE OBVIOUS
<1>1. PICK x \in T : \A y \in T : x <= y
  <2>1. T \subseteq Nat OBVIOUS
  <2> HIDE DEF T
  <2> QED BY ONLY <2>1, T # {}, Least
<1>2. x \in Nat /\ ~\E after : SetUpTo(on, x, after) OBVIOUS
<1>3. x # 0
  <2> DEFINE after == [n \in 0..0 |-> Default]
  <2>1. after = [n \in 0..0 |-> after[n]] /\ after[0] = Default OBVIOUS
  <2> HIDE DEF after
  <2>2. \A n \in 1..0 :
           after[n] = SetFeature(after[n - 1], FEATURES[n], FEATURES[n] \in on)
    OBVIOUS
  <2>3. 0 \in Nat OBVIOUS
  <2>4. SetUpTo(on, 0, after) BY ONLY <2>1, <2>2, <2>3, SetUpToIs
  <2> QED BY <1>2, <2>4
<1>4. x - 1 \in Nat /\ ~(x <= x - 1) BY <1>2, <1>3
<1>5. PICK g : SetUpTo(on, x - 1, g) BY <1>1, <1>4
<1> DEFINE after == [n \in 0..x |-> IF n = x
                                    THEN SetFeature(g[x - 1], FEATURES[x], FEATURES[x] \in on)
                                    ELSE g[n]]
<1>6. /\ g[0] = Default
      /\ \A n \in 1..x - 1 : g[n] = SetFeature(g[n - 1], FEATURES[n], FEATURES[n] \in on)
  BY ONLY <1>4, <1>5, SetUpToIs
<1>7. /\ after = [n \in 0..x |-> after[n]]
      /\ after[x] = SetFeature(g[x - 1], FEATURES[x], FEATURES[x] \in on)
      /\ \A n \in 0..x - 1 : after[n] = g[n]
  BY ONLY <1>2, <1>4
<1> HIDE DEF after
<1>8. after[0] = Default BY <1>2, <1>3, <1>6, <1>7
<1>9. ASSUME NEW n \in 1..x
      PROVE  after[n] = SetFeature(after[n - 1], FEATURES[n], FEATURES[n] \in on)
  <2>0. n - 1 \in 0..x - 1 BY ONLY <1>2, n \in 1..x
  <2>1. after[n - 1] = g[n - 1] BY ONLY <2>0, <1>7
  <2>2. CASE n = x BY <1>7, <2>1, <2>2
  <2>3. CASE n # x
    <3>1. n \in 1..x - 1 /\ n \in 0..x - 1 BY <1>2, <2>3
    <3>2. after[n] = g[n] BY ONLY <1>7, <3>1
    <3>3. g[n] = SetFeature(g[n - 1], FEATURES[n], FEATURES[n] \in on) BY ONLY <1>6, <3>1
    <3> QED BY ONLY <2>1, <3>2, <3>3
  <2> QED BY <2>2, <2>3
<1>10. SetUpTo(on, x, after) BY ONLY <1>2, <1>7, <1>8, <1>9, SetUpToIs
<1> QED BY <1>2, <1>10

\* EnabledFeatures is the last value of such a function.
LEMMA EnabledIs ==
    ASSUME NEW on
    PROVE  \E after : SetUpTo(on, Len(FEATURES), after)
                      /\ EnabledFeatures(on) = after[Len(FEATURES)]
<1>1. Len(FEATURES) \in Nat BY LibwabtAssumption
<1> DEFINE after == CHOOSE g : SetUpTo(on, Len(FEATURES), g)
<1>2. SetUpTo(on, Len(FEATURES), after) BY <1>1, SetUpToExists
<1>3. EnabledFeatures(on) = after[Len(FEATURES)]
  BY DEF EnabledFeatures, SetUpTo
<1> QED BY <1>2, <1>3

\* What is enabled when the first n features are set, those of `on' to true.
AskedUpTo(S, on, n) ==
    /\ \A i \in 1..n : FEATURES[i] # "bulk_memory" => (FEATURES[i] \in S <=> FEATURES[i] \in on)
    /\ (\E i \in 1..n : FEATURES[i] = "bulk_memory") =>
          ("bulk_memory" \in S <=> ("bulk_memory" \in on \/ "reference_types" \in S))
    /\ "reference_types" \in S => "bulk_memory" \in S /\ "reference_types" \in on

\* One more feature.
LEMMA AskedOneMore ==
    ASSUME NEW S, NEW on, NEW n \in 1..Len(FEATURES), AskedUpTo(S, on, n - 1)
    PROVE  AskedUpTo(SetFeature(S, FEATURES[n], FEATURES[n] \in on), on, n)
<1> DEFINE f == FEATURES[n]
           set == IF f \in on THEN S \cup {f} ELSE S \ {f}
           G == SetFeature(S, f, f \in on)
           Bulk(k) == \E i \in 1..k : FEATURES[i] = "bulk_memory"
<1>1. n \in Nat /\ n - 1 \in Nat /\ \A i \in 1..n : i = n \/ i \in 1..n - 1
  BY LibwabtAssumption
<1>2. G = IF "reference_types" \in set THEN set \cup {"bulk_memory"} ELSE set
  BY DEF SetFeature
<1>3. "reference_types" \in S => "bulk_memory" \in S /\ "reference_types" \in on
  BY DEF AskedUpTo
<1>4. \A h : h # "bulk_memory" => (h \in G <=> h \in set) BY ONLY <1>2
<1>5. \A h : h # f => (h \in set <=> h \in S) OBVIOUS
<1>6. f \in set <=> f \in on OBVIOUS
<1>7. "reference_types" \in G => "bulk_memory" \in G /\ "reference_types" \in on
  <2> HIDE DEF f, set, G
  <2> QED BY ONLY <1>2, <1>3, <1>4, <1>5, <1>6
<1>8. \A i \in 1..n : FEATURES[i] # "bulk_memory" => (FEATURES[i] \in G <=> FEATURES[i] \in on)
  <2> SUFFICES ASSUME NEW i \in 1..n, FEATURES[i] # "bulk_memory"
               PROVE  FEATURES[i] \in G <=> FEATURES[i] \in on
    OBVIOUS
  <2>1. i = n \/ (i \in 1..n - 1 /\ (FEATURES[i] \in S <=> FEATURES[i] \in on))
    BY <1>1 DEF AskedUpTo
  <2>2. i = n => FEATURES[i] = f OBVIOUS
  <2> HIDE DEF f, set, G
  <2> QED BY ONLY <2>1, <2>2, <1>4, <1>5, <1>6, FEATURES[i] # "bulk_memory"
<1>9. Bulk(n) => ("bulk_memory" \in G <=> ("bulk_memory" \in on \/ "reference_types" \in G))
  <2>1. Bulk(n) => f = "bulk_memory" \/ Bulk(n - 1) BY <1>1
  <2>2. Bulk(n - 1) => ("bulk_memory" \in S <=> ("bulk_memory" \in on \/ "reference_types" \in S))
    BY DEF AskedUpTo
  <2> HIDE DEF f, set, G, Bulk
  <2>3. CASE f = "bulk_memory"
    <3>1. "bulk_memory" \in set <=> "bulk_memory" \in on BY ONLY <1>6, <2>3
    <3> QED BY ONLY <1>2, <3>1
  <2>4. CASE f # "bulk_memory"
    <3>1. "bulk_memory" \in set <=> "bulk_memory" \in S BY ONLY <1>5, <2>4
    <3>2. "reference_types" \in S => "reference_types" \in set
      BY ONLY <1>3, <1>5, <1>6
    <3> QED BY ONLY <1>2, <1>3, <2>1, <2>2, <2>4, <3>1, <3>2
  <2> QED BY <2>3, <2>4
<1> QED BY ONLY <1>7, <1>8, <1>9 DEF AskedUpTo, G, Bulk, f

\* feature.def turns no feature on at first that turns another on.
ReferenceTypesOff == "reference_types" \notin Default

\* After all of them.
LEMMA EnabledAsAsked ==
    ASSUME ReferenceTypesOff, NEW on
    PROVE  AskedUpTo(EnabledFeatures(on), on, Len(FEATURES))
<1> DEFINE N == Len(FEATURES)
<1>1. N \in Nat BY LibwabtAssumption
<1>2. PICK after : SetUpTo(on, N, after) /\ EnabledFeatures(on) = after[N] BY EnabledIs
<1> HIDE DEF N
<1>3. /\ after[0] = Default
      /\ \A n \in 1..N :
            after[n] = SetFeature(after[n - 1], FEATURES[n], FEATURES[n] \in on)
  BY ONLY <1>1, <1>2, SetUpToIs
<1> DEFINE T == {n \in Nat : n <= N /\ ~AskedUpTo(after[n], on, n)}
<1>4. T = {}
  <2> SUFFICES ASSUME T # {} PROVE FALSE OBVIOUS
  <2>1. PICK x \in T : \A y \in T : x <= y
    <3>1. T \subseteq Nat OBVIOUS
    <3> HIDE DEF T
    <3> QED BY ONLY <3>1, T # {}, Least
  <2>2. x \in Nat /\ x <= N /\ ~AskedUpTo(after[x], on, x) OBVIOUS
  <2>3. x # 0
    <3>1. 1..0 = {} OBVIOUS
    <3>2. AskedUpTo(Default, on, 0) BY ONLY <3>1, ReferenceTypesOff DEF AskedUpTo, ReferenceTypesOff
    <3> QED BY ONLY <1>3, <2>2, <3>2
  <2>4. x - 1 \in Nat /\ x - 1 <= N /\ ~(x <= x - 1) /\ x \in 1..N BY <1>1, <2>2, <2>3
  <2>5. AskedUpTo(after[x - 1], on, x - 1) BY <2>1, <2>4
  <2> HIDE DEF T
  <2>6. AskedUpTo(SetFeature(after[x - 1], FEATURES[x], FEATURES[x] \in on), on, x)
    BY ONLY <2>4, <2>5, AskedOneMore DEF N
  <2>7. after[x] = SetFeature(after[x - 1], FEATURES[x], FEATURES[x] \in on)
    BY ONLY <1>3, <2>4
  <2> QED BY ONLY <2>2, <2>6, <2>7
<1>5. AskedUpTo(after[N], on, N) BY <1>1, <1>4
<1> QED BY ONLY <1>2, <1>5 DEF N

\* What the property says of the features that are set.
AsAsked(enabled, named, on) ==
    /\ \A f \in named \ {"bulk_memory"} : f \in enabled <=> f \in on
    /\ "bulk_memory" \in named =>
          ("bulk_memory" \in enabled <=> {"bulk_memory", "reference_types"} \cap on # {})
    /\ "reference_types" \in enabled => "bulk_memory" \in enabled

\* What the property asks follows, of features there are.
LEMMA SetAsAsked ==
    ASSUME ReferenceTypesOff, NEW on, NEW named, named \subseteq Range(FEATURES)
    PROVE  AsAsked(EnabledFeatures(on), named, on)
<1> DEFINE S == EnabledFeatures(on)
           N == Len(FEATURES)
<1>1. AskedUpTo(S, on, N) BY EnabledAsAsked
<1>2. \A f \in Range(FEATURES) : \E i \in 1..N : FEATURES[i] = f
  BY LibwabtAssumption DEF Range
<1>3. "reference_types" \in Range(FEATURES) BY LibwabtAssumption
<1> HIDE DEF S, N
<1>4. /\ \A i \in 1..N : FEATURES[i] # "bulk_memory" =>
                            (FEATURES[i] \in S <=> FEATURES[i] \in on)
      /\ (\E i \in 1..N : FEATURES[i] = "bulk_memory") =>
            ("bulk_memory" \in S <=> ("bulk_memory" \in on \/ "reference_types" \in S))
      /\ "reference_types" \in S => "bulk_memory" \in S
  BY ONLY <1>1 DEF AskedUpTo
<1>5. \A f \in Range(FEATURES) \ {"bulk_memory"} : f \in S <=> f \in on
  BY ONLY <1>2, <1>4
<1>6. "reference_types" \in S <=> "reference_types" \in on BY ONLY <1>3, <1>5
<1>7. "bulk_memory" \in Range(FEATURES) =>
         ("bulk_memory" \in S <=> {"bulk_memory", "reference_types"} \cap on # {})
  BY ONLY <1>2, <1>4, <1>6
<1> QED BY ONLY <1>4, <1>5, <1>7, named \subseteq Range(FEATURES) DEF AsAsked, S

-----------------------------------------------------------------------------
(* The step after `features' is the one that uses them.                    *)

\* The options of a call name features only.
OptionsInv == call.options.named \subseteq Range(FEATURES)

\* Where the features are used: right after they have been set.
Uses(fn, n) ==
    \/ fn = "parseWat" /\ n = 5
    \/ fn = "readWasm" /\ n = 6
    \/ fn = "validate" /\ n = 2

\* No step but the one after `features' uses them.
LEMMA UsesFeatures ==
    ASSUME NEW fn \in DOMAIN Fn, NEW todo, Rest(fn, todo), todo # << >>,
           Head(todo) \in {"parse", "read", "validate"}
    PROVE  Uses(fn, Len(todo))
<1>1. Place(Head(todo), fn, Len(todo)) BY Where
<1> DEFINE n == Len(todo)
           step == Head(todo)
<1> HIDE DEF n, step
<1>2. Place(step, fn, n) BY <1>1 DEF n, step
<1>3. step = "parse" \/ step = "read" \/ step = "validate" BY DEF step
<1>4. Uses(fn, n) BY ONLY <1>2, <1>3 DEF Place, Uses
<1> QED BY <1>4 DEF n

\* A step that leaves the features as they are, and asks for no others.
Aside == /\ call' = NoCall \/ call'.options = call.options
         /\ ~WithFeatures'

\* A call that goes on from another step.
LEMMA AsideOn ==
    ASSUME IndInv, NEW step, At(step), step # "features", NEW p, Go(Tail(call.todo), p)
    PROVE  Aside
<1> DEFINE fn == call.fn
           n == Len(call.todo)
           t == Tail(call.todo)
<1>1. Going /\ Rest(fn, t) /\ Len(t) = n - 1 /\ n \in Nat BY AtStep
<1>2. call = [fn |-> call.fn, todo |-> call.todo, obj |-> call.obj, options |-> call.options,
              input |-> call.input] /\ fn \in DOMAIN Fn /\ Rest(fn, call.todo)
  BY <1>1 DEF Going
<1>3. call'.fn = fn /\ call'.todo = t /\ call'.options = call.options
  BY ONLY <1>2, Go(Tail(call.todo), p) DEF Go
<1>4. call.todo # << >> /\ step = Head(call.todo) BY DEF At
<1>5. step = StepAt(fn, n)
  <2>1. call.todo \in Seq(StepNames) /\ Len(call.todo) \in Nat BY <1>2 DEF Rest
  <2>2. 1 \in 1..n /\ step = call.todo[1] /\ n + 1 - 1 = n BY <1>4, <2>1
  <2>3. call.todo[1] = StepAt(fn, n + 1 - 1) BY <1>2, <2>2 DEF Rest
  <2> QED BY ONLY <2>2, <2>3
<1> HIDE DEF fn, n, t
<1>6. ~(t # << >> /\ Head(t) \in {"parse", "read", "validate"})
  <2> SUFFICES ASSUME t # << >>, Head(t) \in {"parse", "read", "validate"} PROVE FALSE
    OBVIOUS
  <2>1. Uses(fn, n - 1) BY ONLY <1>1, <1>2, t # << >>, Head(t) \in {"parse", "read", "validate"},
                           UsesFeatures
  <2>2. \/ fn = "parseWat" /\ n = 6
        \/ fn = "readWasm" /\ n = 7
        \/ fn = "validate" /\ n = 3
    BY ONLY <1>1, <2>1 DEF Uses
  <2>3. StepAt(fn, n) = "features"
    BY ONLY <2>2, Steps_parseWat, Steps_readWasm, Steps_validate
  <2> QED BY ONLY <1>5, <2>3, step # "features"
<1> QED BY ONLY <1>3, <1>6 DEF Aside, WithFeatures

\* A call that throws.
LEMMA AsideOut ==
    ASSUME IndInv, NEW step, At(step), Throw,
           InSetupAt(call.fn, Len(call.todo)) \/ \E k : InTryAt(call.fn, Len(call.todo), k)
    PROVE  Aside
<1>1. Going BY AtStep
<1>2. CASE InSetupAt(call.fn, Len(call.todo))
  <2>1. ~InTry BY <1>2, Uncaught DEF InTry
  <2>2. call' = NoCall BY <2>1 DEF Throw
  <2>3. NoCall.todo = << >> BY DEF NoCall
  <2> QED BY ONLY <2>2, <2>3 DEF Aside, WithFeatures
<1>3. ASSUME NEW k, InTryAt(call.fn, Len(call.todo), k)
      PROVE  Aside
  <2>1. /\ Len(Fn[call.fn].cleanup) = k /\ InTry /\ Rest(call.fn, Fn[call.fn].cleanup)
    BY <1>3, Caught DEF InTry
  <2>2. call' = [call EXCEPT !.todo = Fn[call.fn].cleanup] BY <2>1 DEF Throw
  <2>3. call = [fn |-> call.fn, todo |-> call.todo, obj |-> call.obj, options |-> call.options,
                input |-> call.input] /\ call.fn \in DOMAIN Fn
    BY <1>1 DEF Going
  <2>4. call'.options = call.options /\ call'.todo = Fn[call.fn].cleanup BY ONLY <2>2, <2>3
  <2> DEFINE fn == call.fn
             t == Fn[call.fn].cleanup
             n == Len(call.todo)
  <2>5. InTryAt(fn, n, k) /\ Rest(fn, t) /\ Len(t) = k /\ fn \in DOMAIN Fn BY <1>3, <2>1, <2>3
  <2>6. call'.todo = t BY <2>4
  <2> HIDE DEF fn, t, n
  <2>7. ~Uses(fn, k) BY ONLY <2>5 DEF InTryAt, Uses
  <2>8. ~(t # << >> /\ Head(t) \in {"parse", "read", "validate"})
    BY ONLY <2>5, <2>7, UsesFeatures
  <2> QED BY ONLY <2>4, <2>6, <2>8 DEF Aside, WithFeatures
<1> QED BY <1>2, <1>3

\* Every step of a call but that which sets the features.
LEMMA AsideStep ==
    ASSUME IndInv, Step
    PROVE  NewFeatures \/ Aside
<1>1. ASSUME NEW step, At(step), ThrowAt, InSetupAt(call.fn, Len(call.todo))
      PROVE  Aside
  <2>1. Throw BY <1>1 DEF ThrowAt
  <2> QED BY ONLY IndInv, <1>1, <2>1, AsideOut
<1>2. ASSUME NEW slot, slot # "features", At(slot), NEW o, New(slot, o)
      PROVE  Aside
  <2>1. \E p : Go(Tail(call.todo), p) BY <1>2 DEF New, Assign
  <2> QED BY ONLY IndInv, <1>2, <2>1, AsideOn
<1>3. ASSUME NEW step, step # "features", At(step), Continue
      PROVE  Aside
  <2>1. Go(Tail(call.todo), call.obj) BY <1>3 DEF Continue
  <2> QED BY ONLY IndInv, <1>3, <2>1, AsideOn
<1>4. CASE AllocateCString \/ AllocateBuffer
  <2>1. PICK slot \in {"filename", "buffer"} :
           At(slot) /\ (ThrowAt \/ \E o : New(slot, o))
    BY Zenon, <1>4 DEF AllocateCString, AllocateBuffer
  <2>2. Place(slot, call.fn, Len(call.todo)) BY <2>1, SetupFacts
  <2>3. InSetupAt(call.fn, Len(call.todo)) BY <2>2 DEF Place, InSetupAt
  <2>4. slot # "features" OBVIOUS
  <2> QED BY ONLY <1>1, <1>2, <2>1, <2>3, <2>4
<1>5. CASE NewLexer \/ NewErrors
  <2>1. \E slot : slot \in {"lexer", "errors"} /\ At(slot) /\ \E o : New(slot, o)
    BY <1>5 DEF NewLexer, NewErrors
  <2> QED BY ONLY <1>2, <2>1
<1>6. CASE ReadOptions
  <2>1. At("options") /\ (ThrowAt \/ Continue) BY <1>6 DEF ReadOptions
  <2>2. Place("options", call.fn, Len(call.todo)) BY <2>1, SetupFacts
  <2>3. InSetupAt(call.fn, Len(call.todo)) BY <2>2 DEF Place, InSetupAt
  <2> QED BY ONLY <1>1, <1>3, <2>1, <2>3
<1>7. CASE ParseWat \/ ReadBinary \/ WriteModule
  <2>1. \E step, p : step \in {"parse", "read", "write"} /\ At(step) /\ Go(Tail(call.todo), p)
    BY <1>7 DEF ParseWat, ReadBinary, MakeModule, WriteModule, Assign
  <2>2. "features" \notin {"parse", "read", "write"} OBVIOUS
  <2> QED BY ONLY IndInv, <2>1, <2>2, AsideOn
<1>8. CASE Wrap
  <2>1. At("wrap") BY <1>8 DEF Wrap
  <2>2. Place("wrap", call.fn, Len(call.todo)) BY <2>1, SetupFacts
  <2>3. \E k : InTryAt(call.fn, Len(call.todo), k) BY <2>2 DEF Place, InTryAt
  <2>4. Throw \/ \E p : Go(Tail(call.todo), p) BY <1>8 DEF Wrap, WrapModule, Assign
  <2>5. "wrap" # "features" OBVIOUS
  <2> QED BY ONLY IndInv, <2>1, <2>3, <2>4, <2>5, AsideOn, AsideOut
<1>9. CASE Validate
  <2>1. At("validate") /\ (Continue \/ Throw) BY <1>9 DEF Validate
  <2>2. Place("validate", call.fn, Len(call.todo)) BY <2>1, SetupFacts
  <2>3. \E k : InTryAt(call.fn, Len(call.todo), k) BY <2>2 DEF Place, InTryAt
  <2>4. "validate" # "features" OBVIOUS
  <2> QED BY ONLY IndInv, <1>3, <2>1, <2>3, <2>4, AsideOut
<1>10. CASE Names
  <2>1. At("names") /\ (Continue \/ Throw) BY <1>10 DEF Names
  <2>2. Place("names", call.fn, Len(call.todo)) BY <2>1, SetupFacts
  <2>3. InSetupAt(call.fn, Len(call.todo)) BY <2>2 DEF Place, InSetupAt
  <2>4. "names" # "features" OBVIOUS
  <2> QED BY ONLY IndInv, <1>3, <2>1, <2>3, <2>4, AsideOut
<1>11. CASE TakeOutput("output") \/ TakeOutput("log")
  <2>1. PICK slot \in {"output", "log"} : TakeOutput(slot) BY <1>11
  <2>2. At(slot) /\ (Throw \/ \E p : Go(Tail(call.todo), p))
    BY Zenon, <2>1 DEF TakeOutput, Assign
  <2>3. Place(slot, call.fn, Len(call.todo)) BY <2>2, SetupFacts
  <2>4. \E k : InTryAt(call.fn, Len(call.todo), k) BY <2>3 DEF Place, InTryAt
  <2>5. slot # "features" OBVIOUS
  <2> QED BY ONLY IndInv, <2>2, <2>4, <2>5, AsideOn, AsideOut
<1>12. CASE Convert
  <2>1. At("convert") /\ Continue BY <1>12 DEF Convert
  <2>2. "convert" # "features" OBVIOUS
  <2> QED BY ONLY <1>3, <2>1, <2>2
<1>13. CASE DestroyLocal
  <2>1. \E step : step # "features" /\ At(step) /\ Continue
    BY <1>13 DEF DestroyLocal, DestroyErrors, Dispose
  <2> QED BY ONLY <1>3, <2>1
<1>14. CASE Return
  <2>1. call' = NoCall /\ NoCall.todo = << >> BY <1>14 DEF Return, NoCall
  <2> QED BY ONLY <2>1 DEF Aside, WithFeatures
<1>15. CASE NewFeatures BY <1>15
<1> QED
  BY <1>4, <1>5, <1>6, <1>7, <1>8, <1>9, <1>10, <1>11, <1>12, <1>13, <1>14, <1>15, Step DEF Step

\* The step that sets them.
LEMMA FeaturesSet ==
    ASSUME IndInv, OptionsInv, ReferenceTypesOff, NewFeatures
    PROVE  FeaturesAsAsked' /\ OptionsInv'
<1> DEFINE on == call.options.on
           o == Object("features", {}, {}, EnabledFeatures(on))
           a == Fresh(heap)
<1>1. /\ HasRoom(heap) /\ heap' = Alloc(heap, o)
      /\ call' = [call EXCEPT !.todo = Tail(call.todo),
                              !.obj = [call.obj EXCEPT !["features"] = a]]
  BY DEF NewFeatures, New, Assign, Go
<1>2. Going BY SetupFacts DEF NewFeatures
<1>3. /\ call = [fn |-> call.fn, todo |-> call.todo, obj |-> call.obj, options |-> call.options,
                 input |-> call.input]
      /\ call.obj \in [Slots -> Addr \cup {Null}]
  BY <1>2, GoingFacts DEF Going
<1>4. call'.options = call.options /\ call'.obj["features"] = a
  <2>1. "features" \in Slots BY DEF Slots
  <2>2. call'.options = call.options /\ call'.obj = [call.obj EXCEPT !["features"] = a]
    BY ONLY <1>1, <1>3
  <2> QED BY ONLY <1>3, <2>1, <2>2
<1>5. heap'[a] = o
  <2>1. a \in Addr BY <1>1 DEF HasRoom, Fresh
  <2>2. heap = [b \in Addr |-> heap[b]] BY DEF IndInv, World
  <2> QED BY ONLY <1>1, <2>1, <2>2 DEF Alloc
<1>6. o.content = EnabledFeatures(on) BY DEF Object
<1> DEFINE enabled == heap'[call'.obj["features"]].content
           named == call'.options.named
<1>7. enabled = EnabledFeatures(on) BY ONLY <1>4, <1>5, <1>6
<1>8. named \subseteq Range(FEATURES) /\ named = call.options.named /\ call'.options.on = on
  BY <1>4 DEF OptionsInv
<1> HIDE DEF enabled, named
<1>9. AsAsked(enabled, named, call'.options.on)
  <2>1. AsAsked(EnabledFeatures(on), named, on) BY <1>8, SetAsAsked
  <2> QED BY ONLY <1>7, <1>8, <2>1
<1>10. FeaturesAsAsked' BY <1>9 DEF FeaturesAsAsked, AsAsked, enabled, named
<1>11. OptionsInv' BY <1>8 DEF OptionsInv, named
<1> QED BY <1>10, <1>11

\* A call that begins has not set them yet.
LEMMA FeaturesNotYet ==
    ASSUME IndInv', NEW fn \in DOMAIN Fn, NEW obj, NEW options, NEW input,
           Begin(fn, obj, options, input), options.named \subseteq Range(FEATURES)
    PROVE  OptionsInv' /\ ~WithFeatures'
<1> DEFINE c == call'
<1>1. c = [fn |-> fn, todo |-> Program(fn), obj |-> obj, options |-> options, input |-> input]
  BY DEF Begin, Program
<1>2. c.fn = fn /\ c.todo = Program(fn) /\ c.options = options BY ONLY <1>1
<1>3. c = NoCall \/ Rest(c.fn, c.todo) BY DEF IndInv, CallOK
<1>4. NoCall.todo = << >> BY DEF NoCall
<1> HIDE DEF c
<1>5. OptionsInv' BY <1>2 DEF OptionsInv, c
<1>6. ~(c.todo # << >> /\ Head(c.todo) \in {"parse", "read", "validate"})
  <2> SUFFICES ASSUME c.todo # << >>, Head(c.todo) \in {"parse", "read", "validate"}
               PROVE  FALSE
    OBVIOUS
  <2>1. Rest(fn, c.todo) BY <1>2, <1>3, <1>4
  <2>2. Uses(fn, Len(Program(fn))) BY <1>2, <2>1, UsesFeatures
  <2> DEFINE n == Len(Program(fn))
  <2>3. /\ fn = "parseWat" => n = 10
        /\ fn = "readWasm" => n = 10
        /\ fn = "validate" => n = 3
    BY Steps_parseWat, Steps_readWasm, Steps_validate
  <2>4. Uses(fn, n) BY <2>2
  <2> HIDE DEF n
  <2> QED BY ONLY <2>3, <2>4 DEF Uses
<1> QED BY <1>5, <1>6 DEF WithFeatures, c

\* Every step of a program.
LEMMA FeaturesKept ==
    ASSUME IndInv, ClientInv, OptionsInv, FeaturesAsAsked, ReferenceTypesOff,
           [ClientNext]_clientVars
    PROVE  FeaturesAsAsked' /\ OptionsInv'
<1>1. IndInv' BY AfterClient
<1>2. ~WithFeatures' => FeaturesAsAsked' BY DEF FeaturesAsAsked
<1>3. NoCall.todo = << >> /\ NoCall.options.named = {} BY DEF NoCall, Undefined
<1>4. CASE UNCHANGED <<heap, call>>
  BY <1>4 DEF OptionsInv, FeaturesAsAsked, WithFeatures
<1>5. CASE BeginCompile
  <2>1. call' = NoCall BY <1>5 DEF BeginCompile, Idle
  <2>2. ~WithFeatures' /\ OptionsInv' BY <1>3, <2>1 DEF WithFeatures, OptionsInv
  <2> QED BY ONLY <1>2, <2>2
<1>6. CASE NextCall
  <2>1. compiling /\ plan # << >> BY <1>6 DEF NextCall
  <2>2. Planned(plan) BY <2>1 DEF ClientInv
  <2>3. Head(plan) \in Calls BY <2>1, <2>2, PlanTail
  <2>4. Head(plan).fn \in DOMAIN Fn /\ Head(plan).options.named \subseteq Range(FEATURES)
    BY <2>3 DEF Calls, OptionRecords
  <2>5. \E obj, input : Begin(Head(plan).fn, obj, Head(plan).options, input)
    BY Zenon, <1>6 DEF NextCall, CallReader, CallMethod
  <2> QED BY ONLY <1>1, <1>2, <2>4, <2>5, FeaturesNotYet
<1>7. CASE Finally
  <2>1. UNCHANGED vars \/ \E this, input : Begin("destroy", this, Undefined, input)
    BY Zenon, <1>7 DEF Finally, CallMethod
  <2>2. "destroy" \in DOMAIN Fn BY DEF Fn
  <2>3. Undefined.named \subseteq Range(FEATURES) BY DEF Undefined
  <2>4. UNCHANGED vars => UNCHANGED <<heap, call>> BY DEF vars
  <2>5. CASE \E this, input : Begin("destroy", this, Undefined, input)
    <3>1. OptionsInv' /\ ~WithFeatures' BY ONLY <1>1, <2>2, <2>3, <2>5, FeaturesNotYet
    <3> QED BY ONLY <1>2, <3>1
  <2>6. CASE UNCHANGED vars BY ONLY <1>4, <2>4, <2>6
  <2> QED BY ONLY <2>1, <2>5, <2>6
<1>8. CASE CallSomething
  <2>1. \A fn : \A options \in OptionsOf(fn) : options.named \subseteq Range(FEATURES)
    <3> TAKE fn
    <3> TAKE options \in OptionsOf(fn)
    <3>1. Undefined.named = {} BY DEF Undefined
    <3>2. \A o \in Options : o.named \subseteq Range(FEATURES)
      <4> TAKE o \in Options
      <4>1. CASE o = Undefined BY ONLY <3>1, <4>1
      <4>2. CASE o \in [defined : {TRUE}, named : SUBSET Range(FEATURES),
                        on : SUBSET Range(FEATURES), log : BOOLEAN]
        BY ONLY <4>2
      <4> QED BY <4>1, <4>2 DEF Options
    <3>3. options \in Options \/ options = Undefined
      <4> HIDE DEF Options, Undefined
      <4>1. CASE fn \in {"parseWat", "readWasm", "validate"} BY Zenon, <4>1 DEF OptionsOf
      <4>2. CASE fn \in {"toText", "toBinary"} BY <4>2 DEF OptionsOf
      <4>3. CASE fn \notin {"parseWat", "readWasm", "validate", "toText", "toBinary"}
        BY <4>3 DEF OptionsOf
      <4> QED BY <4>1, <4>2, <4>3
    <3> QED BY ONLY <3>1, <3>2, <3>3
  <2>2. \/ UNCHANGED vars
        \/ \E fn \in Readers, input \in Inputs : \E options \in OptionsOf(fn) :
              Begin(fn, NoAddresses, options, input)
        \/ \E fn \in (DOMAIN Fn) \ Readers, this \in modules : \E options \in OptionsOf(fn) :
              Begin(fn, this, options, NoInput)
    BY Zenon, <1>8 DEF CallSomething, CallReader, CallMethod
  <2>3. UNCHANGED vars => UNCHANGED <<heap, call>> BY DEF vars
  <2>4. Readers \subseteq DOMAIN Fn BY DEF Readers, Fn
  <2>5. UNCHANGED vars \/ \E fn \in DOMAIN Fn : \E obj, input : \E options \in OptionsOf(fn) :
                             Begin(fn, obj, options, input)
    BY ONLY <2>2, <2>4
  <2> QED BY ONLY <1>1, <1>2, <1>4, <2>1, <2>3, <2>5, FeaturesNotYet
<1>9. CASE Step
  <2>1. CASE NewFeatures BY ONLY IndInv, OptionsInv, ReferenceTypesOff, <2>1, FeaturesSet
  <2>2. CASE Aside
    <3>1. OptionsInv' BY <1>3, <2>2 DEF Aside, OptionsInv
    <3> QED BY ONLY <1>2, <2>2, <3>1 DEF Aside
  <2> QED BY ONLY IndInv, <1>9, <2>1, <2>2, AsideStep
<1>10. UNCHANGED clientVars => UNCHANGED <<heap, call>> BY DEF clientVars, vars
<1> QED BY <1>4, <1>5, <1>6, <1>7, <1>8, <1>9, <1>10 DEF ClientNext

(* Every text is parsed, and every binary and module read and validated, with
   the features that the options ask for and those these need, whatever the
   order in which Features sets them, however many there are, and whichever are
   on at first, as long as reference types are not: turning those off leaves
   bulk memory on. *)
THEOREM FeaturesAlwaysAsAsked == ReferenceTypesOff => (ClientSpec => []FeaturesAsAsked)
<1> SUFFICES ASSUME ReferenceTypesOff PROVE ClientSpec => []FeaturesAsAsked OBVIOUS
<1>1. ClientInit => FeaturesAsAsked /\ OptionsInv
  BY DEF ClientInit, Init, FeaturesAsAsked, WithFeatures, OptionsInv, NoCall, Undefined
<1>2. IndInv /\ ClientInv /\ FeaturesAsAsked /\ OptionsInv /\ [ClientNext]_clientVars
      => (FeaturesAsAsked /\ OptionsInv)'
  BY FeaturesKept
<1> QED BY <1>1, <1>2, Invariants, PTL DEF ClientSpec
=============================================================================
