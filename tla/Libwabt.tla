------------------------------ MODULE Libwabt -------------------------------
(***************************************************************************)
(* The JavaScript API of libwabt (src/wabt.post.js) over the C functions   *)
(* of src/emscripten-helpers.cc.  Everything JavaScript holds of a module  *)
(* is an address in the heap of the C code, which knows no garbage         *)
(* collection: each function of the API creates native objects, lends them *)
(* to a C function, hands some over to the WasmModule it returns, and must *)
(* destroy the others, also when it throws.                                *)
(*                                                                         *)
(* JavaScript runs one call at a time to its end.  A function is a list of *)
(* steps in three parts: a throw in the first leaves the function, one in  *)
(* the second (its try block) goes to the last (its finally block).  What  *)
(* the C functions compute is left open: they succeed or they fail.        *)
(*                                                                         *)
(* `lost' and `misused' are not in the code: what calls that threw left    *)
(* behind, and whether a C function was ever given an address that is not  *)
(* of a live object of its kind.                                           *)
(***************************************************************************)
EXTENDS Integers, Sequences, FiniteSets, Functions

CONSTANTS
    FEATURES,    \* the features, in the order of the table of wabt.post.js
    Default,     \* those that feature.def turns on
    Inputs,      \* [type, bytes, backing, width] of what a program may pass
    MaxAddr,     \* bounds of the model: addresses of the heap,
    MaxModules,  \* WasmModules that a program holds,
    MaxLost      \* calls that throw and leave something behind

ASSUME LibwabtAssumption ==
    /\ FEATURES \in Seq(STRING)
    /\ {"mutable_globals", "bulk_memory", "reference_types"} \subseteq Range(FEATURES)
    /\ Default \subseteq Range(FEATURES)
    /\ Inputs \subseteq [type : {"ArrayBuffer", "view", "DataView", "string", "other"},
                         bytes : Nat, backing : Nat, width : Nat \ {0}]
    /\ {MaxAddr, MaxModules, MaxLost} \subseteq Nat

VARIABLES
    heap,     \* per address, the native object there
    modules,  \* the WasmModules the program holds: addresses by name
    call,     \* the call under way
    threw,    \* the last call has thrown
    lost,     \* ghost: addresses nobody can free any more
    throws,   \* ghost: number of calls that left something in `lost'
    misused   \* ghost

vars == <<heap, modules, call, threw, lost, throws, misused>>

Addr == 1..MaxAddr

Null == 0

\* What a call's variables name, and the kind of object each must lead to.
Slots == {"filename", "buffer", "lexer", "errors", "features", "result",
          "module", "output", "log"}

KindOf(slot) == CASE slot \in {"filename", "buffer"} -> "malloc"
                  [] slot \in {"output", "log"} -> "OutputBuffer"
                  [] OTHER -> slot

NoAddresses == [slot \in Slots |-> Null]

\* An object with the objects it points into, those it owns (unique_ptr), and
\* the content that a property is about.
Object(kind, uses, owns, content) ==
    [kind |-> kind, uses |-> uses, owns |-> owns, content |-> content]

Free == Object("free", {}, {}, << >>)

-----------------------------------------------------------------------------
(* The heap.                                                               *)

Live == {a \in Addr : heap[a].kind # "free"}

\* Of a heap that is full, malloc of the API throws, and C++ aborts the program.
HasRoom(h) == \E a \in Addr : h[a].kind = "free"

Fresh(h) == CHOOSE a \in Addr : h[a].kind = "free"

Alloc(h, object) == [h EXCEPT ![Fresh(h)] = object]

\* A C function follows the pointers of what it is given.
Reach(a) == {a} \cup heap[a].uses \cup UNION {heap[b].uses : b \in heap[a].uses}

Usable(slot) ==
    LET a == call.obj[slot]
    IN  a \in Live /\ heap[a].kind = KindOf(slot) /\ Reach(a) \subseteq Live

\* The C function of this step is lent the objects that these variables name.
Lend(slots) == misused' = (misused \/ \E slot \in slots : ~Usable(slot))

\* Each of these is destroyed, with all that it owns; null is destroyed by
\* doing nothing.
Destroyed(slots) ==
    LET given == {call.obj[slot] : slot \in slots} \ {Null}
    IN  given \cup UNION {heap[a].owns : a \in given}

Destroy(slots) ==
    /\ heap' = [a \in Addr |-> IF a \in Destroyed(slots) THEN Free ELSE heap[a]]
    /\ misused' = (misused \/ \E slot \in slots : /\ call.obj[slot] # Null
                                                  /\ heap[call.obj[slot]].kind # KindOf(slot))

-----------------------------------------------------------------------------
(* Calls.                                                                  *)

\* A function: its steps before its try block, in it and in its finally block.
\* A "~" step destroys; ~errors destroys the lexer too, when there is one.
Function(setup, body, cleanup) == [setup |-> setup, body |-> body, cleanup |-> cleanup]

\* Mutant: the text goes when parseWat ends, as the binary does in readWasm.
ParseWatFnFreesText ==
    Function(<<"filename", "buffer", "lexer", "errors", "features">>,
             <<"parse", "wrap">>,
             <<"~result", "~features", "~errors", "~buffer">>)

ParseWatFn ==
    Function(<<"filename", "buffer", "lexer", "errors", "features">>,
             <<"parse", "wrap">>,
             <<"~result", "~features", "~errors">>)

ReadWasmFn ==
    Function(<<"buffer", "errors", "options", "features">>,
             <<"read", "wrap">>,
             <<"~result", "~features", "~errors", "~buffer">>)

ValidateFn == Function(<<"features">>, <<"validate">>, <<"~features">>)

ResolveNamesFn == Function(<<"names">>, << >>, << >>)
GenerateNamesFn == Function(<<"names">>, << >>, << >>)
ApplyNamesFn == Function(<<"names">>, << >>, << >>)

ToTextFn ==
    Function(<<"options", "write">>, <<"output", "convert">>, <<"~output", "~result">>)

ToBinaryFn ==
    Function(<<"options", "write">>, <<"output", "log", "convert">>,
             <<"~output", "~log", "~result">>)

DestroyFn == Function(<< >>, << >>, <<"~module", "~errors">>)

Fn == [parseWat |-> ParseWatFn, readWasm |-> ReadWasmFn, validate |-> ValidateFn,
       resolveNames |-> ResolveNamesFn, generateNames |-> GenerateNamesFn,
       applyNames |-> ApplyNamesFn, toText |-> ToTextFn, toBinary |-> ToBinaryFn,
       destroy |-> DestroyFn]

Readers == {"parseWat", "readWasm"}

Undefined == [defined |-> FALSE, named |-> {}, on |-> {}, log |-> FALSE]

\* The options object: the features it names, those it names with a true
\* value, and log.
Options ==
    {Undefined} \cup
    {o \in [defined : {TRUE}, named : SUBSET Range(FEATURES),
            on : SUBSET Range(FEATURES), log : BOOLEAN] : o.on \subseteq o.named}

\* What a function looks at.
OptionsOf(fn) ==
    CASE fn \in {"parseWat", "readWasm", "validate"} -> {o \in Options : ~o.log}
      [] fn \in {"toText", "toBinary"} -> {o \in Options : o.named = {}}
      [] OTHER -> {Undefined}

NoInput == [type |-> "none", bytes |-> 0, backing |-> 0, width |-> 1]

NoCall == [fn |-> "none", todo |-> << >>, obj |-> NoAddresses,
           options |-> Undefined, input |-> NoInput]

Idle == call = NoCall

Begin(fn, obj, options, input) ==
    /\ Idle
    /\ call' = [fn |-> fn, todo |-> Fn[fn].setup \o Fn[fn].body \o Fn[fn].cleanup,
                obj |-> obj, options |-> options, input |-> input]
    /\ threw' = FALSE
    /\ UNCHANGED <<heap, lost, throws, misused>>

CallReader(fn, options, input) ==
    /\ Cardinality(modules) < MaxModules
    /\ throws < MaxLost
    /\ Begin(fn, NoAddresses, options, input)
    /\ UNCHANGED modules

\* A method of a WasmModule.
CallMethod(fn, this, options) ==
    /\ this \in modules
    /\ Begin(fn, this, options, NoInput)
    /\ modules' = IF fn = "destroy" THEN modules \ {this} ELSE modules

At(step) == call.todo # << >> /\ Head(call.todo) = step

Go(todo, obj) ==
    /\ call' = [call EXCEPT !.todo = todo, !.obj = obj]
    /\ UNCHANGED threw

\* On to the next step, with this variable set.
Assign(slot, a) == Go(Tail(call.todo), [call.obj EXCEPT ![slot] = a])

Continue == Go(Tail(call.todo), call.obj)

Held == {Null} \cup UNION {Range(m) : m \in modules}

InTry == Len(call.todo) <= Len(Fn[call.fn].body \o Fn[call.fn].cleanup)

Throw ==
    LET left == Range(call.obj) \ Held
    IN  /\ threw' = TRUE
        /\ IF InTry
           THEN /\ call' = [call EXCEPT !.todo = Fn[call.fn].cleanup]
                /\ UNCHANGED <<lost, throws>>
           ELSE /\ call' = NoCall
                /\ lost' = lost \cup left
                /\ throws' = IF left = {} THEN throws ELSE throws + 1

\* The call is over; a function that throws from its try block ends here too.
Return ==
    /\ ~Idle
    /\ call.todo = << >>
    /\ call' = NoCall
    /\ UNCHANGED <<heap, modules, threw, lost, throws, misused>>

-----------------------------------------------------------------------------
(* The steps before the try block.                                         *)

New(slot, object) ==
    /\ HasRoom(heap)
    /\ heap' = Alloc(heap, object)
    /\ Assign(slot, Fresh(heap))
    /\ UNCHANGED <<modules, lost, throws>>

\* malloc: out of memory, or whatever else throws before an allocation.
ThrowAt ==
    /\ Throw
    /\ UNCHANGED <<heap, modules, misused>>

AllocateCString ==
    /\ At("filename")
    /\ \/ ThrowAt
       \/ New("filename", Object("malloc", {}, {}, << >>)) /\ UNCHANGED misused

\* How many bytes are allocated, and how many elements set copies there.  Of a
\* DataView, which has no length, it copies none.
Size(input) == IF input.type \in {"view", "DataView"} THEN input.backing ELSE input.bytes

Elements(input) ==
    IF input.type = "DataView" THEN 0 ELSE input.bytes \div input.width

Uninitialised == 0

\* The bytes of the allocation, each named for the byte of the input it is.
\* Uint8Array.set takes the elements one by one, and their low bytes.
Copied(input) ==
    [i \in 1..Size(input) |-> IF i <= Elements(input)
                              THEN (i - 1) * input.width + 1 ELSE Uninitialised]

AllocateBuffer ==
    /\ At("buffer")
    /\ \/ ThrowAt
       \/ /\ call.input.type # "other"
          /\ New("buffer", Object("malloc", {}, {}, Copied(call.input)))
          /\ UNCHANGED misused

NewLexer ==
    /\ At("lexer")
    /\ Lend({"filename", "buffer"})
    /\ New("lexer", Object("lexer", {call.obj.buffer}, {}, << >>))

NewErrors ==
    /\ At("errors")
    /\ New("errors", Object("errors", {}, {}, << >>))
    /\ UNCHANGED misused

\* options.readDebugNames, options.foldExprs and options.log: the options of
\* these functions are not optional.
ReadOptions ==
    /\ At("options")
    /\ IF call.options.defined
       THEN Continue /\ UNCHANGED <<heap, modules, lost, throws, misused>>
       ELSE ThrowAt

\* Mutant: a setter that forgets UpdateDependencies.
SetFeatureAlone(enabled, feature, value) ==
    IF value THEN enabled \cup {feature} ELSE enabled \ {feature}

\* Features::set_x_enabled, with UpdateDependencies.
SetFeature(enabled, feature, value) ==
    LET set == IF value THEN enabled \cup {feature} ELSE enabled \ {feature}
    IN  IF "reference_types" \in set THEN set \cup {"bulk_memory"} ELSE set

\* `obj[feature] | 0': every feature is set, to false when it is not named.
EnabledFeatures(on) ==
    LET after[n \in 0..Len(FEATURES)] ==
            IF n = 0 THEN Default
            ELSE SetFeature(after[n - 1], FEATURES[n], FEATURES[n] \in on)
    IN  after[Len(FEATURES)]

NewFeatures ==
    /\ At("features")
    /\ New("features", Object("features", {}, {}, EnabledFeatures(call.options.on)))
    /\ UNCHANGED misused

-----------------------------------------------------------------------------
(* The C functions, and what becomes of their results.                     *)

\* wabt_parse_wat and wabt_read_binary return a result that owns the module;
\* of a text that does not parse there is none.  The locations in a text
\* module point at the lexer's file name.
MakeModule(slots, uses, always) ==
    /\ Lend(slots)
    /\ \E ok \in BOOLEAN :
          LET module == Fresh(heap)
              made == IF ok \/ always THEN {module} ELSE {}
              after == IF made = {} THEN heap
                       ELSE Alloc(heap, Object("module", uses, {}, "module"))
          IN  /\ HasRoom(after)
              /\ heap' = Alloc(after, Object("result", {}, made, ok))
              /\ Assign("result", Fresh(after))
    /\ UNCHANGED <<modules, lost, throws>>

ParseWat ==
    /\ At("parse")
    /\ MakeModule({"lexer", "features", "errors"}, {call.obj.lexer}, FALSE)

ReadBinary ==
    /\ At("read")
    /\ MakeModule({"buffer", "features", "errors"}, {}, TRUE)

Ok == heap[call.obj.result].content

\* Errors.format reads the source text again, through the lexer.
LentToFormat == {"errors"} \cup (IF call.obj.lexer = Null THEN {} ELSE {"lexer"})

Owned(slot) == {a \in heap[call.obj.result].owns : heap[a].content = slot}

OwnedAddress(slot) == IF Owned(slot) = {} THEN Null ELSE CHOOSE a \in Owned(slot) : TRUE

Release(slot) == heap' = [heap EXCEPT ![call.obj.result].owns = @ \ Owned(slot)]

\* Mutant: the errors are destroyed although the module keeps them.
WrapModuleErrorsKept(this) ==
    /\ modules' = modules \cup {this}
    /\ Continue

\* new WasmModule takes the errors, and with them the lexer.
WrapModule(this) ==
    /\ modules' = modules \cup {this}
    /\ Assign("errors", Null)

Wrap ==
    /\ At("wrap")
    /\ IF Ok
       THEN /\ Release("module")
            /\ WrapModule([call.obj EXCEPT !.module = OwnedAddress("module"),
                                           !.result = Null, !.features = Null,
                                           !.buffer = IF call.obj.lexer = Null
                                                      THEN Null ELSE @])
            /\ UNCHANGED <<lost, throws, misused>>
       ELSE /\ Lend(LentToFormat)
            /\ Throw
            /\ UNCHANGED <<heap, modules>>

Validate ==
    /\ At("validate")
    /\ \/ Lend({"module", "features", "errors"}) /\ Continue /\ UNCHANGED <<lost, throws>>
       \/ Lend({"module", "features"} \cup LentToFormat) /\ Throw
    /\ UNCHANGED <<heap, modules>>

\* resolveNames reports to the errors of the module, the other two to no one.
Names ==
    /\ At("names")
    /\ \/ /\ Lend({"module"} \cup (IF call.fn = "resolveNames" THEN {"errors"} ELSE {}))
          /\ Continue
          /\ UNCHANGED <<lost, throws>>
       \/ /\ Lend({"module"} \cup (IF call.fn = "resolveNames" THEN LentToFormat ELSE {}))
          /\ Throw
    /\ UNCHANGED <<heap, modules>>

\* wabt_write_text_module and wabt_write_binary_module: the result owns the
\* output, and with `log' a second buffer; when writing fails it owns nothing.
WriteModule ==
    /\ At("write")
    /\ Lend({"module"})
    /\ \E ok \in BOOLEAN :
          LET logs == call.fn = "toBinary" /\ call.options.log
              written == Alloc(heap, Object("OutputBuffer", {}, {}, "output"))
              logged == Alloc(written, Object("OutputBuffer", {}, {}, "log"))
              after == IF ~ok THEN heap ELSE IF logs THEN logged ELSE written
              buffers == IF ~ok THEN {} ELSE IF logs THEN {Fresh(heap), Fresh(written)}
                                             ELSE {Fresh(heap)}
          IN  /\ HasRoom(after)
              /\ heap' = Alloc(after, Object("result", {}, buffers, ok))
              /\ Assign("result", Fresh(after))
    /\ UNCHANGED <<modules, lost, throws>>

\* There is no log to release unless one was asked for, and an OutputBuffer of
\* null reads as ''.
TakeOutput(slot) ==
    /\ At(slot)
    /\ IF Ok
       THEN /\ Release(slot)
            /\ Assign(slot, OwnedAddress(slot))
            /\ UNCHANGED <<lost, throws>>
       ELSE Throw /\ UNCHANGED heap
    /\ UNCHANGED <<modules, misused>>

\* toString and toTypedArray copy the output out of the heap.
Convert ==
    /\ At("convert")
    /\ Lend({slot \in {"output", "log"} : call.obj[slot] # Null})
    /\ Continue
    /\ UNCHANGED <<heap, modules, lost, throws>>

Dispose(step, slots) ==
    /\ At(step)
    /\ Destroy(slots)
    /\ Continue
    /\ UNCHANGED <<modules, lost, throws>>

\* Mutant: the errors leave their lexer alone.
DestroyErrorsOnly ==
    Dispose("~errors", IF call.obj.errors = Null THEN {} ELSE {"errors"})

\* A variable of the try block that was not reached is undefined, and destroys
\* nothing; neither do the errors that a module has taken.
DestroyErrors ==
    Dispose("~errors", IF call.obj.errors = Null THEN {}
                       ELSE {"errors"} \cup IF call.obj.lexer = Null THEN {}
                                            ELSE {"lexer", "buffer", "filename"})

DestroyLocal ==
    \/ Dispose("~result", {"result"}) \/ Dispose("~features", {"features"})
    \/ Dispose("~buffer", {"buffer"}) \/ Dispose("~module", {"module"})
    \/ Dispose("~output", {"output"}) \/ Dispose("~log", {"log"})
    \/ DestroyErrors

-----------------------------------------------------------------------------
Init ==
    /\ heap = [a \in Addr |-> Free]
    /\ modules = {}
    /\ call = NoCall
    /\ lost = {}
    /\ threw = FALSE
    /\ throws = 0
    /\ misused = FALSE

\* The program may call any function at any time, on modules it has not
\* destroyed, or stop.
CallSomething ==
    \/ \E fn \in Readers, input \in Inputs : \E options \in OptionsOf(fn) :
          CallReader(fn, options, input)
    \/ \E fn \in (DOMAIN Fn) \ Readers, this \in modules : \E options \in OptionsOf(fn) :
          CallMethod(fn, this, options)
    \/ Idle /\ UNCHANGED vars

\* One step of the call under way.
Step ==
    \/ AllocateCString \/ AllocateBuffer \/ NewLexer \/ NewErrors
    \/ ReadOptions \/ NewFeatures
    \/ ParseWat \/ ReadBinary \/ Wrap
    \/ Validate \/ Names
    \/ WriteModule \/ TakeOutput("output") \/ TakeOutput("log") \/ Convert
    \/ DestroyLocal
    \/ Return

Next == CallSomething \/ Step

Spec == Init /\ [][Next]_vars

-----------------------------------------------------------------------------
(* No C function is given the address of an object that has been destroyed,
   has not been made yet or is of another kind, nor one that points into such
   an object; and none is destroyed twice.  A text module outlives parseWat
   only because its errors keep the lexer, and the lexer the text. *)
ObjectsLiveWhenUsed == ~misused

(* Between two calls the heap holds what the program's modules hold, and
   nothing else, except what calls left behind that threw before their try
   block: a call that fails further on cleans up after itself. *)
NothingLost ==
    Idle => Live = (Held \ {Null}) \cup lost

(* As long as the program holds a module, no call changes or frees any of the
   objects it is made of, whatever becomes of the other modules. *)
ModulesUndisturbed ==
    [][\A this \in modules \cap modules' : \A a \in Range(this) \ {Null} :
           heap'[a] = heap[a]]_vars

WithFeatures == call.todo # << >> /\ Head(call.todo) \in {"parse", "read", "validate"}

(* The text is parsed, the binary read and the module validated with every
   feature that the options name on or off as they say, but that a feature on
   which another depends is on with it, in whatever order they are set. *)
FeaturesAsAsked ==
    WithFeatures =>
        LET enabled == heap[call.obj.features].content
        IN  /\ \A f \in call.options.named \ {"bulk_memory"} :
                  f \in enabled <=> f \in call.options.on
            /\ "bulk_memory" \in call.options.named =>
                  ("bulk_memory" \in enabled <=>
                      {"bulk_memory", "reference_types"} \cap call.options.on # {})
            /\ "reference_types" \in enabled => "bulk_memory" \in enabled

(* What the lexer or the binary reader is given are the bytes of the argument,
   all of them and no others. *)
BufferHoldsInput ==
    (At("parse") \/ At("read")) =>
        heap[call.obj.buffer].content = [i \in 1..call.input.bytes |-> i]
=============================================================================
