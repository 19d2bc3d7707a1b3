--------------------------- MODULE LibwabtClients ---------------------------
(***************************************************************************)
(* The programs that use libwabt: the compile functions of the two demo    *)
(* pages, each of which makes a module, works on it in a try block and     *)
(* destroys it in the finally block when there is one; or any other        *)
(* program.                                                                *)
(***************************************************************************)
EXTENDS Libwabt

CONSTANT Clients  \* among "wat2wasm", "wasm2wat" and "any"

ASSUME ClientsAssumption == Clients \subseteq {"wat2wasm", "wasm2wat", "any"}

VARIABLES
    client,     \* the program
    compiling,  \* a page is in its compile function
    plan        \* the calls of its try block that are still to be made

clientVars == <<vars, client, compiling, plan>>

Page == client # "any"

\* A call with the options it is given.
With(fn, options) == [fn |-> fn, options |-> options]

Literal == [Undefined EXCEPT !.defined = TRUE]

\* All the features are named, and those checked are on.
WatCompile(features) ==
    <<With("parseWat", features), With("resolveNames", Undefined),
      With("validate", features), With("toBinary", [Literal EXCEPT !.log = TRUE])>>

WasmCompile(generateNames) ==
    <<With("readWasm", Literal)>>
      \o (IF generateNames
          THEN <<With("generateNames", Undefined), With("applyNames", Undefined)>>
          ELSE << >>)
      \o <<With("toText", Literal)>>

\* A handler calls compile.  The wasm2wat page makes an instance of libwabt,
\* with a heap of its own, each time.
BeginCompile ==
    /\ Page /\ Idle /\ ~compiling
    /\ compiling' = TRUE
    /\ \/ /\ client = "wat2wasm" /\ throws < MaxLost
          /\ \E on \in SUBSET Range(FEATURES) :
                plan' = WatCompile([defined |-> TRUE, named |-> Range(FEATURES),
                                    on |-> on, log |-> FALSE])
          /\ UNCHANGED <<heap, lost, throws>>
       \/ /\ client = "wasm2wat"
          /\ \E generateNames \in BOOLEAN : plan' = WasmCompile(generateNames)
          /\ heap' = [a \in Addr |-> Free]
          /\ lost' = {}
          /\ throws' = 0
    /\ threw' = FALSE
    /\ UNCHANGED <<modules, call, misused, client>>

NextCall ==
    /\ compiling /\ Idle /\ ~threw /\ plan # << >>
    /\ \/ /\ Head(plan).fn \in Readers
          /\ \E input \in Inputs : CallReader(Head(plan).fn, Head(plan).options, input)
       \/ \E this \in modules : CallMethod(Head(plan).fn, this, Head(plan).options)
    /\ plan' = Tail(plan)
    /\ UNCHANGED <<client, compiling>>

\* Mutant: the module is destroyed at the end of the try block.
FinallyUnlessThrown ==
    /\ compiling /\ Idle /\ (threw \/ plan = << >>)
    /\ compiling' = FALSE
    /\ plan' = << >>
    /\ IF threw THEN UNCHANGED vars
       ELSE \E this \in modules : CallMethod("destroy", this, Undefined)
    /\ UNCHANGED client

\* if (module) module.destroy(): there is none if it could not be read.
Finally ==
    /\ compiling /\ Idle /\ (threw \/ plan = << >>)
    /\ compiling' = FALSE
    /\ plan' = << >>
    /\ IF modules = {} THEN UNCHANGED vars
       ELSE \E this \in modules : CallMethod("destroy", this, Undefined)
    /\ UNCHANGED client

ClientInit ==
    /\ Init
    /\ client \in Clients
    /\ compiling = FALSE
    /\ plan = << >>

ClientNext ==
    \/ BeginCompile \/ NextCall \/ Finally
    \/ ~Page /\ CallSomething /\ UNCHANGED <<client, compiling, plan>>
    \/ Step /\ UNCHANGED <<client, compiling, plan>>
    \/ Idle /\ ~compiling /\ UNCHANGED clientVars

ClientSpec == ClientInit /\ [][ClientNext]_clientVars

-----------------------------------------------------------------------------
(* Between two compilations, of whatever text or binary and wherever the last
   one failed, a demo page holds no module, and the heap nothing but what calls
   left behind that threw before their try block. *)
PageHoldsNothing ==
    (Page /\ Idle /\ ~compiling) => modules = {} /\ Live = lost
=============================================================================
