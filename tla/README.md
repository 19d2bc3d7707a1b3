# TLA+ models of WABT

This directory models the parts of WABT whose correctness depends on state that
several steps, or several components, must keep consistent: the type checker
and its two clients; the interpreter's one-pass compiler and the thread that
runs its code; the environment modules are loaded into and removed from; the
memories of the interpreter and of the C that wasm2c writes; the JavaScript API
and its hand-managed heap of C++ objects; and the two demo pages, with their
timers and files. Every definition was written from the source; `PROJECT.json`
names, for each one, the lines it models (`map`), and lists the components, the
hazards, the runs, the mutants, the findings and the theorems. Paths below are
relative to the repository.

    tlc -workers 2 -config TypeChecker.cfg MCTypeChecker.tla
    tlapm TypeChecker_proofs.tla
    tlapm ValidatorWalk_proofs.tla
    tlapm InterpCompiler_proofs.tla
    tlapm InterpTools_proofs.tla
    tlapm DemoPages_proofs.tla
    tlapm Memories_proofs.tla
    tlapm Libwabt_proofs.tla
    tlapm JavaScript_proofs.tla

## The system

WABT is a set of tools around one pipeline. A text or binary module is read
(`WastLexer`/`WastParser`, or `BinaryReader` with a delegate), turned into the
IR (`ir.h`), validated, and written (`BinaryWriter`, `WatWriter`, `CWriter`,
`Decompiler`); or a binary is read straight into the interpreter and run. The same library,
compiled to JavaScript, is behind `src/wabt.post.js` and the demo pages.

| component | state | operations | what makes it correct |
|---|---|---|---|
| Type checker (`src/type-checker.cc`) | operand type stack, label stack | one handler per kind of instruction, each returning a `Result` and perhaps printing | blocks keep to their operands; dead code is polymorphic and nothing else is; an error is seen by both kinds of client |
| Validator (`src/validator.cc`) | the IR, counts, current label and index spaces, an `Errors` list | declarations, then `CheckFunc` per function through the expression visitor | an invalid module has a message; a failed handler does not bring the next ones down |
| Expression visitor (`src/expr-visitor.cc`) | explicit stack of states, expression and catch cursors | one transition per loop turn | each nested construct gets its begin, middle and end callbacks, once and in order |
| Interpreter compiler (`src/interp/binary-reader-interp.cc`) | instruction stream, its own label stack, fixups per depth and per function, index mappings, segments | `BinaryReader` callbacks | branches land where and with what the type checker says; indices map to the right function |
| Environment (`src/interp/interp.h`, `.cc`) | vectors of modules, functions, tables, memories, globals, segments; name bindings | append, find, register, `Mark`, `ResetToMarkPoint` | a failed load leaves nothing behind and nothing dangling |
| Thread and executor (`src/interp/interp.cc`) | value stack, call stack, pc | one case per opcode; `Initialize`, `RunFunction` | no call disturbs its callers; limits trap; growth keeps to maxima |
| Binary reader (`src/binary-reader.cc`) | offset, read end, counts, section order | one reader per section | each section once, in order, within its size |
| IR builder (`src/binary-reader-ir.cc`) | module, label stack of expression lists | delegate callbacks | expressions nest as the binary did |
| Binary writer, streams, LEB128 (`src/binary-writer.cc`, `src/stream.cc`, `src/leb128.cc`) | stream offset, section fixups, relocations | write, then patch sizes | sizes and relocations name the bytes they are about after compaction |
| Text lexer and parser (`src/wast-lexer.cc`, `src/wast-parser.cc`) | two tokens of lookahead, errors, the module being built | recursive descent with recovery | recovery makes progress; inline imports precede definitions |
| IR and containers (`src/ir.cc`, `src/intrusive-list.h`, `src/circular-array.h`, `src/binding-hash.cc`) | index spaces, bindings, links | append, splice, find | the sequence each stands for |
| Name passes (`src/resolve-names.cc`, `src/apply-names.cc`, `src/generate-names.cc`) | label scopes | visitor callbacks | every name resolves to the innermost label; generated names are unique |
| C writer and runtime (`src/c-writer.cc`, `wasm2c/`) | label and type stacks; registered types, memories, trap buffer | emit C; allocate, grow, trap | the C computes what the module does; growth fails with -1 |
| JavaScript API (`src/wabt.post.js`, `src/emscripten-helpers.cc`) | addresses of objects in the heap of the C code, which nothing collects | `parseWat`, `readWasm`, the methods of `WasmModule` | what is made is destroyed, once, and not while anything points into it, wherever a call throws |
| wat2wasm page (`docs/demo/wat2wasm/demo.js`) | two editors, features, the last build and its URL, two debounced functions with a timer each | change handlers, `compile`, `run`, `setExample` | the page comes to show the last change; the download is what is shown |
| wasm2wat page (`docs/demo/wasm2wat/demo.js`) | the bytes of the last binary, options, the editor, files being read | examples, options, uploads, `reader.onload` | the editor shows the binary it holds; an upload is shown when it has been read |
| Decompiler, listings, other tools | layout | | |
| Spec test runner, wasm-interp (`src/tools/`) | environment, last module, pass counts | commands of a script; one module | a failing command leaves the environment as later commands expect it |

How they interact. The C++ runs on one thread; there are no locks, messages or
timers in it. Components call each other through delegates and callbacks, and
what is hard is not concurrency but order and agreement. The pages are different:
handlers, late timers and files that are read in the background come in any
order. What can go wrong:

- two stacks in two components indexed by the same depth (the type checker's
  labels and the compiler's labels, or the validator's nesting);
- one component that stops at the first `Error` (the compiler) and another that
  drops it and goes on (the Validator), driving the same handlers;
- numbers computed when an instruction is compiled and used when it is run, with
  nothing checked in between: drop and keep counts, local depths, branch and call
  offsets;
- indices into vectors that a failed load truncates, kept in tables that outlive
  the module; host modules that append functions while a module is being read;
- long sequences of legal calls after an error, in dead code, or over a limit;
- one size kept in two places, in words that wrap, with an allocation that fails;
- ownership by address: which of a lexer, a text, the errors and a module may be
  freed first, and what a call that throws half way has to free;
- a change that comes too early to be compiled, left to a timer that other changes
  race with; a file whose reading ends after the visitor has gone on.

The hazards, with the lines where they bite, are in `PROJECT.json`.

## Modules

    Types ── TypeChecker ─┬─ TypeCheckerProps ─┬─ MCTypeChecker
                          │                    └─ TypeChecker_proofs
                          ├─ ValidatorWalk ─┬── MCValidatorWalk
                          │                 └── ValidatorWalk_proofs (on TypeChecker_proofs)
                          └─ InterpCompiler ─┐
    Types ── InterpThread (INSTANCE) ────────┴─ InterpMachine ─┬─ MCInterpMachine
                                                               └─ InterpCompiler_proofs (on TypeChecker_proofs)

    Environment ── ModuleLoader ─┬─ SpectestRunner ─┬─ InterpTools ─┬─ MCInterpTools
                                 └─ WasmInterp ─────┘               ├─ InterpTools_proofs
                                                                    └─ LinkedModules (abstract, INSTANCE)

    MemoryPages ─┬─ WasmRt ───────┬─ Memories ─┬─ MCMemories
                 ├─ InterpMemory ─┘            └─ Memories_proofs
                 └─ GrowableMemory (abstract, INSTANCE in both)

    Libwabt ── LibwabtClients ─┬──────────────┬─ JavaScript ─┬─ MCJavaScript
                               │              │              └─ JavaScript_proofs
                               └─ Libwabt_proofs (of LibwabtClients)
    Wat2WasmDemo, Wasm2WatDemo ── DemoPages ──┤
                                              └─ DemoPages_proofs (of DemoPages)

**Types** is `Type` and the subtype relation of `CheckType`.

**TypeChecker** has `type_stack_` and `label_stack_` as variables and one action
per handler (`OnBlock`, `OnBr`, `OnBrTable...`, `OnEnd`, `BeginFunction`, ...).
Handlers that have the same body (the many that end in `CheckOpcode1/2/3`) are
one operator over a set `Opcodes` of signatures. A handler in the code ORs the
Results of its checks and goes on to change the stacks; so do the actions, which
end in `Finish(types, labels, result, message)`. Two variables stand for what a
client can see: `failed`, that a handler has returned `Error`, and `printed`,
that the error callback has been called. They are not the same thing, and the
difference is the subject of `MessagesAreErrors` and `ErrorsAreReported`.
`Next` is a client that calls handlers in any order and stops at the first
Error, which is what `BinaryReaderInterp` does. `OnBrTable` is one action that
consumes its whole list of targets.

**ValidatorWalk** is the other client: `Validator::CheckFunc`, over a function of
the IR. The IR is well nested whatever else is wrong with it (`nest`), most
Results are dropped, and `OnSelectExpr` alone abandons the walk.

**InterpCompiler** is the part of `BinaryReaderInterp` that compiles bodies. Each
action is one callback: it type checks (by the type checker's own actions),
emits, pushes or pops a label, records or patches fixups. The instruction stream
is a sequence of instructions where the code has bytes, and offsets count
instructions. `drop_count` and `keep_count` are computed from the type stack at
the place in the handler where the code computes them.

**InterpThread** is `Thread::Run` for control, local and call instructions, and
`Executor::RunFunction`. Values have no types in the interpreter; in the model a
value *is* its type, so that a property can say that it is read at the type it
was pushed at. Every conditional goes both ways, and a table element may be any
function. **InterpMachine** composes the two: the module is compiled, then any
function of it is run. Two ghosts are not in the code: `typing` (what the type
checker had at each stream offset) and `frames` (the base of each call). An
offset is forgotten when it is read again in dead code: an empty block nested in
dead code emits nothing, and what follows it at the same offset is reached only
by a branch to an outer end, with another stack.

**Environment** is the record `env` of modules, functions, tables and bindings,
and the operators on it. `bindings` and `registered` are multimaps whose order
among equal names is unspecified, so look-ups return the set of possible
answers. Each function carries the number of the load that made it (`owner`, a
ghost): a reference is dangling when the index is out of range *or* names a
function that another load put there. Indices count from 1; 0 is `kInvalidIndex`.

**ModuleLoader** is `ReadBinaryInterp` (imports, functions, tables, exports, start,
active element segments, in section order, each item succeeding or failing) and
`Executor::Initialize` (both passes over the segments, then the start function).
`Malformed` stands for every way in which the bytes themselves can be rejected
(`BinaryReader` errors, bodies that do not type check).

**SpectestRunner** is the `CommandRunner` of spectest-interp: `module`,
`assert_unlinkable`, `assert_uninstantiable`, `register` and actions, each with
the resets it does or does not make. `assert_invalid` and `assert_malformed`
read into an environment of their own and change nothing here. **WasmInterp** is
wasm-interp with `--dummy-import-func`. **InterpTools** is a run of either.

**LinkedModules** is the abstract specification of an environment as a script sees
it: a sequence of interfaces that only grows, one whole interface at a time.
`InterpTools!LinkedSpec` maps the environment to it: the exports of each
module, with what each stands for, seen between two commands; a function is
identified by its signature and owner, so that an export that silently becomes
another function is not a stutter.

**WasmRt** is the runtime of the C that wasm2c writes, and the `init` functions of
modules that share it. A module registers its types one by one
(`RegisterFuncType`), then writes elements that carry the indices of its own
types (`InitTable`). `GrowMemory` is `wasm_rt_grow_memory` with its sums and
products in words of 32 bits (`Word`, scaled down), the branch in which `realloc`
fails, and pages of garbage until `memset` clears them. **InterpMemory** is
`MemoryGrow`, `MemorySize` and stores of the interpreter, where the size is kept
twice. **GrowableMemory** is the abstract memory both are to be: pages that are
zero until stored to, growing at the end, up to a maximum. **Memories** is a
module in one place or the other.

**Libwabt** is `wabt.post.js` over `emscripten-helpers.cc`. Each function is a list
of steps in three parts, before, in and after its `try`; every step may throw
where the code can, and a throw in the middle goes to the `finally` part. The
state is the heap of the C code: which address holds an object of which kind,
what it points into and what it owns. `Lend` records whether a C function was
given anything but live objects (`misused`), and `lost` what a call that threw
before its `try` leaves behind. **LibwabtClients** are the programs: the two
`compile` functions, call by call, and any program at all.

**Wat2WasmDemo** and **Wasm2WatDemo** have the state of a page in one record, and a
handler is a function from a page to a page, as it runs to its end before any
other. `Debounce` is the closure `debounce` returns, with `lastTime` (as the time
`since`) and `timeoutId`; it is called by handlers and by its own timer, which
may fire late. `SetExample` is the whole of it: `setValue` runs the change
handler of the editor, and then the code calls the handler once more. On the
other page, `OnUploadedFile` starts to read a file and `OnLoad` is what happens
when that ends, for each file in its own time, or never in an order.
**DemoPages** is the visitor with one page, and states the fairness.
**JavaScript** is the pages and the clients of libwabt together. A compilation is
one step of a page: it runs to its end; what it calls, and where that throws, is
LibwabtClients.

## Runs

All runs finish without a state constraint; bounds are guards in the actions and
named as constants. Every property of a passing run has a mutant in the module
it is about, defined just before what it replaces.

| run | checks | bounds |
|---|---|---|
| `type_checker` | `TypeOK`, `LabelsNested`, `FuncLabelAtBottom`, `NoUnknownWhenReachable`, `DeadCodeAcceptsMore`, `MessagesAreErrors`, `FramesPreserved`: every sequence of handlers up to the first Error | 3 operands, 3 labels, branch depth 2, two function signatures, an opcode with a result and one without |
| `validator_walk` | `ErrorsAreReported`, `LabelsCoverNesting`, `LabelsMirrorNesting`: the same handlers after errors, with reference types and exceptions | 3 operands, 3 labels, depth 1 |
| `interp` | `LabelStacksInStep`, `BranchFixupsExact`, `CallFixupsExact`, `StackAsTypeChecked`, `LocalsFound`, `OperandsAsExpected`, `CallersUndisturbed`, `ReturnsDeclaredResults`: all bodies compiled and run, of four families of modules that divide the instruction set | branches: one function, 7 instructions, 3 labels; empty blocks in dead code: the same; calls: two functions and a host function, 6 instructions in all, all four call instructions, call stack of 2 and value stack of 7, so that both limits trap; locals of two types under operands: 5 instructions |
| `interp_tools` | `TypeOK`, `IndexSpacesExact`, `TableEntriesLive`, `FailedLoadRestores`, `BindingsResolve`, `LinkedSpec`: scripts of `module` and `register` without bulk memory; of the asserting commands and actions with bulk memory, reference types and trapping start functions; and one load of wasm-interp that makes host modules as it goes | 2 loads after the host module, each with up to 1 function, 1 table and 1 export; 2 active segments in the first family and 1 in the others; 2 registered names, two signatures, two table limits; 3 functions for wasm-interp |
| `memories` | `IndirectCallsTyped`, `MemoryBacked`, `SizesAgree`, `RtMemorySpec`, `GrowsUnlessWrapped`: every request for pages there is, with stores between them | words of 4 bits and pages of 2 bytes, so that 8 pages are what a word can address, as 65536 are in the code; maxima up to 7 pages in the C runtime and 8 in the interpreter; programs of up to two modules with up to two types each, of three signatures |
| `javascript` | on the pages `TimersRemembered`, `DownloadOffersBuild`, `EditorFollowsFile`, `OutputFollowsText`, `LogFollowsScript`, `UploadDisplayed`; of libwabt `ObjectsLiveWhenUsed`, `NothingLost`, `FeaturesAsAsked`, `PageHoldsNothing`, `ModulesUndisturbed` | three examples, one feature box, a wait of 3 units and timers up to 1 late; two option boxes, two files; two modules, 16 objects, 1 call that leaves something behind |

Why the bounds are enough. The label stack properties concern two neighbouring
labels and the stack between their limits: three labels and three operands
contain a function, a block, a block in it, and an operand in each. A branch
that drops and keeps needs one operand under the block, one carried and one
dropped; seven instructions build it, take the branch from an `if` or a
`br_table` and put an instruction after the end. Two functions are the fewest
that need call fixups in both directions, and two activations the fewest with a
caller to disturb. Dangling references need a load that fails after one that
stays, or one that stays after one that fails: two loads; a load that fails
half way through its segments needs two segments. A size that wraps does so by
the relation between words, pages and maxima, which the scaled widths keep. The
debounced functions compare two times with one wait: three units tell before,
between and after, and a timer that is late by one is late by any amount to a
function that asks only whether the wait is over. Two files are read in either
order, two modules can disturb one another, and the heap of 16 objects is never
full.

Runs that end in a violation each check one property that a test, a comment or
a specification in the repository states, and that the code does not keep:

| run | finding |
|---|---|
| `simd_lane` | `OnSimdLaneOp` prints that a lane index is out of range and returns Ok (`src/type-checker.cc:770`). The Validator sees the message; `BinaryReaderInterp` sees only Results and compiles the function. |
| `typed_select` | `OnSelect` keeps `result_type` at `Any` when the select is annotated (`src/type-checker.cc:740`), so its result passes for any type, and the interpreter reads an i64 as an i32. |
| `reset_after_start` | `OnModuleCommand` resets the environment also when it is the start function that trapped, after segments were copied (`src/tools/spectest-interp.cc:1164`); a comment at line 1289 of the same file says why that must not be done. |
| `stale_limits` | `TableGrow` leaves `limits.initial` (`src/interp/interp.cc:3584`), which `CheckImportLimits` reports as the table's actual size. |
| `partial_view` | `allocateBuffer` takes the size of a typed array from its whole buffer and copies its elements as bytes (`src/wabt.post.js:64`): of a `Uint8Array` over a part of its buffer the reader gets trailing bytes that were never written. |
| `grow_result` | `wasm_rt_grow_memory` tests whether the new page count is 0 before it tests for a wrap (`wasm2c/wasm-rt-impl.c:106`): with one page and a delta of 0xffffffff it returns 0, neither the old size nor a failure. |

Three more things the models show, which no text of the repository contradicts:

- In the interpreter a new size that wraps is taken for a smaller one
  (`src/interp/interp.cc:2183`): `memory.grow` of -1 takes the last page from a
  memory. `GrowsUnlessWrapped` says that nothing else does.
- With a maximum of 65536 pages, which the C writer passes for a memory without
  one, `MemoryBacked` fails: the size in bytes is 0 in 32 bits, and
  `realloc(data, 0)` frees the data (`wasm2c/wasm-rt-impl.c:112`).
- On the wat2wasm page an example's text and script are debounced apart, and
  their timers drift: a visitor who selects an example less than `kCompileMinMS`
  after the last compilation, when the script was last run longer ago than that,
  sees its script run on the build of the example before, and not again when its
  own is built. `LogFollowsScript` asks for the script to be run, and does not
  say on which build.

Deadlock. The environments, the memories and the JavaScript are checked for it:
whenever a load or a call is under way some step is possible. The type checker,
the validator walk and the machine stop by design (after an error, at the end of
a function, at a bound), so their runs do not check deadlock.

Fairness. The C++ waits for nothing: a WebAssembly program may loop for ever, and
a script may end after any command, so no fairness is assumed of it and no
liveness claimed. Of the pages, what is assumed is what a browser does by itself,
whatever the visitor does (`PagesFairness`): time goes by (`Tick`), a timer that
is due fires (`FireTimer`, and `Tick` is not possible for longer than `MaxLate`
while one is due), and each file whose reading has begun is read or fails
(`ReadEnds`). Nothing is assumed of the visitor, who may stop after any action or
go on for ever; the liveness properties therefore speak of what is entered and
not changed again. Weak fairness is enough: a due timer stays due until it fires
or a change clears it and does its work, and a file is being read until it ends.

## Proofs

`TypeChecker_proofs` is about the client that stops at the first Error, for every
set of signatures, opcodes and select annotations, and for stacks of any size
and depth:

- `LabelsAlwaysNested`: `Spec => [](TypeOK /\ LabelsNested)`, and its first half,
  `AlwaysTypeOK`. The compiler
  subtracts a label's limit from the size of the stack to count what a branch
  drops; this theorem is why the difference is never negative.
- `FramesAlwaysPreserved`: `Spec => FramesPreserved`. No handler changes an
  operand below the limit of an enclosing block, nor moves the limit.
- `FuncLabelAlwaysAtBottom`: `Spec => []FuncLabelAtBottom`.
- `MessagesAlwaysErrors`: `LaneOps = {} => (Spec => []MessagesAreErrors)`. The
  hypothesis is the run `simd_lane`: the lane operators print an error and return
  Ok, and they are the only ones.
- `DeadCodeAlwaysAcceptsMore`: `Spec => []DeadCodeAcceptsMore`.
- `NeverUnknownWhenReachable`: `NoUnknownNamed => (Spec => []NoUnknownWhenReachable)`.
  `NoUnknownNamed` says that signatures and opcodes name real types, which is what
  a binary or a text can contain, and that no select is annotated: `OnSelect`
  leaves the type of an annotated one unknown, which is the run `typed_select`.

The inductive invariant of the first two is `IndInv == TypeOK /\ LabelsNested`.
Neither half is inductive alone: `LabelsNested` needs the types to make sense of
sequences and limits, and `TypeOK` needs the limits, since a reset to a limit
above the stack would leave holes. The second theorem is about the same steps,
so each step lemma proves both conclusions: `IndInv' /\ FramesKept`.

The argument goes through one relation. `Keeps(ts, base, n)` says that `ts` is a
stack of types that agrees with `base` up to height `n`. Four lemmas show that
the helpers of the code (`ResetTypeStackToLabel`, `DropTypes`, `PopTypes`,
`PushType`) keep whatever is under the top label's limit. Four more cover what a
handler can do to the label stack: leave it, change its top, push, pop. Each
handler is then one of these four with a stack that `Keeps`, and `NextStep` puts
the handlers together. The next two theorems say of each of the four what it
does to the bottom label and when it prints. That dead code accepts more is a
fact about `PopAndCheckSignature` on two stacks, one a suffix of the other.
That reachable code has no unknown operand is not inductive for the innermost
label only, since a block that closes makes the next one innermost: `KnownInv`
says it of the operands of every label that is reachable, and that the
signatures labels carry name no unknown type.

The proofs assume `TypeCheckerAssumption`, which says what the constants are; the
bounds `MaxTypes`, `MaxLabels` and `MaxDepth` are any naturals, so the bound of
the runs is not a bound of the theorems.

`ValidatorWalk_proofs` is about the client that does not stop, for any function the
visitor may walk and with the lane operators:

- `ErrorsAlwaysReported`: `WalkSpec => []ErrorsAreReported`,
- `LabelsAlwaysCover`: `WalkSpec => []LabelsCoverNesting`,
- `LabelsAlwaysMirror`: `WalkSpec => []LabelsMirrorNesting`,
- `WalkLabelsAlwaysNested`: `WalkSpec => [](TypeOK /\ LabelsNested)`.

None is inductive without the others. A handler can fail silently only where a
label is of the wrong kind; until there is an error the labels mirror the
constructs, and afterwards there is a message already. A label is there to be
closed because there are as many as constructs, and that number is kept by
handlers that fail as well. `WalkInv` is the conjunction; the step lemmas of the
type checker are used as they are.

`InterpCompiler_proofs` is about the compiler, for any modules (`Units`), of any
number of functions with any bodies:

- `LabelStacksAlwaysInStep`: `MachineSpec => []LabelStacksInStep`,
- `BranchesAlwaysFixedUp`: `MachineSpec => []BranchFixupsExact`,
- `CallsAlwaysFixedUp`: `MachineSpec => []CallFixupsExact`,
- `CompilerLabelsAlwaysNested`: `MachineSpec => [](~failed => TypeOK /\ LabelsNested)`.

`CompilerInv` says of every state that no error has stopped: the type checker's
`IndInv`; the shapes of the compiler's state (`Shapes`); that the label stacks are
in step (`InStep`); that every branch with a placeholder is remembered by one
list or one `if`, and that lists above the label stack are empty
(`BranchesPending`); and the same of calls and the functions that have not begun
(`CallsPending`). The two lists are exact only together with the label stacks:
`PopLabel` patches the list of the label it pops, so a list that were one off
would leave one placeholder and patch another. Emission is taken apart from type
checking: lemmas say what appending an instruction, patching a set of positions
and doing both do to the set of placeholders, and each callback is then a step
of the type checker with one of these.

`InterpTools_proofs` is about the environment under both tools, for any setups
(features, signatures, limits, commands), any number of loads and any size of
module:

- `ToolsAlwaysTyped`: `ToolsSpec => []TypeOK`,
- `FailedLoadsAlwaysRestore`: `ToolsSpec => []FailedLoadRestores`,
- `IndexSpacesAlwaysExact`: `ToolsSpec => []IndexSpacesExact`,
- `BindingsAlwaysResolve`: `ToolsSpec => []BindingsResolve`,
- `TableEntriesAlwaysLive`: `UndoneUnwritten => (ToolsSpec => []TableEntriesLive)`,
- `ToolsImplementLinkedModules`: `ToolsSpec => LinkedSpec`.

None of these is inductive. `ToolsInv` is, and has six parts. `Control` gives the
loader's variables their ranges. `EnvGood` says that what is in the environment is
well formed (`WellFormed`): exports, index spaces and names refer to what exists,
but for the index spaces of the one module that is being read, which run ahead.
`LoadGood` says that a load only adds (`Extends(saved, env)`): what was there is at
the same place, new modules have names that no binding is for, and until the load
is read no table has changed. That is why truncating to the mark undoes it
(`ResetUndoes`, `ResetRestores`): `ResetToMarkPoint` removes every binding of a
removed module's name, whichever module it is of, and a load makes no module whose
name a script has given. `FuncsFound` is `IndexSpacesExact`; it needs
`SpacesAnnounced`, that the index spaces run ahead by exactly what a count has
announced and nobody has made yet. That in turn holds only because no host
function is made between a count and the functions it announces, which is the
order of the sections. `SegmentsFound` is about the segments that wait to be
copied.

`TableEntriesAlwaysLive` has a hypothesis, `UndoneUnwritten`: where a script has
module commands, there is no bulk memory and no start function traps. It is the
finding `reset_after_start` turned around: with either, `OnModuleCommand` removes
functions to which the module has by then written references in tables it
imports. Asserting commands, which remove nothing, are free to fail anywhere.
`LiveInv` adds to `ToolsInv` that a load that may be undone has not written to a
table it did not make, because the segments it copies have all been found to be
within their tables, and that no table grows or shrinks in between. The setups of
the run `interp_tools` satisfy the hypothesis, and those of `reset_after_start` do
not.

The refinement maps the environment to what a script sees between two commands.
A command that ends a load links one module (`ModuleLinked`) or, when it is
undone, none; every other step is a stutter, because `Extends` keeps what the
exports of older modules stand for (`InterfaceKept`). It has no hypothesis: the
functions that dangling table entries once named are not exports of any module.

`DemoPages_proofs` holds three theorems about the demo pages, for any examples,
any set of sources that build, any features, waits and files, and for any number
of steps:

- `DownloadAlwaysOffersBuild`: `PagesSpec => []DownloadOffersBuild`. Whatever the
  order of changes and timers, a button that is not greyed leads to the build
  that is shown, and every other URL has been revoked.
- `EditorAlwaysFollowsFile`: `PagesSpec => []EditorFollowsFile`.
- `TimersAlwaysRemembered`: `PagesSpec => []TimersRemembered`. However late the
  timers fire, `debounce` leaves each function the one timer it remembers, or none.

The first two invariants are inductive once it is said that the page is a record of
its fields (`GoodPage`, `Good`); this is needed because a handler changes fields one
at a time, and an update means nothing of a value that is not such a record. The
first proof follows the code: a lemma each for `Compile`, `Run`, `Debounce`,
`SetExample` and the handlers shows that a function from pages to pages keeps
good pages good, whether it calls the next at once or leaves it to a timer.

The third follows the same chain with another invariant, `GoodTimers`: the timers
are a sequence, no function was called longer ago than `Wait` counts, and each
function remembers a timer that is pending, alone and due when the function may be
called again, or has none. Two steps make it more than that. `debounce` does not
meet it when the page's own timer calls it: that timer is no longer pending and is
remembered still. `DebounceTimers` therefore asks for less, one or the other of the
two cases, and `FireTimerTimers` shows the second: the timer that fires was the only
one of its function, which was last called at least `Wait` ago, so that
`clearTimeout` is called for a timer that is gone and takes no other away. And each
time one function's timer is set or cleared, the others' move in the list;
`TimerSet`, `TimerRemoved` and `TimerCleared` say that nothing else becomes of them
(`SamePending`), wherever in the list a timer is inserted or removed.

The three theorems assume what the modules state of their constants
(`Wat2WasmAssumption`: among others that the empty text with no features, which the
model takes for "no build yet", is not one of the examples' sources that build) and
use nothing of the fairness.

`Memories_proofs` is about the two memories, for words and pages of any size (a word
is a whole number of pages), any limits and any requests.

- `SizesAlwaysAgree`: `MemorySpec => []SizesAgree`, and `AlwaysGrowsUnlessWrapped`:
  `MemorySpec => GrowsUnlessWrapped`, the refinement of `GrowableMemory` but for
  the steps whose sum wraps. The invariant `Inv` adds to `SizesAgree` that the
  limits stay what they are but for the size, and that the data is a sequence of
  pages.
- `MemoryAlwaysBacked`: `RtSpec => []MemoryBacked`, and `MemoryAlwaysGrows`:
  `RtSpec => RtMemorySpec`, both under `SmallMaxima`, that the maximum in bytes
  fits a word. This is no formality: it excludes the maximum of 65536 pages that
  the C writer passes for a memory without one, for which both fail (see the
  findings). The invariant `MemoryInv` says that pages, size and data agree; the
  lemmas are that sizes under such a maximum do not wrap (`SmallSizes`), that a
  sum which has wrapped is below what it was added to (`SumInWord`), which is
  what the code's test relies on, and that `memset` clears the pages that
  `realloc` added and no other (`ClearedGrown`).
- `IndirectCallsAlwaysTyped`: `RtSpec => []IndirectCallsTyped`, for any number of
  modules and types. The invariant `TypesInv` has what the property needs of
  other states: no signature is registered twice, the indices a module has been
  given are those of its types, and an element has the index of its function's
  signature. It needs no order among the modules: tables may be filled while
  others still register their types.

They assume `MemoryPagesAssumption`, `InterpMemoryAssumption` and `RtAssumption`,
which say what the constants are; the C writer and the validator see to the
limits and to the types of the elements.

`Libwabt_proofs` is about the functions of `wabt.post.js` under any program, a demo
page or one that calls anything in any order, for any inputs, features, size of
heap and number of modules:

- `LiveWhenUsed`: `ClientSpec => []ObjectsLiveWhenUsed`. No C function is given an
  address that has been freed, or that is of an object of another kind.
- `NothingIsLost`: `ClientSpec => []NothingLost`, and `NothingIsHeld`:
  `ClientSpec => []PageHoldsNothing`. A call that has returned or thrown leaves in
  the heap what a module of the program holds and what no `finally` could free;
  a demo page, between two compilations, leaves nothing but the latter.
- `NoModuleIsDisturbed`: `ClientSpec => ModulesUndisturbed`.
- `FeaturesAlwaysAsAsked`: `ReferenceTypesOff => (ClientSpec => []FeaturesAsAsked)`.

The inductive invariant, `IndInv`, divides the heap: every live object belongs to
one module, or to the call under way, or to nobody (`lost`), and what belongs to a
module is whole (`ModuleOK`: its lexer, text and errors are live, of their kinds and
shared with no other module). What a call has depends on how far it is, and a
function is a fixed list of steps, so the invariant goes by the number of steps
that are left: `Reached` says which variables are set by then, and `Belongs` which
of those the call has still to destroy. That is where the hazard is: `parseWat`
hands its lexer and its text over to the module in the middle of its list, and a
call that throws jumps from anywhere in its `try` to its `finally`, which must find
exactly the variables set that it destroys. `Where` gives each step its places in
the lists, `Caught` and `Uncaught` say where a throw leads; a lemma per kind of step
says what it does to the heap (`Made`, `Extends`, the objects it frees) and another
what it does to the variables. For the pages, `ClientInv` adds that what is planned
is made of calls in their order and that there is at most one module.

`FeaturesAlwaysAsAsked` needs in addition that nothing comes between the step that
sets the features and the one that uses them (`AsideStep`: every other step leads
elsewhere). What `EnabledFeatures` is, is an induction over the table of features.
The library's induction theorems cannot be instantiated here, but its
`WFMin` can: a step at which the statement first fails would be the least of a set
of naturals (`Least`), and `AskedOneMore` says that there is none. The hypothesis,
that `feature.def` does not turn reference types on by itself (it does not: line
34), is needed. Turning reference types on turns bulk memory on, in
`UpdateDependencies`, and turning them off again does not undo that; with them on at first
a program that names both and wants neither gets bulk memory, if bulk memory comes
first in the table, as it does.

These theorems assume `LibwabtAssumption`, which says what features and inputs are.
A step that allocates waits for room in the heap (`HasRoom`): a C++ allocation that
finds none aborts the program, and there is then no step. In the run `javascript`
the heap of 16 addresses is never full, since TLC finds no deadlock.

`JavaScript_proofs` proves `JavaScriptImplementsParts`: `JavaScriptSpec => PagesSpec
/\ ClientSpec`. The specification that the run `javascript` checks, a page and a
program that take turns, implements each of the two, and so the theorems about either
hold of it.

Everything else is model-checked only. Liveness and enabledness are beyond the
prover: `OutputFollowsText`, `LogFollowsScript`, `UploadDisplayed`.
`StackAsTypeChecked`, `LocalsFound`, `OperandsAsExpected`, `CallersUndisturbed` and
`ReturnsDeclaredResults` compare what the code does when it is run with what the
type checker had when it was compiled, position by position of the stream. They
need a simulation between the finished stream and the thread, of which
`CompilerInv` is only the first half; it is left to the run `interp`.

## Abstractions

- Messages are left out but for the fact that one was printed, and, in
  `ModuleLoader`, the size a message states.
- Numeric instructions are opcodes with a signature; what they compute is not
  modelled.
- A body, when a module is loaded, either compiles or makes the load fail; what
  running code can do to the environment is any `table.set` and `table.grow` with
  references to the module's own functions and tables.
- Tables are of one element type. A data segment exists only as one that is out of
  bounds, which is all it can do to the rest of an initialization.
- A page of memory is zero or dirty, and a store is of one byte. The first
  allocation of a memory succeeds (the code does not look). The pages that
  `realloc` adds are garbage until they are cleared.
- What the C functions behind libwabt compute is left open: each succeeds or
  fails. Running out of memory in C++ aborts the program and is not a step;
  `malloc`, of which the JavaScript tests the result, may fail.
- What a call that throws before its `try` leaves behind is in `lost`: no `finally`
  of the code could free it, and the properties say that nothing else remains.
- The wall clock that `debounce` reads and the clock of the timers advance
  together: a clock that is set back, or a timer that fires early, is left out.
- A text stands for what it compiles to with each set of features; the binary,
  its URL and its listing are the text and features they were made from.
- `wasm-interp --host-print` is left out: its host module is older than the load
  and keeps the export it made during a load that failed.

## Not modelled

Globals, passive segments, bulk and atomic instructions of the interpreter; the
readers and writers; the text front end; the passes on the IR; C generation
beyond what initializes a module; traps of the C runtime; the C API. They are
planned below. Left out for good: tracing, disassembly, objdump and the other
listings, the layout of the text writers (formatting without state that matters);
digit-level conversion in `literal.cc` (out of TLC's reach); generated tables
and `docs/demo/libwabt.js`, the output of a compiler; the contents of the two
`examples.js`, which are data; `docs/demo/wast-mode.js`, a table of regular
expressions that colours text; vendored scripts.

## Plan

In order of what is at stake:

1. *Visitor*: the explicit state stack of `ExprVisitor` implements the recursive
   walk that `ValidatorWalk` assumes (refinement), shared by the name passes, the
   binary writer and the C writer.
2. *Binary reader and IR builder*: order and sizes of sections, function body
   counts, the label stack that nests expressions; composed with each other.
   *Binary writer and streams*: size fixups and relocations after compaction.
3. *C runtime and C API*: traps, `g_jmp_buf` and the saved depth when a host
   function tries in its turn; `wasm_memory_grow`, which breaks `SizesAgree`.
   *Interpreter*: `ReturnCallIndirect`, which asserts before it tests for null.
4. *Containers*: intrusive list, circular array and duplicate bindings as
   implementations of sequences; the lexer's lookahead on the circular array.
5. *Validator declarations*, text parser recovery, name passes, C writer and
   decompiler stacks, option parser.
6. *Theorems*: the simulation between `InterpCompiler` and `InterpThread`. The
   invariant would say of every instruction of a finished stream how the stack of
   types at its place (`typing`) relates to those at the places it may go on to,
   branches after their fixups included; `StackAsTypeChecked` and `LocalsFound`
   follow from it one step of the thread at a time, and the three properties of
   frames and callers from the stack of `frames`.
