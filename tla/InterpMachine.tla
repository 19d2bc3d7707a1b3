---------------------------- MODULE InterpMachine ----------------------------
(***************************************************************************)
(* The compiler and the thread together: a module is read, type checked    *)
(* and compiled in one pass, and then any of its functions is run.  The    *)
(* interpreter checks no types and no stack depths while it runs; it       *)
(* relies on the counts, indices and offsets the compiler has computed     *)
(* from the type checker's stacks.                                         *)
(*                                                                         *)
(* `typing' is not in the code: it remembers, for the stream offset at     *)
(* which a reachable instruction was read, the locals and operand types    *)
(* the type checker had there.  An offset is forgotten when a block nested *)
(* in dead code ends there without having emitted anything: what is read   *)
(* at that offset next is reached, if at all, by a branch to an outer end. *)
(***************************************************************************)
EXTENDS InterpCompiler

VARIABLES pc, values, calls, status, frames, typing

T == INSTANCE InterpThread WITH stream <- istream, offsets <- func_offset,
                                Functions <- DefinedFuncs, Hosts <- HostFuncs,
                                ValueStackSize <- unit.value_stack_size,
                                CallStackSize <- unit.call_stack_size

threadVars == <<pc, values, calls, status, frames>>

machineVars == <<compilerVars, threadVars, typing>>

MachineInit ==
    /\ CompilerInit
    /\ T!ThreadInit
    /\ typing = << >>

RememberTyping ==
    typing' = IF current_func # 0 /\ label_stack # << >> /\ ~TopLabel.unreachable
              THEN (Len(istream) :> LocalTypes \o type_stack) @@ typing
              ELSE [p \in DOMAIN typing \ {Len(istream)} |-> typing[p]]

Compile ==
    /\ ~Compiled
    /\ CompilerNext
    /\ RememberTyping
    /\ UNCHANGED threadVars

RunFunction ==
    /\ Compiled
    /\ \/ \E f \in Funcs : T!RunFunction(f)
       \/ \E h \in DOMAIN HostFuncs : T!RunHostFunction(h)
    /\ UNCHANGED <<compilerVars, typing>>

Execute ==
    /\ T!Run
    /\ UNCHANGED <<compilerVars, typing>>

MachineNext == Compile \/ RunFunction \/ Execute

MachineSpec == MachineInit /\ [][MachineNext]_machineVars

-----------------------------------------------------------------------------
Running == status = "running"

\* The locals and operands of the innermost call.
Activation == SubSeq(values, T!Frame.base + 1, Len(values))

(* What validation promises the interpreter: whenever it reaches the code of an
   instruction the type checker found reachable, by whatever branch or call, the
   innermost call has on the value stack exactly its locals and the operands
   the type checker had there. *)
StackAsTypeChecked ==
    (Running /\ pc \in DOMAIN typing) => Activation = typing[pc]

(* The interpreter pops bare values: each operand has been pushed at the type
   the instruction reads it at, and belongs to the innermost call. *)
OperandsAsExpected ==
    LET trusted == CASE T!Fetched.op = "plain" -> T!Fetched.pops
                     [] T!Fetched.op \in {"br_unless", "br_table"} -> <<"i32">>
                     [] T!Fetched.op = "call_indirect" -> Append(T!Fetched.pops, "i32")
                     [] OTHER -> << >>
    IN  Running =>
          /\ IsSuffix(trusted, Activation)
          /\ T!At("select") => /\ Len(Activation) >= 3
                               /\ T!Top(0) = "i32"
                               /\ T!Top(1) = T!Top(2)

(* A local is found: the depth the compiler computed for it leads to the
   local of that index in the innermost call, whatever lies above it. *)
LocalsFound ==
    (Running /\ T!Fetched.op \in {"local_get", "local_set", "local_tee"}) =>
        LET height == IF T!At("local_set") THEN Len(values) - 1 ELSE Len(values)
        IN  height - T!Arg(1) + 1 = T!Frame.base + T!Arg(2)

(* No call, tail calls included, disturbs what the calls around it keep on the
   value stack, nor moves its own place there. *)
CallersUndisturbed ==
    [][Running => \A i \in DOMAIN frames \intersect DOMAIN frames' :
           /\ frames'[i].base = frames[i].base
           /\ SubSeq(values', 1, frames[i].base) = SubSeq(values, 1, frames[i].base)
      ]_machineVars

(* A call that ends leaves exactly its results where its arguments were, which
   for the outermost one is what Executor::CopyResults asserts. *)
ReturnsDeclaredResults ==
    [][(Running /\ Len(frames') < Len(frames)) =>
           values' = SubSeq(values, 1, T!Frame.base) \o T!Frame.results]_machineVars
=============================================================================
