---------------------------- MODULE InterpThread ----------------------------
(***************************************************************************)
(* interp::Thread and interp::Executor (src/interp/interp.cc) running the  *)
(* stream InterpCompiler has produced.  The interpreter keeps bare values, *)
(* without their types, on one stack it shares between all the calls; here *)
(* a value is its type, so that the properties can say whether the         *)
(* interpreter uses a value at the type it was pushed at.  What the value  *)
(* is worth is left open: a condition, a table key or the element of a     *)
(* table may be any.                                                       *)
(*                                                                         *)
(* `frames' is not in the code: it remembers, for each call under way,     *)
(* where its arguments begin on the value stack and what it must return.   *)
(***************************************************************************)
EXTENDS Types, Integers, Sequences, SequencesExt

VARIABLES
    Functions,       \* [params, results, locals] of the defined functions
    Hosts,           \* [params, results] of the host functions
    ValueStackSize,  \* Thread::Options::value_stack_size
    CallStackSize,   \* Thread::Options::call_stack_size
    stream,   \* the instruction stream
    offsets,  \* where each function begins in it
    pc,       \* the next instruction, an offset into the stream
    values,   \* the value stack up to value_stack_top_
    calls,    \* the return offsets of the calls under way
    status,   \* "idle", "running", "returned" or "trapped"
    frames    \* [base, results] of the calls under way, the outermost first

Top(i) == values[Len(values) - i]

Fetched == stream[pc + 1]

Arg(i) == Fetched.args[i]

\* Thread::Pick counts from one past the top.
Pick(vs, depth) == vs[Len(vs) - depth + 1]

Replace(vs, depth, value) == [vs EXCEPT ![Len(vs) - depth + 1] = value]

PopN(n) == SubSeq(values, 1, Len(values) - n)

Frame == frames[Len(frames)]

-----------------------------------------------------------------------------
(* Thread::DropKeep copies one value at a time, the deepest first, so that *)
(* the two regions may overlap.                                            *)

\* Mutant: the topmost value is copied first.
DropKeepTopFirst(vs, drop, keep) ==
    LET top == Len(vs)
        copied == FoldLeft(LAMBDA acc, n : [acc EXCEPT ![top - drop - n] = acc[top - n]],
                           vs, [n \in 1..keep |-> n - 1])
    IN  SubSeq(copied, 1, top - drop)

DropKeep(vs, drop, keep) ==
    LET top == Len(vs)
        copied == FoldLeft(LAMBDA acc, n : [acc EXCEPT ![top - drop - n] = acc[top - n]],
                           vs, [n \in 1..keep |-> keep - n])
    IN  SubSeq(copied, 1, top - drop)

Goto(target, vs) ==
    /\ pc' = target
    /\ values' = vs
    /\ UNCHANGED <<calls, status, frames>>

Continue(vs) == Goto(pc + 1, vs)

Trap ==
    /\ status' = "trapped"
    /\ UNCHANGED <<pc, values, calls, frames>>

\* CHECK_STACK refuses a push when the stack is full: vs is the stack after
\* the pushes of an instruction.
Exhausted(vs) == Len(vs) > ValueStackSize

Settle(vs) == IF Exhausted(vs) THEN Trap ELSE Continue(vs)

NewFrame(vs, ft) == [base |-> Len(vs) - Len(ft.params), results |-> ft.results]

\* PushCall, then the jump.
Enter(f, vs, target) ==
    IF Len(calls) >= CallStackSize
    THEN Trap
    ELSE /\ calls' = Append(calls, pc + 1)
         /\ frames' = Append(frames, NewFrame(vs, Functions[f]))
         /\ pc' = target
         /\ values' = vs
         /\ UNCHANGED status

\* The caller's frame is reused, and the call stack does not grow.
TailEnter(f, vs, target) ==
    /\ frames' = [frames EXCEPT ![Len(frames)] = NewFrame(vs, Functions[f])]
    /\ pc' = target
    /\ values' = vs
    /\ UNCHANGED <<calls, status>>

Leave(vs) ==
    /\ values' = vs
    /\ frames' = SubSeq(frames, 1, Len(frames) - 1)
    /\ IF calls = << >>
       THEN status' = "returned" /\ UNCHANGED <<pc, calls>>
       ELSE /\ pc' = Last(calls)
            /\ calls' = Front(calls)
            /\ UNCHANGED status

\* Thread::CallHost pops the arguments and pushes what the callback returns,
\* checked against the signature.
HostResult(vs, h) == SubSeq(vs, 1, Len(vs) - Len(Hosts[h].params)) \o Hosts[h].results

\* The callback may trap or return the wrong types.
HostTraps == Trap

At(op) == status = "running" /\ Fetched.op = op

-----------------------------------------------------------------------------
(* Thread::Run, one instruction.                                           *)

\* Every instruction whose semantics is to pop operands and push results.
Plain == At("plain") /\ Settle(PopN(Len(Fetched.pops)) \o Fetched.push)

Select ==
    /\ At("select")
    /\ \E choice \in {1, 2} : Continue(Append(PopN(3), Top(choice)))

Br == At("br") /\ Goto(Arg(1), values)

BrUnless ==
    /\ At("br_unless")
    /\ \/ Goto(Arg(1), PopN(1))
       \/ Continue(PopN(1))

\* A key past the last target takes the default entry, the last one.
BrTable ==
    /\ At("br_table")
    /\ \E key \in 0..Arg(1) :
          LET entry == stream[Arg(2) + key + 1]
          IN  Goto(entry.args[1], DropKeep(PopN(1), entry.args[2], entry.args[3]))

Drop == At("drop") /\ Continue(PopN(1))

InterpDropKeep == At("drop_keep") /\ Continue(DropKeep(values, Arg(1), Arg(2)))

\* The locals start as zeros.
InterpAlloca ==
    /\ At("alloca")
    /\ IF Len(values) + Len(Fetched.args) >= ValueStackSize
       THEN Trap
       ELSE Continue(values \o Fetched.args)

LocalGet == At("local_get") /\ Settle(Append(values, Pick(values, Arg(1))))

LocalSet ==
    /\ At("local_set")
    /\ Continue(Replace(PopN(1), Arg(1), Top(0)))

LocalTee ==
    /\ At("local_tee")
    /\ Continue(Replace(values, Arg(1), Top(0)))

Unreachable == At("unreachable") /\ Trap

Return == At("return") /\ Leave(values)

Call ==
    /\ At("call")
    /\ \E f \in DOMAIN Functions : offsets[f] = Arg(1) /\ Enter(f, values, Arg(1))

ReturnCall ==
    /\ At("return_call")
    /\ \E f \in DOMAIN Functions : offsets[f] = Arg(1) /\ TailEnter(f, values, Arg(1))

CallHost ==
    /\ At("call_host")
    /\ \/ HostTraps
       \/ Settle(HostResult(values, Arg(1)))

SameSignature(ft) == ft.params = Fetched.pops /\ ft.results = Fetched.push

\* The index may be out of range, the element null or of another signature.
CallIndirect ==
    /\ At("call_indirect")
    /\ \/ Trap
       \/ \E f \in DOMAIN Functions :
             SameSignature(Functions[f]) /\ Enter(f, PopN(1), offsets[f])
       \/ \E h \in DOMAIN Hosts :
             SameSignature(Hosts[h]) /\ Settle(HostResult(PopN(1), h))

ReturnCallIndirect ==
    /\ At("return_call_indirect")
    /\ \/ Trap
       \/ \E f \in DOMAIN Functions :
             SameSignature(Functions[f]) /\ TailEnter(f, PopN(1), offsets[f])
       \/ \E h \in DOMAIN Hosts :
             /\ SameSignature(Hosts[h])
             /\ LET vs == HostResult(PopN(1), h)
                IN  IF Exhausted(vs) THEN Trap ELSE Leave(vs)

Run ==
    \/ Plain \/ Select \/ Br \/ BrUnless \/ BrTable \/ Drop \/ InterpDropKeep
    \/ InterpAlloca \/ LocalGet \/ LocalSet \/ LocalTee \/ Unreachable \/ Return
    \/ Call \/ ReturnCall \/ CallHost \/ CallIndirect \/ ReturnCallIndirect

\* Executor::RunFunction: Reset, PushArgs, then the function's first
\* instruction.  Arguments that do not fit never start it.
RunFunction(f) ==
    /\ status # "running"
    /\ ~Exhausted(Functions[f].params)
    /\ values' = Functions[f].params
    /\ calls' = << >>
    /\ pc' = offsets[f]
    /\ frames' = <<NewFrame(Functions[f].params, Functions[f])>>
    /\ status' = "running"

\* A host function runs at once, on the thread's own stack.
RunHostFunction(h) ==
    /\ status # "running"
    /\ ~Exhausted(Hosts[h].params)
    /\ pc' = 0
    /\ calls' = << >>
    /\ frames' = << >>
    /\ \/ /\ ~Exhausted(Hosts[h].results)
          /\ values' = Hosts[h].results
          /\ status' = "returned"
       \/ /\ values' = << >>
          /\ status' = "trapped"

ThreadInit ==
    /\ pc = 0
    /\ values = << >>
    /\ calls = << >>
    /\ status = "idle"
    /\ frames = << >>
=============================================================================
