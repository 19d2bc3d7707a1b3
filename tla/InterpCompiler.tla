--------------------------- MODULE InterpCompiler ---------------------------
(***************************************************************************)
(* BinaryReaderInterp (src/interp/binary-reader-interp.cc): function bodies *)
(* are type checked and translated in one pass into the interpreter's      *)
(* instruction stream.  The compiler keeps a label stack of its own beside *)
(* the type checker's, emits forward branches with a placeholder it patches *)
(* when the block ends (depth_fixups_, fixup_offset), calls to functions   *)
(* not yet compiled with one it patches when they begin (func_fixups_),    *)
(* and computes from the type stack how many operands a branch drops.      *)
(*                                                                         *)
(* The stream is a sequence of instructions rather than of bytes: an offset *)
(* is the number of instructions before it, and patching an offset is      *)
(* patching the first operand of an instruction.                           *)
(***************************************************************************)
EXTENDS TypeChecker, FiniteSets, SequencesExt

CONSTANTS
    Units    \* the modules to be read, see Unit

\* What the runs vary of the module being read: its functions and imports, the
\* block types and instructions its bodies are made of, the sizes of the
\* thread that will run it, and bounds on the bodies.
Unit == [funcs : Seq([params : TypeVector, results : TypeVector, locals : TypeVector]),
         hosts : Seq(FuncType),
         types : SUBSET FuncTypes,
         opcodes : SUBSET Opcodes,
         menu : SUBSET STRING,
         value_stack_size : Nat, call_stack_size : Nat,
         max_instrs : Nat, max_depth : Nat, max_types : Nat, max_labels : Nat]

ASSUME CompilerAssumption == Units \subseteq Unit

VARIABLES
    unit,          \* the module being read
    istream,       \* the instructions emitted so far
    labels,        \* label_stack_ of the compiler: [offset, fixup_offset]
    depth_fixups,  \* per label position, the branches to be patched at its end
    func_fixups,   \* per function, the calls to be patched at its beginning
    func_offset,   \* per function, where it begins, or Invalid
    current_func,  \* the function being compiled, or 0
    instrs         \* instructions read so far

codeVars == <<istream, labels, depth_fixups, func_fixups, func_offset>>

compilerVars == <<unit, type_stack, label_stack, failed, printed, istream, labels,
                  depth_fixups, func_fixups, func_offset, current_func, instrs>>

Invalid == -1

\* The module's own functions, and those it imports from the host.
DefinedFuncs == unit.funcs
HostFuncs == unit.hosts

Funcs == DOMAIN DefinedFuncs

FuncTypeOf(f) == [params |-> DefinedFuncs[f].params, results |-> DefinedFuncs[f].results]

\* param_and_local_types of the function being compiled.
LocalTypes == DefinedFuncs[current_func].params \o DefinedFuncs[current_func].locals

Instr(op, args, pops, push) == [op |-> op, args |-> args, pops |-> pops, push |-> push]

\* An instruction whose operand types the interpreter takes on trust.
Control(op, args) == Instr(op, args, << >>, << >>)

\* The instructions whose first operand is an offset into the stream.
Jumps == {"br", "br_unless", "table_entry"}
CallJumps == {"call", "return_call"}

-----------------------------------------------------------------------------
(* Emission.                                                               *)

EmitAt(stream, positions, offset) ==
    [p \in DOMAIN stream |->
        IF p \in positions THEN [stream[p] EXCEPT !.args[1] = offset] ELSE stream[p]]

EmitDropKeep(drop, keep) ==
    IF drop = 0 THEN << >>
    ELSE IF drop = 1 /\ keep = 0 THEN <<Control("drop", << >>)>>
    ELSE <<Control("drop_keep", <<drop, keep>>)>>

GetDropCount(ts, keep, limit) ==
    IF Len(ts) - limit >= keep THEN Len(ts) - limit - keep ELSE 0

BrKeep(ls, depth) == Len(br_types(ls[Len(ls) - depth]))

BrDrop(ts, ls, depth) ==
    GetDropCount(ts, BrKeep(ls, depth), ls[Len(ls) - depth].type_stack_limit)

\* Mutant: the locals are left behind.
ReturnDropKeepNoLocals(ts, ls) ==
    EmitDropKeep(BrDrop(ts, ls, Len(ls) - 1), BrKeep(ls, Len(ls) - 1))

\* The bottom label carries the results, and the locals go with the operands.
ReturnDropKeep(ts, ls) ==
    EmitDropKeep(BrDrop(ts, ls, Len(ls) - 1) + Len(LocalTypes), BrKeep(ls, Len(ls) - 1))

\* Mutant: the locals are left behind.
ReturnCallDropKeepNoLocals(ts, ft, keepExtra) ==
    LET keep == Len(ft.params) + keepExtra
    IN  EmitDropKeep(GetDropCount(ts, keep, 0), keep)

\* The operands of the callee are kept, and with keepExtra the table index.
ReturnCallDropKeep(ts, ft, keepExtra) ==
    LET keep == Len(ft.params) + keepExtra
    IN  EmitDropKeep(GetDropCount(ts, keep, 0) + Len(LocalTypes), keep)

LabelPosition(depth) == Len(labels) - depth

\* Fixups that branches at these stream positions add, one per position.
AddFixup(fixups, depth, position) ==
    IF labels[LabelPosition(depth)].offset = Invalid
    THEN [fixups EXCEPT ![LabelPosition(depth)] = @ \union {position}]
    ELSE fixups

EmitBr(depth, drop, keep) ==
    EmitDropKeep(drop, keep) \o <<Control("br", <<labels[LabelPosition(depth)].offset>>)>>

NoFixups == [position \in 1..unit.max_labels |-> {}]

\* FixupTopLabel: the pending branches to the top label end here.
FixupTopLabel(stream) ==
    EmitAt(stream, depth_fixups[Len(labels)], Len(stream))

\* Mutant: depth_fixups_ is not trimmed.
PopLabelUntrimmed ==
    /\ labels' = SubSeq(labels, 1, Len(labels) - 1)
    /\ UNCHANGED depth_fixups

\* PopLabel also trims depth_fixups_ to the labels that are left.
PopLabel ==
    /\ labels' = SubSeq(labels, 1, Len(labels) - 1)
    /\ depth_fixups' = [p \in DOMAIN depth_fixups |->
                           IF p < Len(labels) THEN depth_fixups[p] ELSE {}]

PushLabel(offset, fixup_offset) ==
    labels' = Append(labels, [offset |-> offset, fixup_offset |-> fixup_offset])

Emit(code) ==
    /\ istream' = istream \o code
    /\ UNCHANGED <<labels, depth_fixups, func_fixups, func_offset>>

-----------------------------------------------------------------------------
(* The callbacks of the binary reader.                                     *)

\* Every callback returns at the first Error, before it has emitted anything
\* that outlives it: ReadBinaryInterp discards the module's code.
Unless(emission) == IF failed' THEN UNCHANGED codeVars ELSE emission

BeginFunctionBody(f) ==
    /\ current_func = 0
    /\ func_offset[f] = Invalid
    /\ \A g \in Funcs : g < f => func_offset[g] # Invalid
    /\ BeginFunction(FuncTypeOf(f))
    /\ current_func' = f
    /\ func_offset' = [func_offset EXCEPT ![f] = Len(istream)]
    /\ istream' = EmitAt(istream, func_fixups[f], Len(istream))
                    \o IF DefinedFuncs[f].locals = << >> THEN << >>
                       ELSE <<Control("alloca", DefinedFuncs[f].locals)>>
    /\ labels' = <<[offset |-> Invalid, fixup_offset |-> Invalid]>>
    /\ depth_fixups' = NoFixups
    /\ UNCHANGED <<func_fixups, instrs>>

EndFunctionBody ==
    /\ LET code == ReturnDropKeep(type_stack, label_stack)
                      \o <<Control("return", << >>)>>
       IN  /\ EndFunction
           /\ Unless(/\ istream' = FixupTopLabel(istream) \o code
                     /\ PopLabel
                     /\ UNCHANGED <<func_fixups, func_offset>>)
    /\ current_func' = IF failed' THEN current_func ELSE 0

\* Mutant: a loop's label has no offset either.
OnBlockExprNoOffset(kind, ft) ==
    /\ OnBlock(kind, ft)
    /\ Unless(/\ PushLabel(Invalid, Invalid)
              /\ UNCHANGED <<istream, depth_fixups, func_fixups, func_offset>>)

OnBlockExpr(kind, ft) ==
    /\ OnBlock(kind, ft)
    /\ Unless(/\ PushLabel(IF kind = "loop" THEN Len(istream) ELSE Invalid, Invalid)
              /\ UNCHANGED <<istream, depth_fixups, func_fixups, func_offset>>)

OnIfExpr(ft) ==
    /\ OnIf(ft)
    /\ Unless(/\ istream' = Append(istream, Control("br_unless", <<Invalid>>))
              /\ PushLabel(Invalid, Len(istream) + 1)
              /\ UNCHANGED <<depth_fixups, func_fixups, func_offset>>)

\* The true branch jumps over the false one, which is where the condition's
\* branch goes.
OnElseExpr ==
    /\ OnElse
    /\ Unless(/\ istream' = EmitAt(Append(istream, Control("br", <<Invalid>>)),
                                   {labels[Len(labels)].fixup_offset},
                                   Len(istream) + 1)
              /\ labels' = [labels EXCEPT ![Len(labels)].fixup_offset = Len(istream) + 1]
              /\ UNCHANGED <<depth_fixups, func_fixups, func_offset>>)

OnEndExpr ==
    /\ OnEnd
    /\ LET patched == IF TopLabel.label_type \in {"if", "else"}
                      THEN EmitAt(istream, {labels[Len(labels)].fixup_offset}, Len(istream))
                      ELSE istream
       IN  Unless(/\ istream' = FixupTopLabel(patched)
                  /\ PopLabel
                  /\ UNCHANGED <<func_fixups, func_offset>>)

\* The counts are taken from the type stack before the branch empties it.
OnBrExpr(depth) ==
    /\ OnBr(depth)
    /\ Unless(LET code == EmitBr(depth, BrDrop(type_stack, label_stack, depth),
                                 BrKeep(label_stack, depth))
              IN  /\ istream' = istream \o code
                  /\ depth_fixups' = AddFixup(depth_fixups, depth, Len(istream \o code))
                  /\ UNCHANGED <<labels, func_fixups, func_offset>>)

\* Mutant: the counts are taken before the condition has left the stack.
OnBrIfExprCountsFirst(depth) ==
    /\ OnBrIf(depth)
    /\ Unless(LET br == EmitBr(depth, BrDrop(type_stack, label_stack, depth),
                               BrKeep(label_stack, depth))
                  end == Len(istream) + 1 + Len(br)
              IN  /\ istream' = istream \o <<Control("br_unless", <<end>>)>> \o br
                  /\ depth_fixups' = AddFixup(depth_fixups, depth, end)
                  /\ UNCHANGED <<labels, func_fixups, func_offset>>)

\* The counts are taken after the condition has left the type stack, and the
\* branch is flipped so that the operands are dropped only when it is taken.
OnBrIfExpr(depth) ==
    /\ OnBrIf(depth)
    /\ Unless(LET br == EmitBr(depth, BrDrop(type_stack', label_stack', depth),
                               BrKeep(label_stack', depth))
                  end == Len(istream) + 1 + Len(br)
              IN  /\ istream' = istream \o <<Control("br_unless", <<end>>)>> \o br
                  /\ depth_fixups' = AddFixup(depth_fixups, depth, end)
                  /\ UNCHANGED <<labels, func_fixups, func_offset>>)

\* The entries follow the br_table instruction and the data marker.
OnBrTableExpr(depths) ==
    LET ts == PopTypes(type_stack, TopLabel, <<"i32">>)
        table == Len(istream) + 2
        entry(i) == Control("table_entry",
                        <<labels[LabelPosition(depths[i])].offset,
                          BrDrop(ts, label_stack, depths[i]),
                          BrKeep(label_stack, depths[i])>>)
        fixups(p) == {table + i : i \in {j \in DOMAIN depths :
                                            /\ LabelPosition(depths[j]) = p
                                            /\ labels[p].offset = Invalid}}
    IN  /\ OnBrTable(depths)
        /\ Unless(/\ istream' = istream
                        \o <<Control("br_table", <<Len(depths) - 1, table>>),
                             Control("data", << >>)>>
                        \o [i \in DOMAIN depths |-> entry(i)]
                  /\ depth_fixups' = [p \in DOMAIN depth_fixups |->
                                         depth_fixups[p] \union
                                           IF p \in DOMAIN labels THEN fixups(p) ELSE {}]
                  /\ UNCHANGED <<labels, func_fixups, func_offset>>)

OnReturnExpr ==
    /\ OnReturn
    /\ Unless(Emit(ReturnDropKeep(type_stack, label_stack)
                     \o <<Control("return", << >>)>>))

\* Mutant: the fixup forgets the code emitted before the call.
EmitCallFixupEarly(op, f, before) ==
    /\ istream' = istream \o before \o <<Control(op, <<func_offset[f]>>)>>
    /\ func_fixups' = IF func_offset[f] = Invalid
                      THEN [func_fixups EXCEPT ![f] = @ \union {Len(istream) + 1}]
                      ELSE func_fixups
    /\ UNCHANGED <<labels, depth_fixups, func_offset>>

\* EmitFuncOffset: a function that has not begun is called through a fixup.
EmitCall(op, f, before) ==
    /\ istream' = istream \o before \o <<Control(op, <<func_offset[f]>>)>>
    /\ func_fixups' = IF func_offset[f] = Invalid
                      THEN [func_fixups EXCEPT ![f] = @ \union {Len(istream) + Len(before) + 1}]
                      ELSE func_fixups
    /\ UNCHANGED <<labels, depth_fixups, func_offset>>

OnCallExpr(f) == OnCall(FuncTypeOf(f)) /\ Unless(EmitCall("call", f, << >>))

CallHost(h) == Control("call_host", <<h>>)

OnCallHostExpr(h) == OnCall(HostFuncs[h]) /\ Unless(Emit(<<CallHost(h)>>))

\* The signature stays with the instruction, to be compared with the callee's.
CallIndirect(op, ft) == Instr(op, << >>, ft.params, ft.results)

OnCallIndirectExpr(ft) ==
    OnCallIndirect(ft) /\ Unless(Emit(<<CallIndirect("call_indirect", ft)>>))

OnReturnCallExpr(f) ==
    /\ OnReturnCall(FuncTypeOf(f))
    /\ Unless(EmitCall("return_call", f,
                       ReturnCallDropKeep(type_stack, FuncTypeOf(f), 0)))

OnReturnCallHostExpr(h) ==
    /\ OnReturnCall(HostFuncs[h])
    /\ Unless(Emit(ReturnCallDropKeep(type_stack, HostFuncs[h], 0)
                     \o <<CallHost(h), Control("return", << >>)>>))

OnReturnCallIndirectExpr(ft) ==
    /\ OnReturnCallIndirect(ft)
    /\ Unless(Emit(ReturnCallDropKeep(type_stack, ft, 1)
                     \o <<CallIndirect("return_call_indirect", ft)>>))

OnDropExpr == OnDrop /\ Unless(Emit(<<Control("drop", << >>)>>))

OnConstExpr(type) == OnPush(type) /\ Unless(Emit(<<Instr("plain", << >>, << >>, <<type>>)>>))

OnPlainExpr(op) ==
    /\ OnOpcode(op)
    /\ Unless(Emit(<<Instr("plain", << >>, op.params,
                           IF op.result = "void" THEN << >> ELSE <<op.result>>)>>))

OnSelectExpr(type) == OnSelect(type) /\ Unless(Emit(<<Control("select", << >>)>>))

OnUnreachableExpr == OnUnreachable /\ Unless(Emit(<<Control("unreachable", << >>)>>))

\* How far below the top of the value stack local i (counted from 1) will be.
TranslateLocalIndex(ts, i) == Len(ts) + Len(LocalTypes) - (i - 1)

\* Mutant: the index is taken after the value is on the type stack.
OnLocalGetExprAfter(i) ==
    /\ OnPush(LocalTypes[i])
    /\ Unless(Emit(<<Control("local_get", <<TranslateLocalIndex(type_stack', i), i>>)>>))

OnLocalGetExpr(i) ==
    /\ OnPush(LocalTypes[i])
    /\ Unless(Emit(<<Control("local_get", <<TranslateLocalIndex(type_stack, i), i>>)>>))

OnLocalSetExpr(i) ==
    /\ OnSet(LocalTypes[i])
    /\ Unless(Emit(<<Control("local_set", <<TranslateLocalIndex(type_stack', i), i>>)>>))

OnLocalTeeExpr(i) ==
    /\ OnLocalTee(LocalTypes[i])
    /\ Unless(Emit(<<Control("local_tee", <<TranslateLocalIndex(type_stack', i), i>>)>>))

-----------------------------------------------------------------------------
CompilerInit ==
    /\ Init
    /\ unit \in Units
    /\ istream = << >>
    /\ labels = << >>
    /\ depth_fixups = NoFixups
    /\ func_fixups = [f \in Funcs |-> {}]
    /\ func_offset = [f \in Funcs |-> Invalid]
    /\ current_func = 0
    /\ instrs = 0

Offered(name) == name \in unit.menu

Branch ==
    \E depth \in 0..unit.max_depth :
       \/ Offered("br") /\ OnBrExpr(depth)
       \/ Offered("br_if") /\ OnBrIfExpr(depth)
       \/ \E other \in 0..unit.max_depth : Offered("br_table") /\ OnBrTableExpr(<<depth, other>>)

Block ==
    \/ \E ft \in unit.types :
          \/ \E kind \in {"block", "loop"} : Offered(kind) /\ OnBlockExpr(kind, ft)
          \/ Offered("if") /\ OnIfExpr(ft)
    \/ Offered("if") /\ OnElseExpr
    \/ OnEndExpr

Call ==
    \/ \E f \in Funcs :
          \/ Offered("call") /\ OnCallExpr(f)
          \/ Offered("return_call") /\ OnReturnCallExpr(f)
    \/ \E h \in DOMAIN HostFuncs :
          \/ Offered("call") /\ OnCallHostExpr(h)
          \/ Offered("return_call") /\ OnReturnCallHostExpr(h)
    \/ \E ft \in unit.types :
          \/ Offered("call_indirect") /\ OnCallIndirectExpr(ft)
          \/ Offered("return_call_indirect") /\ OnReturnCallIndirectExpr(ft)
    \/ Offered("return") /\ OnReturnExpr

Plain ==
    \/ \E type \in PushedTypes : OnConstExpr(type)
    \/ \E op \in unit.opcodes : OnPlainExpr(op)
    \/ \E i \in DOMAIN LocalTypes :
          \/ Offered("local_get") /\ OnLocalGetExpr(i)
          \/ Offered("local_set") /\ OnLocalSetExpr(i)
          \/ Offered("local_tee") /\ OnLocalTeeExpr(i)
    \/ \E type \in SelectTypes : Offered("select") /\ OnSelectExpr(type)
    \/ Offered("drop") /\ OnDropExpr
    \/ Offered("unreachable") /\ OnUnreachableExpr

\* OnOpcode refuses an instruction after the function's label has been closed.
UnexpectedOpcode ==
    /\ labels = << >>
    /\ failed' = TRUE
    /\ printed' = TRUE
    /\ UNCHANGED <<type_stack, label_stack, current_func>>
    /\ UNCHANGED codeVars

ReadInstr ==
    /\ current_func # 0
    /\ ~failed
    /\ instrs < unit.max_instrs
    /\ instrs' = instrs + 1
    /\ \/ UnexpectedOpcode
       \/ labels # << >> /\ (Branch \/ Block \/ Call \/ Plain) /\ UNCHANGED current_func

\* The last end of a body is an opcode like the others.
ReadLastEnd ==
    /\ current_func # 0
    /\ ~failed
    /\ UNCHANGED instrs
    /\ \/ UnexpectedOpcode
       \/ labels # << >> /\ EndFunctionBody

CompilerNext ==
    /\ \/ ~failed /\ \E f \in Funcs : BeginFunctionBody(f)
       \/ ReadInstr
       \/ ReadLastEnd
    /\ Len(type_stack') <= unit.max_types
    /\ Len(label_stack') <= unit.max_labels
    /\ UNCHANGED unit

CompilerSpec == CompilerInit /\ [][CompilerNext]_compilerVars

\* The module has been read without an error.
Compiled == ~failed /\ current_func = 0 /\ \A f \in Funcs : func_offset[f] # Invalid

-----------------------------------------------------------------------------
(* The two label stacks are in step while a body is compiled without error,
   and a label has an offset to branch back to exactly when it is a loop's:
   the compiler looks a branch depth up in both. *)
LabelStacksInStep ==
    (current_func # 0 /\ ~failed) =>
        /\ Len(labels) = Len(label_stack)
        /\ \A i \in DOMAIN labels :
              labels[i].offset # Invalid <=> label_stack[i].label_type = "loop"

\* The stream positions of the jumps with these opcodes that still hold a
\* placeholder.
Unpatched(ops) ==
    {p \in DOMAIN istream : istream[p].op \in ops /\ istream[p].args[1] = Invalid}

IfFixups == {labels[i].fixup_offset : i \in DOMAIN labels} \ {Invalid}

(* A branch holds a placeholder exactly as long as one fixup list, that of a
   label still open, or one open if remembers to patch it: none is forgotten
   and none is patched again by a later block of the same depth. *)
BranchFixupsExact ==
    ~failed =>
        /\ Unpatched(Jumps) = (UNION Range(depth_fixups)) \union IfFixups
        /\ \A p, q \in DOMAIN depth_fixups :
              p # q => depth_fixups[p] \intersect depth_fixups[q] = {}
        /\ IfFixups \intersect UNION Range(depth_fixups) = {}

(* A call holds a placeholder exactly as long as its callee has not begun; and
   a module read without an error has none left. *)
CallFixupsExact ==
    ~failed =>
        /\ Unpatched(CallJumps) =
              UNION {func_fixups[f] : f \in {g \in Funcs : func_offset[g] = Invalid}}
        /\ Compiled => Unpatched(Jumps \union CallJumps) = {}
=============================================================================
