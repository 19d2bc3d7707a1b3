----------------------------- MODULE TypeChecker -----------------------------
(***************************************************************************)
(* class TypeChecker (src/type-checker.cc): the operand-type stack and the *)
(* label stack that both validating clients of WABT drive, one handler per *)
(* instruction.  A handler reports an error in two ways that its clients   *)
(* read separately: BinaryReaderInterp stops on the Result it returns,     *)
(* while Validator ignores most Results and learns of an error from the    *)
(* message passed to the error callback.  `failed' and `printed' record    *)
(* the two verdicts.                                                       *)
(*                                                                         *)
(* This module's own next-state relation is that of a client that stops at *)
(* the first Error, as BinaryReaderInterp does; ValidatorWalk composes the *)
(* same handlers with the client that goes on.                             *)
(***************************************************************************)
EXTENDS Types, Integers, Sequences

CONSTANTS
    FuncTypes,       \* signatures of functions and blocks
    Opcodes,         \* [params, result] rows of the opcode table
    PushedTypes,     \* types that constants, locals and globals have
    SelectTypes,     \* annotations of select; "any" for the untyped one
    EventTypes,      \* parameter lists of exception events
    LaneOps,         \* rows of the opcode table of the lane and shuffle operators
    ReferenceTypes,  \* the reference-types feature flag
    MaxDepth,        \* largest label index a branch names
    MaxTypes,        \* bound on the operand stack
    MaxLabels        \* bound on the nesting of blocks

TypeVector == Seq(StackType)

FuncType == [params : TypeVector, results : TypeVector]

OpcodeRow == [params : TypeVector, result : StackType \union {"void"}]

ASSUME TypeCheckerAssumption ==
    /\ FuncTypes \subseteq FuncType
    /\ Opcodes \subseteq OpcodeRow
    /\ LaneOps \subseteq OpcodeRow
    /\ PushedTypes \subseteq StackType
    /\ SelectTypes \subseteq StackType
    /\ EventTypes \subseteq TypeVector
    /\ ReferenceTypes \in BOOLEAN
    /\ MaxDepth \in Nat
    /\ MaxTypes \in Nat
    /\ MaxLabels \in Nat

VARIABLES
    type_stack,   \* the operand types
    label_stack,  \* one Label per open block, the function's first
    failed,       \* some handler has returned Result::Error
    printed       \* some handler has called the error callback

tcVars == <<type_stack, label_stack, failed, printed>>

BlockKind == {"block", "loop", "try"}

LabelType == BlockKind \union {"func", "if", "else", "catch"}

Label == [label_type : LabelType, param_types : TypeVector,
          result_types : TypeVector, type_stack_limit : Nat,
          unreachable : BOOLEAN]

TypeOK ==
    /\ type_stack \in TypeVector
    /\ label_stack \in Seq(Label)
    /\ failed \in BOOLEAN
    /\ printed \in BOOLEAN

-----------------------------------------------------------------------------
(* Stacks: ts is an operand stack, l the top label.                        *)

TopLabel == label_stack[Len(label_stack)]

GetLabel(depth) == label_stack[Len(label_stack) - depth]

\* The types a branch to l carries.
br_types(l) == IF l.label_type = "loop" THEN l.param_types ELSE l.result_types

ResetTypeStackToLabel(ts, l) == SubSeq(ts, 1, l.type_stack_limit)

\* Below the limit of the top label the stack reads as unknown, which is an
\* error only in reachable code.
PeekType(ts, l, depth) ==
    IF l.type_stack_limit + depth >= Len(ts) THEN "any" ELSE ts[Len(ts) - depth]

\* Mutant: dead code is not excused.
PeekOkAlways(ts, l, depth) == l.type_stack_limit + depth < Len(ts)

PeekOk(ts, l, depth) == l.type_stack_limit + depth < Len(ts) \/ l.unreachable

PeekAndCheckType(ts, l, depth, expected) ==
    PeekOk(ts, l, depth) /\ CheckType(PeekType(ts, l, depth), expected)

\* Mutant: dead code drops what is below its block.
DropTypesPastLimit(ts, l, count) ==
    IF count > Len(ts) THEN << >> ELSE SubSeq(ts, 1, Len(ts) - count)

DropTypes(ts, l, count) ==
    IF l.type_stack_limit + count > Len(ts)
    THEN ResetTypeStackToLabel(ts, l)
    ELSE SubSeq(ts, 1, Len(ts) - count)

DropOk(ts, l, count) == l.type_stack_limit + count <= Len(ts) \/ l.unreachable

\* Mutant: the result of an instruction without one is pushed.
PushTypeVoidToo(ts, type) == Append(ts, type)

PushType(ts, type) == IF type = "void" THEN ts ELSE Append(ts, type)

\* Every expected type is checked against the stack before any is dropped.
CheckSignature(ts, l, sig) ==
    \A i \in DOMAIN sig : PeekAndCheckType(ts, l, Len(sig) - i, sig[i])

PopTypes(ts, l, sig) == DropTypes(ts, l, Len(sig))

PopOk(ts, l, sig) == CheckSignature(ts, l, sig) /\ DropOk(ts, l, Len(sig))

\* PopAndCheckSignature and CheckTypeStackEnd, as an arm of a block ends.
ArmEndOk(ts, l) ==
    /\ PopOk(ts, l, l.result_types)
    /\ Len(PopTypes(ts, l, l.result_types)) = l.type_stack_limit

NewLabel(kind, params, results, limit) ==
    [label_type |-> kind, param_types |-> params, result_types |-> results,
     type_stack_limit |-> limit, unreachable |-> FALSE]

SetTop(l) == [label_stack EXCEPT ![Len(label_stack)] = l]

AllButTop == SubSeq(label_stack, 1, Len(label_stack) - 1)

-----------------------------------------------------------------------------
(* How a handler ends: the stacks it leaves, the Result it returns and     *)
(* whether it called the error callback.                                   *)

Finish(ts, ls, result, message) ==
    /\ type_stack' = ts
    /\ label_stack' = ls
    /\ failed' = (failed \/ ~result)
    /\ printed' = (printed \/ message)

\* Nearly every handler prints exactly when it fails.
Return(ts, ls, result) == Finish(ts, ls, result, ~result)

\* GetLabel prints and fails before the handler has changed anything else.
InvalidDepth(ts) == Return(ts, label_stack, FALSE)

\* The handler's last call is SetUnreachable.
ReturnUnreachable(ts, result) ==
    Return(ResetTypeStackToLabel(ts, TopLabel),
           SetTop([TopLabel EXCEPT !.unreachable = TRUE]), result)

\* PopAndCheckCall, after `cond' has been popped.
PopAndPush(cond, params, results) ==
    LET ts == PopTypes(type_stack, TopLabel, cond)
    IN  Return(PopTypes(ts, TopLabel, params) \o results, label_stack,
               /\ PopOk(type_stack, TopLabel, cond)
               /\ PopOk(ts, TopLabel, params))

\* Mutant: no label is pushed when the operands are wrong.
OpenLabelIfOk(kind, cond, ft) ==
    LET ts1 == PopTypes(type_stack, TopLabel, cond)
        ts2 == PopTypes(ts1, TopLabel, ft.params)
        ok == PopOk(type_stack, TopLabel, cond) /\ PopOk(ts1, TopLabel, ft.params)
    IN  Return(ts2 \o ft.params,
               IF ok THEN Append(label_stack, NewLabel(kind, ft.params, ft.results, Len(ts2)))
                     ELSE label_stack, ok)

\* OnBlock, OnLoop, OnTry and, with a condition, OnIf.
OpenLabel(kind, cond, ft) ==
    LET ts1 == PopTypes(type_stack, TopLabel, cond)
        ts2 == PopTypes(ts1, TopLabel, ft.params)
    IN  Return(ts2 \o ft.params,
               Append(label_stack, NewLabel(kind, ft.params, ft.results, Len(ts2))),
               /\ PopOk(type_stack, TopLabel, cond)
               /\ PopOk(ts1, TopLabel, ft.params))

-----------------------------------------------------------------------------
(* Handlers of the instructions without control.                           *)

\* CheckOpcode1, CheckOpcode2 and CheckOpcode3: the unary, binary, ternary,
\* compare, convert, load, store, atomic and bulk handlers call one of them.
OnOpcode(op) ==
    Return(PushType(PopTypes(type_stack, TopLabel, op.params), op.result),
           label_stack, PopOk(type_stack, TopLabel, op.params))

\* OnConst, OnLocalGet, OnGlobalGet, OnMemorySize, OnTableSize, OnRefFuncExpr
\* and OnRefNullExpr.
OnPush(type) == Return(PushType(type_stack, type), label_stack, TRUE)

\* OnLocalSet and OnGlobalSet.
OnSet(type) == PopAndPush(<< >>, <<type>>, << >>)

OnLocalTee(type) == PopAndPush(<< >>, <<type>>, <<type>>)

OnTableGet(elem) == PopAndPush(<< >>, <<"i32">>, <<elem>>)

OnTableSet(elem) == PopAndPush(<< >>, <<"i32", elem>>, << >>)

OnTableGrow(elem) == PopAndPush(<< >>, <<elem, "i32">>, <<"i32">>)

OnTableFill(elem) == PopAndPush(<< >>, <<"i32", elem, "i32">>, << >>)

OnRefIsNullExpr == PopAndPush(<< >>, <<"anyref">>, <<"i32">>)

\* Mutant: no message.
OnDropSilent ==
    Finish(DropTypes(type_stack, TopLabel, 1), label_stack,
           DropOk(type_stack, TopLabel, 1), FALSE)

OnDrop ==
    Return(DropTypes(type_stack, TopLabel, 1), label_stack,
           DropOk(type_stack, TopLabel, 1))

\* The lane index is checked with a message only: the Result is CheckOpcode's.
OnSimdLaneOp(op, laneInRange) ==
    LET ok == PopOk(type_stack, TopLabel, op.params)
    IN  Finish(PushType(PopTypes(type_stack, TopLabel, op.params), op.result),
               label_stack, ok, ~ok \/ ~laneInRange)

\* type1, the operand under the condition, and type2, the one under that.
SelectOperand(i) == PeekType(type_stack, TopLabel, i)

SelectsRefs == IsRefType(SelectOperand(1)) \/ IsRefType(SelectOperand(2))

\* Mutant: the two operands are not compared.
SelectOkUncompared(expected) ==
    /\ PeekAndCheckType(type_stack, TopLabel, 0, "i32")
    /\ PeekOk(type_stack, TopLabel, 1)
    /\ PeekOk(type_stack, TopLabel, 2)
    /\ DropOk(type_stack, TopLabel, 3)

SelectOk(expected) ==
    /\ PeekAndCheckType(type_stack, TopLabel, 0, "i32")
    /\ PeekOk(type_stack, TopLabel, 1)
    /\ PeekOk(type_stack, TopLabel, 2)
    /\ IF expected = "any"
       THEN ~SelectsRefs /\ CheckType(SelectOperand(1), SelectOperand(2))
       ELSE \A i \in {1, 2} : CheckType(SelectOperand(i), expected)
    /\ DropOk(type_stack, TopLabel, 3)

\* Mutant: the result type is never set.
SelectResultUnset(expected) == "any"

\* Without an annotation the result has the type of the upper operand; with
\* one it stays unknown.
SelectResult(expected) ==
    IF expected = "any" /\ ~SelectsRefs THEN SelectOperand(1) ELSE "any"

OnSelect(expected) ==
    Return(Append(DropTypes(type_stack, TopLabel, 3), SelectResult(expected)),
           label_stack, SelectOk(expected))

-----------------------------------------------------------------------------
(* Calls.                                                                  *)

OnCall(ft) == PopAndPush(<< >>, ft.params, ft.results)

OnCallIndirect(ft) == PopAndPush(<<"i32">>, ft.params, ft.results)

\* The callee's results must be those of the function whose label is at the
\* bottom of the label stack.
ReturnCall(cond, ft) ==
    LET ts1 == PopTypes(type_stack, TopLabel, cond)
    IN  ReturnUnreachable(PopTypes(ts1, TopLabel, ft.params),
            /\ PopOk(type_stack, TopLabel, cond)
            /\ PopOk(ts1, TopLabel, ft.params)
            /\ CheckTypes(ft.results, label_stack[1].result_types))

OnReturnCall(ft) == ReturnCall(<< >>, ft)

OnReturnCallIndirect(ft) == ReturnCall(<<"i32">>, ft)

OnReturn ==
    LET sig == label_stack[1].result_types
    IN  ReturnUnreachable(PopTypes(type_stack, TopLabel, sig),
                          PopOk(type_stack, TopLabel, sig))

-----------------------------------------------------------------------------
(* Branches.                                                               *)

OnBr(depth) ==
    IF depth >= Len(label_stack)
    THEN InvalidDepth(type_stack)
    ELSE ReturnUnreachable(type_stack,
             CheckSignature(type_stack, TopLabel, br_types(GetLabel(depth))))

OnBrIf(depth) ==
    LET ts == PopTypes(type_stack, TopLabel, <<"i32">>)
        sig == br_types(GetLabel(depth))
    IN  IF depth >= Len(label_stack)
        THEN InvalidDepth(ts)
        ELSE Return(PopTypes(ts, TopLabel, sig) \o sig, label_stack,
                    /\ PopOk(type_stack, TopLabel, <<"i32">>)
                    /\ PopOk(ts, TopLabel, sig))

OnBrOnExn(depth, types) ==
    LET ts == PopTypes(type_stack, TopLabel, <<"exnref">>)
    IN  IF depth >= Len(label_stack)
        THEN InvalidDepth(ts)
        ELSE Return(Append(ts, "exnref"), label_stack,
                    /\ PopOk(type_stack, TopLabel, <<"exnref">>)
                    /\ CheckTypes(types, br_types(GetLabel(depth))))

\* BeginBrTable, OnBrTableTarget for every target in order, EndBrTable: no
\* client does anything to the type checker between these calls.  The first
\* valid target fixes br_table_sig_.
OnBrTable(depths) ==
    LET ts == PopTypes(type_stack, TopLabel, <<"i32">>)
        valid == {i \in DOMAIN depths : depths[i] < Len(label_stack)}
        sig(i) == br_types(GetLabel(depths[i]))
        first == CHOOSE i \in valid : \A j \in valid : i <= j
        agrees(i) == IF ReferenceTypes THEN Len(sig(i)) = Len(sig(first))
                                       ELSE sig(i) = sig(first)
    IN  ReturnUnreachable(ts,
            /\ PopOk(type_stack, TopLabel, <<"i32">>)
            /\ valid = DOMAIN depths
            /\ \A i \in valid : CheckSignature(ts, TopLabel, sig(i)) /\ agrees(i))

OnUnreachable == ReturnUnreachable(type_stack, TRUE)

OnThrow(sig) ==
    ReturnUnreachable(PopTypes(type_stack, TopLabel, sig),
                      PopOk(type_stack, TopLabel, sig))

OnRethrow == OnThrow(<<"exnref">>)

-----------------------------------------------------------------------------
(* Blocks.                                                                 *)

OnBlock(kind, ft) == OpenLabel(kind, << >>, ft)

OnIf(ft) == OpenLabel("if", <<"i32">>, ft)

\* Mutant: the label stays that of an if.
ElseLabelIf == [TopLabel EXCEPT !.unreachable = FALSE]

\* The label and the stack OnElse leaves, whatever it found.
ElseLabel == [TopLabel EXCEPT !.label_type = "else", !.unreachable = FALSE]

ElseTypes == ResetTypeStackToLabel(type_stack, TopLabel) \o TopLabel.param_types

\* Mutant: any label may have an else.
OnElseAnyLabel ==
    LET armOk == ArmEndOk(type_stack, TopLabel)
    IN  Finish(ElseTypes, SetTop(ElseLabel), armOk, ~armOk)

\* The wrong kind of label is an Error without a message.
OnElse ==
    LET armOk == ArmEndOk(type_stack, TopLabel)
    IN  Finish(ElseTypes, SetTop(ElseLabel),
               TopLabel.label_type = "if" /\ armOk, ~armOk)

OnCatch ==
    LET armOk == ArmEndOk(type_stack, TopLabel)
    IN  Finish(Append(ResetTypeStackToLabel(type_stack, TopLabel), "exnref"),
               SetTop([TopLabel EXCEPT !.label_type = "catch",
                                       !.unreachable = FALSE]),
               TopLabel.label_type = "try" /\ armOk, ~armOk)

\* Mutant: the block's results are checked with a message only.
CloseLabelOk(ts, l, kindOk) ==
    Finish(ResetTypeStackToLabel(ts, l) \o l.result_types, AllButTop,
           kindOk, ~ArmEndOk(ts, l))

\* OnEnd(label, ...): leave the block's results on the stack below it.
CloseLabel(ts, l, kindOk) ==
    Finish(ResetTypeStackToLabel(ts, l) \o l.result_types, AllButTop,
           kindOk /\ ArmEndOk(ts, l), ~ArmEndOk(ts, l))

\* An if without an else goes through OnElse first, and when that fails the
\* label is not popped.
OnEnd ==
    \/ /\ TopLabel.label_type # "if"
       /\ CloseLabel(type_stack, TopLabel, TRUE)
    \/ /\ TopLabel.label_type = "if"
       /\ ArmEndOk(type_stack, TopLabel)
       /\ CloseLabel(ElseTypes, ElseLabel, TRUE)
    \/ /\ TopLabel.label_type = "if"
       /\ ~ArmEndOk(type_stack, TopLabel)
       /\ OnElse

BeginFunction(ft) ==
    /\ type_stack' = << >>
    /\ label_stack' = <<NewLabel("func", << >>, ft.results, 0)>>
    /\ UNCHANGED <<failed, printed>>

EndFunction == CloseLabel(type_stack, TopLabel, TopLabel.label_type = "func")

-----------------------------------------------------------------------------
Init ==
    /\ type_stack = << >>
    /\ label_stack = << >>
    /\ failed = FALSE
    /\ printed = FALSE

\* Bounds on the model, not on the code.
WithinBounds == Len(type_stack') <= MaxTypes /\ Len(label_stack') <= MaxLabels

Depth == 0..MaxDepth

PlainHandler ==
    \/ \E op \in Opcodes : OnOpcode(op)
    \/ \E type \in PushedTypes :
          \/ OnPush(type)
          \/ OnSet(type)
          \/ OnLocalTee(type)
    \/ \E elem \in PushedTypes \intersect RefType :
          \/ OnTableGet(elem)
          \/ OnTableSet(elem)
          \/ OnTableGrow(elem)
          \/ OnTableFill(elem)
    \/ OnRefIsNullExpr
    \/ OnDrop
    \/ \E op \in LaneOps, laneInRange \in BOOLEAN : OnSimdLaneOp(op, laneInRange)
    \/ \E ft \in FuncTypes :
          \/ OnCall(ft)
          \/ OnCallIndirect(ft)
          \/ OnReturnCall(ft)
          \/ OnReturnCallIndirect(ft)
    \/ \E depth \in Depth :
          \/ OnBr(depth)
          \/ OnBrIf(depth)
          \/ \E types \in EventTypes : OnBrOnExn(depth, types)
          \/ \E other \in Depth : OnBrTable(<<depth, other>>)
    \/ \E sig \in EventTypes : OnThrow(sig)
    \/ OnRethrow
    \/ OnReturn
    \/ OnUnreachable

SelectHandler == \E type \in SelectTypes : OnSelect(type)

OpenHandler ==
    \E ft \in FuncTypes :
       \/ \E kind \in BlockKind : OnBlock(kind, ft)
       \/ OnIf(ft)

InstructionHandler ==
    \/ PlainHandler
    \/ SelectHandler
    \/ OpenHandler
    \/ OnElse
    \/ OnCatch
    \/ OnEnd

Next ==
    /\ ~failed
    /\ \/ label_stack = << >> /\ \E ft \in FuncTypes : BeginFunction(ft)
       \/ label_stack # << >> /\ (InstructionHandler \/ EndFunction)
    /\ WithinBounds

Spec == Init /\ [][Next]_tcVars
=============================================================================
