------------------------- MODULE TypeChecker_proofs -------------------------
(***************************************************************************)
(* The label limits of the type checker are nested, and no instruction     *)
(* reaches below the limit of a block it is inside of, for every set of    *)
(* signatures, opcodes and bounds.  The function's label stays at the      *)
(* bottom, what is printed is an error, dead code accepts what reachable   *)
(* code does, and reachable code has no operand of unknown type.           *)
(*                                                                         *)
(* Each handler computes a new operand stack by dropping down to at most   *)
(* the top label's limit and pushing, and a new label stack in one of four *)
(* ways: unchanged, the top label replaced by one of the same limit, one   *)
(* label pushed whose limit is not below the top one's, or the top label   *)
(* popped.  The first lemmas are about the operand stack, the next about   *)
(* the four ways to change the label stack; the step lemma takes the       *)
(* handlers one by one.                                                    *)
(***************************************************************************)
EXTENDS TypeCheckerProps, TLAPS

(* The strengthening the theorems rest on. *)
IndInv == TypeOK /\ LabelsNested

(* What every handler does to the operand stack: ts is a stack that agrees with
   base on the n operands below a label's limit. *)
Keeps(ts, base, n) ==
    /\ ts \in TypeVector
    /\ n <= Len(ts)
    /\ \A j \in 1..n : ts[j] = base[j]

(* The frames of the labels that survive a step. *)
FramesKept == \A i \in DOMAIN label_stack \intersect DOMAIN label_stack' : FrameKept(i)

-----------------------------------------------------------------------------
(* ResetTypeStackToLabel leaves the operands below the label's limit. *)
LEMMA ResetKeeps ==
    ASSUME NEW base, NEW ts, NEW l \in Label, Keeps(ts, base, l.type_stack_limit)
    PROVE  /\ Keeps(ResetTypeStackToLabel(ts, l), base, l.type_stack_limit)
           /\ Len(ResetTypeStackToLabel(ts, l)) = l.type_stack_limit
BY DEF Keeps, ResetTypeStackToLabel, Label, TypeVector

(* DropTypes never drops below the label's limit, whatever it is asked for. *)
LEMMA DropKeeps ==
    ASSUME NEW base, NEW ts, NEW l \in Label, NEW count \in Nat,
           Keeps(ts, base, l.type_stack_limit)
    PROVE  Keeps(DropTypes(ts, l, count), base, l.type_stack_limit)
<1>1. CASE l.type_stack_limit + count > Len(ts)
  BY <1>1, ResetKeeps DEF DropTypes
<1>2. CASE ~(l.type_stack_limit + count > Len(ts))
  BY <1>2 DEF DropTypes, Keeps, Label, TypeVector
<1> QED BY <1>1, <1>2

(* Popping a signature is dropping as many operands. *)
LEMMA PopKeeps ==
    ASSUME NEW base, NEW ts, NEW l \in Label, NEW sig \in TypeVector,
           Keeps(ts, base, l.type_stack_limit)
    PROVE  Keeps(PopTypes(ts, l, sig), base, l.type_stack_limit)
<1>1. Len(sig) \in Nat BY DEF TypeVector
<1> QED BY <1>1, DropKeeps DEF PopTypes

(* Pushing leaves what was there. *)
LEMMA PushKeeps ==
    ASSUME NEW base, NEW n \in Nat, NEW ts, Keeps(ts, base, n)
    PROVE  /\ \A type \in StackType \union {"void"} : Keeps(PushType(ts, type), base, n)
           /\ \A type \in StackType : Keeps(Append(ts, type), base, n)
           /\ \A types \in TypeVector : Keeps(ts \o types, base, n)
<1>1. \A type \in StackType : Keeps(Append(ts, type), base, n)
  BY DEF Keeps, TypeVector
<1>2. \A types \in TypeVector : Keeps(ts \o types, base, n)
  BY DEF Keeps, TypeVector
<1>3. \A type \in StackType \union {"void"} : Keeps(PushType(ts, type), base, n)
  BY <1>1 DEF PushType
<1> QED BY <1>1, <1>2, <1>3

-----------------------------------------------------------------------------
(* The context of a handler: an open label. *)
HasLabel == IndInv /\ label_stack # << >>

(* What the invariant says of the top label. *)
LEMMA TopLabelOK ==
    ASSUME HasLabel
    PROVE  /\ Len(label_stack) \in Nat \ {0}
           /\ TopLabel \in Label
           /\ TopLabel.type_stack_limit \in Nat
           /\ Keeps(type_stack, type_stack, TopLabel.type_stack_limit)
           /\ \A i \in DOMAIN label_stack :
                 /\ label_stack[i].type_stack_limit \in Nat
                 /\ label_stack[i].type_stack_limit <= TopLabel.type_stack_limit
<1>1. /\ Len(label_stack) \in Nat \ {0}
      /\ Len(label_stack) \in DOMAIN label_stack
      /\ TopLabel \in Label
  BY DEF HasLabel, IndInv, TypeOK, TopLabel
<1>2. TopLabel.type_stack_limit \in Nat
  BY <1>1 DEF Label
<1>3. TopLabel.type_stack_limit <= Len(type_stack)
  BY <1>1 DEF HasLabel, IndInv, LabelsNested, TopLabel
<1>4. Keeps(type_stack, type_stack, TopLabel.type_stack_limit)
  BY <1>2, <1>3 DEF Keeps, HasLabel, IndInv, TypeOK
<1>5. \A i \in DOMAIN label_stack :
         label_stack[i].type_stack_limit <= TopLabel.type_stack_limit
  BY <1>1 DEF HasLabel, IndInv, TypeOK, LabelsNested, TopLabel
<1>6. \A i \in DOMAIN label_stack : label_stack[i] \in Label
  BY DEF HasLabel, IndInv, TypeOK
<1>7. \A i \in DOMAIN label_stack : label_stack[i].type_stack_limit \in Nat
  BY <1>6 DEF Label
<1> QED BY <1>1, <1>2, <1>4, <1>5, <1>7

-----------------------------------------------------------------------------
(* A handler that leaves the labels alone. *)
LEMMA SameLabels ==
    ASSUME HasLabel, NEW ts, NEW result, NEW message,
           Keeps(ts, type_stack, TopLabel.type_stack_limit),
           Finish(ts, label_stack, result, message)
    PROVE  IndInv' /\ FramesKept
<1> USE DEF Finish
<1>1. TypeOK'
  BY DEF TypeOK, HasLabel, IndInv, Keeps
<1>2. \A i \in DOMAIN label_stack :
         /\ label_stack[i].type_stack_limit \in Nat
         /\ label_stack[i].type_stack_limit <= Len(ts)
  BY TopLabelOK DEF Keeps, TypeVector
<1>3. LabelsNested'
  BY <1>2 DEF LabelsNested, HasLabel, IndInv
<1>4. FramesKept
  BY <1>2, TopLabelOK DEF FramesKept, FrameKept, Keeps
<1> QED BY <1>1, <1>3, <1>4 DEF IndInv

(* A handler that replaces the top label by one of the same limit. *)
LEMMA ChangedTop ==
    ASSUME HasLabel, NEW ts, NEW result, NEW message, NEW l \in Label,
           l.type_stack_limit = TopLabel.type_stack_limit,
           Keeps(ts, type_stack, TopLabel.type_stack_limit),
           Finish(ts, SetTop(l), result, message)
    PROVE  IndInv' /\ FramesKept
<1> USE DEF Finish
<1>1. /\ label_stack' \in Seq(Label)
      /\ DOMAIN label_stack' = DOMAIN label_stack
      /\ \A i \in DOMAIN label_stack :
            label_stack'[i].type_stack_limit = label_stack[i].type_stack_limit
  BY TopLabelOK DEF SetTop, TopLabel, HasLabel, IndInv, TypeOK
<1>2. TypeOK'
  BY <1>1 DEF TypeOK, Keeps, HasLabel, IndInv
<1>3. \A i \in DOMAIN label_stack :
         /\ label_stack[i].type_stack_limit \in Nat
         /\ label_stack[i].type_stack_limit <= Len(ts)
  BY TopLabelOK DEF Keeps, TypeVector
<1>4. LabelsNested'
  <2>1. label_stack # << >> /\ 1 \in DOMAIN label_stack
    BY DEF HasLabel, IndInv, TypeOK
  <2> QED BY <1>1, <1>3, <2>1 DEF LabelsNested, HasLabel, IndInv
<1>5. FramesKept
  BY <1>1, <1>3, TopLabelOK DEF FramesKept, FrameKept, Keeps
<1> QED BY <1>2, <1>4, <1>5 DEF IndInv

(* A handler that opens a block: base is the operand stack below its params. *)
LEMMA PushedLabel ==
    ASSUME HasLabel, NEW ts, NEW base, NEW result, NEW message, NEW l \in Label,
           l.type_stack_limit = Len(base),
           Keeps(base, type_stack, TopLabel.type_stack_limit),
           Keeps(ts, base, Len(base)),
           Finish(ts, Append(label_stack, l), result, message)
    PROVE  IndInv' /\ FramesKept
<1> USE DEF Finish
<1>1. /\ label_stack' \in Seq(Label)
      /\ Len(label_stack') = Len(label_stack) + 1
      /\ label_stack'[Len(label_stack')] = l
      /\ \A i \in DOMAIN label_stack : label_stack'[i] = label_stack[i]
  BY DEF HasLabel, IndInv, TypeOK
<1>2. TypeOK'
  BY <1>1 DEF TypeOK, Keeps, HasLabel, IndInv
<1>3. \A i \in DOMAIN label_stack :
         /\ label_stack[i].type_stack_limit \in Nat
         /\ label_stack[i].type_stack_limit <= Len(base)
  BY TopLabelOK DEF Keeps, TypeVector
<1>4. Len(base) \in Nat /\ Len(base) <= Len(ts) /\ Len(ts) \in Nat
  BY DEF Keeps, TypeVector
<1>5. LabelsNested'
  <2>1. /\ Len(label_stack) \in Nat \ {0}
        /\ DOMAIN label_stack = 1..Len(label_stack)
        /\ DOMAIN label_stack' = 1..(Len(label_stack) + 1)
    BY <1>1 DEF HasLabel, IndInv, TypeOK
  <2>2. \A i \in DOMAIN label_stack' : label_stack'[i].type_stack_limit <= Len(ts)
    BY <1>1, <1>3, <1>4, <2>1
  <2>3. \A i, j \in DOMAIN label_stack' :
           i <= j => label_stack'[i].type_stack_limit <= label_stack'[j].type_stack_limit
    <3>1. TAKE i, j \in DOMAIN label_stack'
    <3>2. HAVE i <= j
    <3>3. CASE j \in DOMAIN label_stack
      BY <1>1, <2>1, <3>2, <3>3 DEF LabelsNested, HasLabel, IndInv
    <3>4. CASE j = Len(label_stack) + 1
      BY <1>1, <1>3, <1>4, <2>1, <3>4
    <3> QED BY <2>1, <3>3, <3>4
  <2>4. label_stack'[1].type_stack_limit = 0
    BY <1>1, <2>1 DEF LabelsNested, HasLabel, IndInv
  <2> QED BY <2>2, <2>3, <2>4 DEF LabelsNested
<1>6. FramesKept
  <2>1. \A i \in DOMAIN label_stack : \A j \in 1..label_stack[i].type_stack_limit :
           ts[j] = type_stack[j]
    <3>1. TAKE i \in DOMAIN label_stack
    <3>2. TAKE j \in 1..label_stack[i].type_stack_limit
    <3>3. j \in 1..Len(base) /\ j \in 1..TopLabel.type_stack_limit
      BY <1>3, <1>4, TopLabelOK
    <3> QED BY <3>3 DEF Keeps
  <2> QED BY <1>1, <1>3, <1>4, <2>1 DEF FramesKept, FrameKept
<1> QED BY <1>2, <1>5, <1>6 DEF IndInv

(* A handler that closes the innermost block. *)
LEMMA PoppedLabel ==
    ASSUME HasLabel, NEW ts, NEW result, NEW message,
           Keeps(ts, type_stack, TopLabel.type_stack_limit),
           Finish(ts, AllButTop, result, message)
    PROVE  IndInv' /\ FramesKept
<1> USE DEF Finish
<1>1. /\ label_stack' \in Seq(Label)
      /\ DOMAIN label_stack' = 1..(Len(label_stack) - 1)
      /\ DOMAIN label_stack' \subseteq DOMAIN label_stack
      /\ \A i \in DOMAIN label_stack' : label_stack'[i] = label_stack[i]
  BY TopLabelOK DEF AllButTop, HasLabel, IndInv, TypeOK
<1>2. TypeOK'
  BY <1>1 DEF TypeOK, Keeps, HasLabel, IndInv
<1>3. \A i \in DOMAIN label_stack :
         /\ label_stack[i].type_stack_limit \in Nat
         /\ label_stack[i].type_stack_limit <= Len(ts)
  BY TopLabelOK DEF Keeps, TypeVector
<1>4. LabelsNested'
  <2>1. label_stack' # << >> => 1 \in DOMAIN label_stack'
    BY <1>1
  <2> QED BY <1>1, <1>3, <2>1 DEF LabelsNested, HasLabel, IndInv
<1>5. FramesKept
  BY <1>1, <1>3, TopLabelOK DEF FramesKept, FrameKept, Keeps
<1> QED BY <1>2, <1>4, <1>5 DEF IndInv

-----------------------------------------------------------------------------
(* The shapes the handlers share. *)

LEMMA Literals ==
    /\ {"i32", "exnref", "anyref", "any"} \subseteq StackType
    /\ << >> \in TypeVector
    /\ \A a \in StackType : <<a>> \in TypeVector
    /\ \A a, b \in StackType : <<a, b>> \in TypeVector
    /\ \A a, b, c \in StackType : <<a, b, c>> \in TypeVector
BY DEF StackType, ValueType, NumType, RefType, TypeVector

(* Every type a handler reads from a label is a type vector. *)
LEMMA LabelTypes ==
    ASSUME HasLabel
    PROVE  /\ TopLabel.param_types \in TypeVector
           /\ TopLabel.result_types \in TypeVector
           /\ label_stack[1].result_types \in TypeVector
           /\ \A depth \in Nat : depth < Len(label_stack) =>
                 br_types(GetLabel(depth)) \in TypeVector
<1>1. \A i \in DOMAIN label_stack : label_stack[i] \in Label
  BY DEF HasLabel, IndInv, TypeOK
<1>2. \A l \in Label : /\ l.param_types \in TypeVector
                       /\ l.result_types \in TypeVector
                       /\ br_types(l) \in TypeVector
  BY DEF Label, br_types
<1>3. 1 \in DOMAIN label_stack
  BY DEF HasLabel, IndInv, TypeOK
<1>4. \A depth \in Nat : depth < Len(label_stack) => GetLabel(depth) \in Label
  BY <1>1, TopLabelOK DEF GetLabel, HasLabel, IndInv, TypeOK
<1> QED BY <1>1, <1>2, <1>3, <1>4, TopLabelOK

LEMMA PopAndPushStep ==
    ASSUME HasLabel, NEW cond \in TypeVector, NEW params \in TypeVector,
           NEW results \in TypeVector, PopAndPush(cond, params, results)
    PROVE  IndInv' /\ FramesKept
<1> DEFINE limit == TopLabel.type_stack_limit
           ts1 == PopTypes(type_stack, TopLabel, cond)
           ts2 == PopTypes(ts1, TopLabel, params)
<1>1. Keeps(ts1, type_stack, limit) BY TopLabelOK, PopKeeps
<1>2. Keeps(ts2, type_stack, limit) BY <1>1, TopLabelOK, PopKeeps
<1>3. Keeps(ts2 \o results, type_stack, limit) BY <1>2, TopLabelOK, PushKeeps
<1> QED BY <1>3, SameLabels DEF PopAndPush, Return

LEMMA OpenLabelStep ==
    ASSUME HasLabel, NEW kind \in LabelType, NEW cond \in TypeVector,
           NEW ft \in FuncTypes, OpenLabel(kind, cond, ft)
    PROVE  IndInv' /\ FramesKept
<1> DEFINE limit == TopLabel.type_stack_limit
           ts1 == PopTypes(type_stack, TopLabel, cond)
           ts2 == PopTypes(ts1, TopLabel, ft.params)
           l == NewLabel(kind, ft.params, ft.results, Len(ts2))
<1>1. ft.params \in TypeVector /\ ft.results \in TypeVector
  BY TypeCheckerAssumption DEF FuncType
<1>2. Keeps(ts1, type_stack, limit) BY TopLabelOK, PopKeeps
<1>3. Keeps(ts2, type_stack, limit) BY <1>1, <1>2, TopLabelOK, PopKeeps
<1>4. Len(ts2) \in Nat /\ Keeps(ts2, ts2, Len(ts2))
  BY <1>3 DEF Keeps, TypeVector
<1>5. Keeps(ts2 \o ft.params, ts2, Len(ts2)) BY <1>1, <1>4, PushKeeps
<1>6. l \in Label /\ l.type_stack_limit = Len(ts2)
  BY <1>1, <1>4 DEF NewLabel, Label
<1> QED BY <1>3, <1>5, <1>6, PushedLabel DEF OpenLabel, Return

LEMMA UnreachableStep ==
    ASSUME HasLabel, NEW ts, NEW result,
           Keeps(ts, type_stack, TopLabel.type_stack_limit),
           ReturnUnreachable(ts, result)
    PROVE  IndInv' /\ FramesKept
<1> DEFINE l == [TopLabel EXCEPT !.unreachable = TRUE]
<1>1. l \in Label /\ l.type_stack_limit = TopLabel.type_stack_limit
  BY TopLabelOK DEF Label
<1>2. Keeps(ResetTypeStackToLabel(ts, TopLabel), type_stack, TopLabel.type_stack_limit)
  BY TopLabelOK, ResetKeeps
<1> QED BY <1>1, <1>2, ChangedTop DEF ReturnUnreachable, Return

LEMMA CloseLabelStep ==
    ASSUME HasLabel, NEW ts, NEW l \in Label, NEW kindOk,
           l.type_stack_limit = TopLabel.type_stack_limit,
           Keeps(ts, type_stack, TopLabel.type_stack_limit),
           CloseLabel(ts, l, kindOk)
    PROVE  IndInv' /\ FramesKept
<1>1. Keeps(ResetTypeStackToLabel(ts, l), type_stack, TopLabel.type_stack_limit)
  BY ResetKeeps
<1>2. l.result_types \in TypeVector BY DEF Label
<1>3. Keeps(ResetTypeStackToLabel(ts, l) \o l.result_types, type_stack,
            TopLabel.type_stack_limit)
  BY <1>1, <1>2, TopLabelOK, PushKeeps
<1> QED BY <1>3, PoppedLabel DEF CloseLabel

(* The stack and label OnElse leaves. *)
LEMMA ElseOK ==
    ASSUME HasLabel
    PROVE  /\ Keeps(ElseTypes, type_stack, TopLabel.type_stack_limit)
           /\ ElseLabel \in Label
           /\ ElseLabel.type_stack_limit = TopLabel.type_stack_limit
<1>1. Keeps(ElseTypes, type_stack, TopLabel.type_stack_limit)
  BY TopLabelOK, LabelTypes, ResetKeeps, PushKeeps DEF ElseTypes
<1>2. ElseLabel \in Label /\ ElseLabel.type_stack_limit = TopLabel.type_stack_limit
  BY TopLabelOK DEF ElseLabel, Label, LabelType, BlockKind
<1> QED BY <1>1, <1>2

-----------------------------------------------------------------------------
(* The handlers one by one. *)

(* The handlers on whatever arguments a client may give them: the relation of the
   type checker itself and that of the interpreter's compiler are instances. *)
LaneHandler == \E op \in OpcodeRow, laneInRange \in BOOLEAN : OnSimdLaneOp(op, laneInRange)

AnyPlainHandler ==
    \/ \E op \in OpcodeRow : OnOpcode(op)
    \/ \E type \in StackType : OnPush(type) \/ OnSet(type) \/ OnLocalTee(type)
    \/ \E elem \in StackType : \/ OnTableGet(elem) \/ OnTableSet(elem)
                               \/ OnTableGrow(elem) \/ OnTableFill(elem)
    \/ OnRefIsNullExpr \/ OnDrop \/ OnRethrow \/ OnReturn \/ OnUnreachable
    \/ \E ft \in FuncType : \/ OnCall(ft) \/ OnCallIndirect(ft)
                            \/ OnReturnCall(ft) \/ OnReturnCallIndirect(ft)
    \/ \E depth \in Nat : \/ OnBr(depth) \/ OnBrIf(depth)
                          \/ \E types \in TypeVector : OnBrOnExn(depth, types)
                          \/ \E other \in Nat : OnBrTable(<<depth, other>>)
    \/ \E sig \in TypeVector : OnThrow(sig)

LEMMA PlainIsAny ==
    ASSUME PlainHandler
    PROVE  /\ AnyPlainHandler \/ LaneHandler
           /\ LaneOps = {} => AnyPlainHandler
<1>1. /\ Opcodes \subseteq OpcodeRow /\ LaneOps \subseteq OpcodeRow
      /\ PushedTypes \subseteq StackType /\ FuncTypes \subseteq FuncType
      /\ EventTypes \subseteq TypeVector /\ Depth \subseteq Nat
  BY TypeCheckerAssumption DEF Depth
<1> DEFINE Goal == /\ AnyPlainHandler \/ LaneHandler
                   /\ LaneOps = {} => AnyPlainHandler
<1>2. ASSUME NEW op \in LaneOps, NEW laneInRange \in BOOLEAN, OnSimdLaneOp(op, laneInRange)
      PROVE  Goal
  BY <1>1, <1>2, Zenon DEF LaneHandler
<1>3. ASSUME NEW depth \in Depth, \/ OnBr(depth) \/ OnBrIf(depth)
                                  \/ \E types \in EventTypes : OnBrOnExn(depth, types)
                                  \/ \E other \in Depth : OnBrTable(<<depth, other>>)
      PROVE  Goal
  BY <1>1, <1>3, Zenon DEF AnyPlainHandler
<1>4. ASSUME NEW type \in PushedTypes, OnPush(type) \/ OnSet(type) \/ OnLocalTee(type)
      PROVE  Goal
  BY <1>1, <1>4, Zenon DEF AnyPlainHandler
<1>5. ASSUME NEW elem \in PushedTypes, \/ OnTableGet(elem) \/ OnTableSet(elem)
                                       \/ OnTableGrow(elem) \/ OnTableFill(elem)
      PROVE  Goal
  BY <1>1, <1>5, Zenon DEF AnyPlainHandler
<1>6. ASSUME NEW ft \in FuncTypes, \/ OnCall(ft) \/ OnCallIndirect(ft)
                                   \/ OnReturnCall(ft) \/ OnReturnCallIndirect(ft)
      PROVE  Goal
  BY <1>1, <1>6, Zenon DEF AnyPlainHandler
<1>7. ASSUME NEW op \in Opcodes, OnOpcode(op) PROVE Goal
  BY <1>1, <1>7, Zenon DEF AnyPlainHandler
<1>8. ASSUME NEW sig \in EventTypes, OnThrow(sig) PROVE Goal
  BY <1>1, <1>8, Zenon DEF AnyPlainHandler
<1>9. ASSUME OnRefIsNullExpr \/ OnDrop \/ OnRethrow \/ OnReturn \/ OnUnreachable
      PROVE  Goal
  BY <1>9, Zenon DEF AnyPlainHandler
<1> HIDE DEF Goal
<1>10. Goal
  BY <1>2, <1>3, <1>4, <1>5, <1>6, <1>7, <1>8, <1>9 DEF PlainHandler
<1> QED BY <1>10 DEF Goal

LEMMA PlainStep ==
    ASSUME HasLabel, AnyPlainHandler \/ LaneHandler
    PROVE  IndInv' /\ FramesKept
<1> DEFINE limit == TopLabel.type_stack_limit
<1>a. \A op \in OpcodeRow :
         /\ op.params \in TypeVector
         /\ op.result \in StackType \union {"void"}
  BY DEF OpcodeRow
<1>b. \A ft \in FuncType : ft.params \in TypeVector /\ ft.results \in TypeVector
  BY DEF FuncType
<1>c. \A op \in OpcodeRow :
         Keeps(PushType(PopTypes(type_stack, TopLabel, op.params), op.result),
               type_stack, limit)
  BY <1>a, TopLabelOK, PopKeeps, PushKeeps
<1>1. ASSUME NEW op \in OpcodeRow, OnOpcode(op) PROVE IndInv' /\ FramesKept
  BY <1>1, <1>c, SameLabels DEF OnOpcode, Return
<1>2. ASSUME NEW type \in StackType, OnPush(type) PROVE IndInv' /\ FramesKept
  <2>1. Keeps(PushType(type_stack, type), type_stack, limit)
    BY TopLabelOK, PushKeeps
  <2> QED BY <1>2, <2>1, SameLabels DEF OnPush, Return
<1>3. ASSUME NEW type \in StackType, OnSet(type) PROVE IndInv' /\ FramesKept
  BY <1>3, Literals, PopAndPushStep DEF OnSet
<1>4. ASSUME NEW type \in StackType, OnLocalTee(type) PROVE IndInv' /\ FramesKept
  BY <1>4, Literals, PopAndPushStep DEF OnLocalTee
<1>5. ASSUME NEW elem \in StackType, OnTableGet(elem) PROVE IndInv' /\ FramesKept
  BY <1>5, Literals, PopAndPushStep DEF OnTableGet
<1>6. ASSUME NEW elem \in StackType, OnTableSet(elem) PROVE IndInv' /\ FramesKept
  BY <1>6, Literals, PopAndPushStep DEF OnTableSet
<1>7. ASSUME NEW elem \in StackType, OnTableGrow(elem) PROVE IndInv' /\ FramesKept
  BY <1>7, Literals, PopAndPushStep DEF OnTableGrow
<1>8. ASSUME NEW elem \in StackType, OnTableFill(elem) PROVE IndInv' /\ FramesKept
  BY <1>8, Literals, PopAndPushStep DEF OnTableFill
<1>9. ASSUME OnRefIsNullExpr PROVE IndInv' /\ FramesKept
  BY <1>9, Literals, PopAndPushStep DEF OnRefIsNullExpr
<1>10. ASSUME OnDrop PROVE IndInv' /\ FramesKept
  <2>1. Keeps(DropTypes(type_stack, TopLabel, 1), type_stack, limit)
    BY TopLabelOK, DropKeeps
  <2> QED BY <1>10, <2>1, SameLabels DEF OnDrop, Return
<1>11. ASSUME NEW op \in OpcodeRow, NEW laneInRange \in BOOLEAN,
              OnSimdLaneOp(op, laneInRange)
       PROVE  IndInv' /\ FramesKept
  BY <1>11, <1>c, SameLabels DEF OnSimdLaneOp
<1>12. ASSUME NEW ft \in FuncType, OnCall(ft) PROVE IndInv' /\ FramesKept
  BY <1>12, <1>b, Literals, PopAndPushStep DEF OnCall
<1>13. ASSUME NEW ft \in FuncType, OnCallIndirect(ft) PROVE IndInv' /\ FramesKept
  BY <1>13, <1>b, Literals, PopAndPushStep DEF OnCallIndirect
<1>14. ASSUME NEW ft \in FuncType, NEW cond \in TypeVector, ReturnCall(cond, ft)
       PROVE  IndInv' /\ FramesKept
  <2>1. Keeps(PopTypes(type_stack, TopLabel, cond), type_stack, limit)
    BY TopLabelOK, PopKeeps
  <2>2. Keeps(PopTypes(PopTypes(type_stack, TopLabel, cond), TopLabel, ft.params),
              type_stack, limit)
    BY <1>b, <2>1, TopLabelOK, PopKeeps
  <2> QED BY <1>14, <2>2, UnreachableStep DEF ReturnCall
<1>15. ASSUME NEW ft \in FuncType, OnReturnCall(ft) \/ OnReturnCallIndirect(ft)
       PROVE  IndInv' /\ FramesKept
  BY <1>14, <1>15, Literals DEF OnReturnCall, OnReturnCallIndirect
<1>16. ASSUME NEW depth \in Nat, OnBr(depth) PROVE IndInv' /\ FramesKept
  BY <1>16, TopLabelOK, SameLabels, UnreachableStep DEF OnBr, InvalidDepth, Return
<1>17. ASSUME NEW depth \in Nat, OnBrIf(depth) PROVE IndInv' /\ FramesKept
  <2> DEFINE ts == PopTypes(type_stack, TopLabel, <<"i32">>)
             sig == br_types(GetLabel(depth))
  <2>1. Keeps(ts, type_stack, limit) BY Literals, TopLabelOK, PopKeeps
  <2>2. CASE depth >= Len(label_stack)
    BY <1>17, <2>1, <2>2, SameLabels DEF OnBrIf, InvalidDepth, Return
  <2>3. CASE ~(depth >= Len(label_stack))
    <3>1. sig \in TypeVector BY <2>3, LabelTypes, TopLabelOK
    <3>2. Keeps(PopTypes(ts, TopLabel, sig) \o sig, type_stack, limit)
      BY <2>1, <3>1, TopLabelOK, PopKeeps, PushKeeps
    <3> QED BY <1>17, <2>3, <3>2, SameLabels DEF OnBrIf, Return
  <2> QED BY <2>2, <2>3
<1>18. ASSUME NEW depth \in Nat, NEW types, OnBrOnExn(depth, types)
       PROVE  IndInv' /\ FramesKept
  <2> DEFINE ts == PopTypes(type_stack, TopLabel, <<"exnref">>)
  <2>1. Keeps(ts, type_stack, limit) BY Literals, TopLabelOK, PopKeeps
  <2>2. Keeps(Append(ts, "exnref"), type_stack, limit)
    BY <2>1, Literals, TopLabelOK, PushKeeps
  <2> QED BY <1>18, <2>1, <2>2, SameLabels DEF OnBrOnExn, InvalidDepth, Return
<1>19. ASSUME NEW depth \in Nat, NEW other \in Nat, OnBrTable(<<depth, other>>)
       PROVE  IndInv' /\ FramesKept
  <2>1. Keeps(PopTypes(type_stack, TopLabel, <<"i32">>), type_stack, limit)
    BY Literals, TopLabelOK, PopKeeps
  <2> QED BY <1>19, <2>1, UnreachableStep DEF OnBrTable
<1>20. ASSUME NEW sig \in TypeVector, OnThrow(sig) PROVE IndInv' /\ FramesKept
  <2>1. Keeps(PopTypes(type_stack, TopLabel, sig), type_stack, limit)
    BY TopLabelOK, PopKeeps
  <2> QED BY <1>20, <2>1, UnreachableStep DEF OnThrow
<1>21. ASSUME OnRethrow PROVE IndInv' /\ FramesKept
  BY <1>20, <1>21, Literals DEF OnRethrow
<1>22. ASSUME OnReturn PROVE IndInv' /\ FramesKept
  <2>1. Keeps(PopTypes(type_stack, TopLabel, label_stack[1].result_types),
              type_stack, limit)
    BY LabelTypes, TopLabelOK, PopKeeps
  <2> QED BY <1>22, <2>1, UnreachableStep DEF OnReturn
<1>23. ASSUME OnUnreachable PROVE IndInv' /\ FramesKept
  BY <1>23, TopLabelOK, UnreachableStep DEF OnUnreachable
<1> QED
  BY <1>1, <1>2, <1>3, <1>4, <1>5, <1>6, <1>7, <1>8, <1>9, <1>10, <1>11, <1>12,
     <1>13, <1>15, <1>16, <1>17, <1>18, <1>19, <1>20, <1>21, <1>22, <1>23
  DEF AnyPlainHandler, LaneHandler

LEMMA SelectStep ==
    ASSUME HasLabel, NEW expected \in StackType, OnSelect(expected)
    PROVE  IndInv' /\ FramesKept
<1>1. \A depth \in Nat : PeekType(type_stack, TopLabel, depth) \in StackType
  BY TopLabelOK, Literals DEF PeekType, Keeps, TypeVector
<1>2. SelectResult(expected) \in StackType
  BY <1>1, Literals DEF SelectResult, SelectOperand
<1>3. Keeps(DropTypes(type_stack, TopLabel, 3), type_stack, TopLabel.type_stack_limit)
  BY TopLabelOK, DropKeeps
<1>4. Keeps(Append(DropTypes(type_stack, TopLabel, 3), SelectResult(expected)),
            type_stack, TopLabel.type_stack_limit)
  BY <1>2, <1>3, TopLabelOK, PushKeeps
<1> QED BY <1>4, SameLabels DEF OnSelect, Return

LEMMA BlockStep ==
    ASSUME HasLabel, OpenHandler \/ OnElse \/ OnCatch \/ OnEnd \/ EndFunction
    PROVE  IndInv' /\ FramesKept
<1>1. ASSUME OpenHandler PROVE IndInv' /\ FramesKept
  BY <1>1, Literals, OpenLabelStep DEF OpenHandler, OnBlock, OnIf, LabelType
<1>2. ASSUME OnElse PROVE IndInv' /\ FramesKept
  BY <1>2, ElseOK, ChangedTop DEF OnElse
<1>3. ASSUME OnCatch PROVE IndInv' /\ FramesKept
  <2> DEFINE l == [TopLabel EXCEPT !.label_type = "catch", !.unreachable = FALSE]
  <2>1. l \in Label /\ l.type_stack_limit = TopLabel.type_stack_limit
    BY TopLabelOK DEF Label, LabelType, BlockKind
  <2>2. Keeps(Append(ResetTypeStackToLabel(type_stack, TopLabel), "exnref"),
              type_stack, TopLabel.type_stack_limit)
    BY TopLabelOK, Literals, ResetKeeps, PushKeeps
  <2> QED BY <1>3, <2>1, <2>2, ChangedTop DEF OnCatch
<1>4. ASSUME OnEnd PROVE IndInv' /\ FramesKept
  <2>1. CASE CloseLabel(type_stack, TopLabel, TRUE)
    BY <2>1, TopLabelOK, CloseLabelStep
  <2>2. CASE CloseLabel(ElseTypes, ElseLabel, TRUE)
    BY <2>2, ElseOK, CloseLabelStep
  <2>3. CASE OnElse
    BY <2>3, <1>2
  <2> QED BY <1>4, <2>1, <2>2, <2>3 DEF OnEnd
<1>5. ASSUME EndFunction PROVE IndInv' /\ FramesKept
  BY <1>5, TopLabelOK, CloseLabelStep DEF EndFunction
<1> QED BY <1>1, <1>2, <1>3, <1>4, <1>5

(* BeginFunction clears both stacks. *)
LEMMA BeginFunctionStep ==
    ASSUME IndInv, NEW ft \in FuncType, BeginFunction(ft)
    PROVE  IndInv' /\ FramesKept
<1> DEFINE l == NewLabel("func", << >>, ft.results, 0)
<1>1. l \in Label /\ l.type_stack_limit = 0
  BY Literals DEF NewLabel, Label, LabelType, FuncType
<1>2. type_stack' = << >> /\ label_stack' = <<l>> /\ UNCHANGED <<failed, printed>>
  BY DEF BeginFunction
<1>3. TypeOK'
  BY <1>1, <1>2, Literals DEF IndInv, TypeOK
<1>4. LabelsNested'
  BY <1>1, <1>2 DEF LabelsNested
<1>5. FramesKept
  <2>1. 1 \in DOMAIN label_stack => label_stack[1].type_stack_limit = 0
    BY DEF IndInv, TypeOK, LabelsNested
  <2> QED BY <1>1, <1>2, <2>1 DEF FramesKept, FrameKept
<1> QED BY <1>3, <1>4, <1>5 DEF IndInv

LEMMA NextStep ==
    ASSUME IndInv, Next
    PROVE  IndInv' /\ FramesKept
<1>1. CASE label_stack # << >> /\ (InstructionHandler \/ EndFunction)
  <2>1. HasLabel BY <1>1 DEF HasLabel
  <2>2. CASE SelectHandler
    BY <2>1, <2>2, SelectStep, TypeCheckerAssumption DEF SelectHandler
  <2>3. CASE PlainHandler
    BY <2>1, <2>3, PlainIsAny, PlainStep
  <2> QED BY <1>1, <2>1, <2>2, <2>3, BlockStep DEF InstructionHandler
<1>2. CASE \E ft \in FuncTypes : BeginFunction(ft)
  BY <1>2, BeginFunctionStep, TypeCheckerAssumption
<1> QED BY <1>1, <1>2 DEF Next

-----------------------------------------------------------------------------
(* The kinds of the labels and the two verdicts.  Only the handlers that    *)
(* open, close or turn a block change the kind of a label, and only those   *)
(* that meet a label of the wrong kind fail without a message.              *)

(* The labels after a step are those before it, whatever became of their types
   and of the code in them. *)
KindsKept ==
    /\ DOMAIN label_stack' = DOMAIN label_stack
    /\ \A i \in DOMAIN label_stack : label_stack'[i].label_type = label_stack[i].label_type

(* A step that fails prints, and one that prints fails. *)
Announced == failed' => failed \/ printed'
Rejected == printed' => printed \/ failed'

(* No verdict is taken back. *)
Lasting == (failed => failed') /\ (printed => printed')

(* A sequence is as long as its domain. *)
LEMMA SameInterval ==
    ASSUME NEW m \in Nat, NEW n \in Nat, 1..m = 1..n
    PROVE  m = n
<1>1. CASE m < n
  <2>1. n \in 1..n /\ n \notin 1..m BY <1>1
  <2> QED BY <2>1
<1>2. CASE n < m
  <2>1. m \in 1..m /\ m \notin 1..n BY <1>2
  <2> QED BY <2>1
<1> QED BY <1>1, <1>2

LEMMA DomainLength ==
    ASSUME NEW S, NEW s \in Seq(S), NEW n \in Nat, DOMAIN s = 1..n
    PROVE  Len(s) = n
<1>1. DOMAIN s = 1..Len(s) /\ Len(s) \in Nat OBVIOUS
<1>2. 1..Len(s) = 1..n BY <1>1, Zenon
<1> QED BY <1>1, <1>2, SameInterval

(* Setting the top label touches no other. *)
LEMMA SetTopLabels ==
    ASSUME HasLabel, NEW l \in Label
    PROVE  /\ DOMAIN SetTop(l) = DOMAIN label_stack
           /\ SetTop(l)[Len(label_stack)] = l
           /\ \A i \in DOMAIN label_stack :
                 i # Len(label_stack) => SetTop(l)[i] = label_stack[i]
BY TopLabelOK DEF SetTop, HasLabel, IndInv, TypeOK

(* The handlers without blocks leave the kinds, and all of them but those of the
   lane operators print exactly when they fail. *)
LEMMA PlainVerdict ==
    ASSUME HasLabel, AnyPlainHandler \/ LaneHandler
    PROVE  /\ KindsKept
           /\ Announced
           /\ Lasting
           /\ AnyPlainHandler => Rejected
<1>1. ASSUME NEW ts, NEW result, NEW message, Finish(ts, label_stack, result, message)
      PROVE  KindsKept
  BY <1>1 DEF Finish, KindsKept
<1>2. ASSUME NEW ts, NEW result, Return(ts, label_stack, result)
      PROVE  KindsKept /\ Announced /\ Rejected /\ Lasting
  <2>1. KindsKept BY <1>1, <1>2 DEF Return
  <2>2. Announced /\ Rejected /\ Lasting BY <1>2, Zenon DEF Return, Finish, Announced, Rejected, Lasting
  <2> QED BY <2>1, <2>2
<1>3. ASSUME NEW ts, NEW result, ReturnUnreachable(ts, result)
      PROVE  KindsKept /\ Announced /\ Rejected /\ Lasting
  <2> DEFINE l == [TopLabel EXCEPT !.unreachable = TRUE]
  <2>1. l \in Label /\ l.label_type = label_stack[Len(label_stack)].label_type
    BY TopLabelOK DEF Label, TopLabel
  <2>2. label_stack' = SetTop(l)
    BY <1>3 DEF ReturnUnreachable, Return, Finish
  <2>3. KindsKept
    BY <2>1, <2>2, SetTopLabels DEF KindsKept
  <2>4. Announced /\ Rejected /\ Lasting
    BY <1>3, Zenon DEF ReturnUnreachable, Return, Finish, Announced, Rejected, Lasting
  <2> QED BY <2>3, <2>4
<1>4. ASSUME NEW cond, NEW params, NEW results, PopAndPush(cond, params, results)
      PROVE  KindsKept /\ Announced /\ Rejected /\ Lasting
  BY <1>2, <1>4 DEF PopAndPush
<1>5. ASSUME NEW op, NEW laneInRange,
             OnSimdLaneOp(op, laneInRange)
      PROVE  KindsKept /\ Announced /\ Lasting
  <2>1. KindsKept BY <1>1, <1>5 DEF OnSimdLaneOp
  <2>2. Announced /\ Lasting BY <1>5, Zenon DEF OnSimdLaneOp, Finish, Announced, Lasting
  <2> QED BY <2>1, <2>2
<1>6. ASSUME NEW ft, NEW cond, ReturnCall(cond, ft)
      PROVE  KindsKept /\ Announced /\ Rejected /\ Lasting
  BY <1>3, <1>6 DEF ReturnCall
<1>7. ASSUME NEW depth, OnBr(depth)
      PROVE  KindsKept /\ Announced /\ Rejected /\ Lasting
  BY <1>2, <1>3, <1>7 DEF OnBr, InvalidDepth
<1>8. ASSUME NEW depth, OnBrIf(depth)
      PROVE  KindsKept /\ Announced /\ Rejected /\ Lasting
  BY <1>2, <1>8 DEF OnBrIf, InvalidDepth
<1>9. ASSUME NEW depth, NEW types, OnBrOnExn(depth, types)
      PROVE  KindsKept /\ Announced /\ Rejected /\ Lasting
  BY <1>2, <1>9 DEF OnBrOnExn, InvalidDepth
<1>10. ASSUME NEW depth, NEW other, OnBrTable(<<depth, other>>)
       PROVE  KindsKept /\ Announced /\ Rejected /\ Lasting
  BY <1>3, <1>10 DEF OnBrTable
<1>11. ASSUME NEW sig, OnThrow(sig)
       PROVE  KindsKept /\ Announced /\ Rejected /\ Lasting
  BY <1>3, <1>11 DEF OnThrow
<1>12. CASE OnReturn \/ OnUnreachable
  BY <1>3, <1>12 DEF OnReturn, OnUnreachable
<1>13. CASE OnDrop \/ OnRefIsNullExpr \/ OnRethrow
  BY <1>2, <1>4, <1>11, <1>13 DEF OnDrop, OnRefIsNullExpr, OnRethrow
<1>14. ASSUME NEW type, OnPush(type) \/ OnSet(type) \/ OnLocalTee(type)
       PROVE  KindsKept /\ Announced /\ Rejected /\ Lasting
  BY <1>2, <1>4, <1>14 DEF OnPush, OnSet, OnLocalTee
<1>15. ASSUME NEW elem, \/ OnTableGet(elem) \/ OnTableSet(elem)
                        \/ OnTableGrow(elem) \/ OnTableFill(elem)
       PROVE  KindsKept /\ Announced /\ Rejected /\ Lasting
  BY <1>4, <1>15 DEF OnTableGet, OnTableSet, OnTableGrow, OnTableFill
<1>16. ASSUME NEW op, OnOpcode(op) PROVE KindsKept /\ Announced /\ Rejected /\ Lasting
  BY <1>2, <1>16 DEF OnOpcode
<1>17. ASSUME NEW ft, \/ OnCall(ft) \/ OnCallIndirect(ft)
                      \/ OnReturnCall(ft) \/ OnReturnCallIndirect(ft)
       PROVE  KindsKept /\ Announced /\ Rejected /\ Lasting
  BY <1>4, <1>6, <1>17 DEF OnCall, OnCallIndirect, OnReturnCall, OnReturnCallIndirect
<1>18. ASSUME AnyPlainHandler PROVE KindsKept /\ Announced /\ Rejected /\ Lasting
  BY <1>7, <1>8, <1>9, <1>10, <1>11, <1>12, <1>13, <1>14, <1>15, <1>16, <1>17, <1>18
  DEF AnyPlainHandler
<1>19. CASE LaneHandler
  BY <1>5, <1>18, <1>19 DEF LaneHandler
<1> QED BY <1>18, <1>19

LEMMA SelectVerdict ==
    ASSUME NEW type, OnSelect(type)
    PROVE  /\ KindsKept
           /\ failed' <=> failed \/ ~SelectOk(type)
           /\ printed' <=> printed \/ ~SelectOk(type)
<1>1. KindsKept
  BY DEF OnSelect, Return, Finish, KindsKept
<1>2. /\ failed' <=> failed \/ ~SelectOk(type)
      /\ printed' <=> printed \/ ~SelectOk(type)
  BY Zenon DEF OnSelect, Return, Finish
<1> QED BY <1>1, <1>2

(* Opening a block puts its label on top. *)
LEMMA OpenVerdict ==
    ASSUME HasLabel, NEW kind \in LabelType, NEW cond \in TypeVector,
           NEW ft \in FuncTypes, OpenLabel(kind, cond, ft)
    PROVE  /\ DOMAIN label_stack' = 1 .. Len(label_stack) + 1
           /\ \A i \in DOMAIN label_stack : label_stack'[i] = label_stack[i]
           /\ label_stack'[Len(label_stack) + 1].label_type = kind
           /\ Announced /\ Rejected /\ Lasting
<1> DEFINE ts1 == PopTypes(type_stack, TopLabel, cond)
           ts2 == PopTypes(ts1, TopLabel, ft.params)
           l == NewLabel(kind, ft.params, ft.results, Len(ts2))
<1>1. label_stack' = Append(label_stack, l)
  BY DEF OpenLabel, Return, Finish
<1>2. l.label_type = kind
  BY DEF NewLabel
<1>3. Announced /\ Rejected /\ Lasting
  BY Zenon DEF OpenLabel, Return, Finish, Announced, Rejected, Lasting
<1>4. label_stack \in Seq(Label)
  BY DEF HasLabel, IndInv, TypeOK
<1> HIDE DEF l
<1> QED BY <1>1, <1>2, <1>3, <1>4

(* else and catch turn the top label, and are silent only when it is not the if
   or the try they need. *)
LEMMA TurnVerdict ==
    ASSUME HasLabel, NEW kind, NEW needed,
           \/ OnElse /\ kind = "else" /\ needed = "if"
           \/ OnCatch /\ kind = "catch" /\ needed = "try"
    PROVE  /\ DOMAIN label_stack' = DOMAIN label_stack
           /\ label_stack'[Len(label_stack)].label_type = kind
           /\ \A i \in DOMAIN label_stack :
                 i # Len(label_stack) => label_stack'[i] = label_stack[i]
           /\ TopLabel.label_type # needed => failed'
           /\ TopLabel.label_type = needed => Announced
           /\ Rejected
           /\ Lasting
<1>1. CASE OnElse /\ kind = "else" /\ needed = "if"
  <2>1. label_stack' = SetTop(ElseLabel)
    BY <1>1 DEF OnElse, Finish
  <2>2. ElseLabel \in Label /\ ElseLabel.label_type = kind
    BY <1>1, ElseOK, TopLabelOK DEF ElseLabel, Label
  <2>3. /\ TopLabel.label_type # needed => failed'
        /\ TopLabel.label_type = needed => Announced
        /\ Rejected
        /\ Lasting
    BY <1>1, Zenon DEF OnElse, Finish, Announced, Rejected, Lasting
  <2> QED BY <2>1, <2>2, <2>3, SetTopLabels
<1>2. CASE OnCatch /\ kind = "catch" /\ needed = "try"
  <2> DEFINE l == [TopLabel EXCEPT !.label_type = "catch", !.unreachable = FALSE]
  <2>1. label_stack' = SetTop(l)
    BY <1>2 DEF OnCatch, Finish
  <2>2. l \in Label /\ l.label_type = kind
    BY <1>2, TopLabelOK DEF Label, LabelType, BlockKind
  <2>3. /\ TopLabel.label_type # needed => failed'
        /\ TopLabel.label_type = needed => Announced
        /\ Rejected
        /\ Lasting
    BY <1>2, Zenon DEF OnCatch, Finish, Announced, Rejected, Lasting
  <2> HIDE DEF l
  <2> QED BY <2>1, <2>2, <2>3, SetTopLabels
<1> QED BY <1>1, <1>2

(* Closing a label pops it. *)
LEMMA CloseVerdict ==
    ASSUME HasLabel, NEW ts, NEW l, NEW kindOk \in BOOLEAN, CloseLabel(ts, l, kindOk)
    PROVE  /\ DOMAIN label_stack' = 1 .. Len(label_stack) - 1
           /\ \A i \in DOMAIN label_stack' : label_stack'[i] = label_stack[i]
           /\ ~kindOk => failed'
           /\ kindOk => Announced
           /\ Rejected
           /\ Lasting
<1>1. label_stack' = AllButTop
  BY DEF CloseLabel, Finish
<1>2. /\ ~kindOk => failed'
      /\ kindOk => Announced
      /\ Rejected
      /\ Lasting
  BY Zenon DEF CloseLabel, Finish, Announced, Rejected, Lasting
<1>3. /\ DOMAIN AllButTop = 1 .. Len(label_stack) - 1
      /\ \A i \in DOMAIN AllButTop : AllButTop[i] = label_stack[i]
  BY TopLabelOK DEF AllButTop, HasLabel, IndInv, TypeOK
<1> QED BY <1>1, <1>2, <1>3

(* end pops the label, but for that of an if whose arm is wrong, which becomes
   that of an else and stays. *)
LEMMA EndVerdict ==
    ASSUME HasLabel, OnEnd
    PROVE  /\ \/ /\ DOMAIN label_stack' = 1 .. Len(label_stack) - 1
                 /\ \A i \in DOMAIN label_stack' : label_stack'[i] = label_stack[i]
              \/ /\ failed'
                 /\ DOMAIN label_stack' = DOMAIN label_stack
           /\ Announced
           /\ Rejected
           /\ Lasting
<1>1. CASE CloseLabel(type_stack, TopLabel, TRUE)
  BY <1>1, CloseVerdict
<1>2. CASE CloseLabel(ElseTypes, ElseLabel, TRUE)
  BY <1>2, CloseVerdict
<1>3. CASE TopLabel.label_type = "if" /\ ~ArmEndOk(type_stack, TopLabel) /\ OnElse
  <2>1. failed'
    BY <1>3, Zenon DEF OnElse, Finish
  <2> QED BY <1>3, <2>1, TurnVerdict
<1> QED BY <1>1, <1>2, <1>3 DEF OnEnd

-----------------------------------------------------------------------------
(* Type correctness and the nesting of the label limits: what GetDropCount of
   the interpreter's compiler asserts and PrintStackIfFailed subtracts. *)
THEOREM LabelsAlwaysNested == Spec => [](TypeOK /\ LabelsNested)
<1>1. Init => IndInv
  <2> SUFFICES ASSUME Init PROVE IndInv
    OBVIOUS
  <2>1. type_stack \in TypeVector /\ label_stack \in Seq(Label)
    BY DEF Init, TypeVector
  <2>2. failed \in BOOLEAN /\ printed \in BOOLEAN
    BY Zenon DEF Init
  <2>3. LabelsNested
    BY DEF Init, LabelsNested
  <2> QED BY <2>1, <2>2, <2>3 DEF IndInv, TypeOK
<1>2. IndInv /\ [Next]_tcVars => IndInv'
  <2>1. CASE Next BY <2>1, NextStep
  <2>2. CASE UNCHANGED tcVars
    BY <2>2 DEF tcVars, IndInv, TypeOK, LabelsNested
  <2> QED BY <2>1, <2>2
<1>3. IndInv => TypeOK /\ LabelsNested
  BY DEF IndInv
<1> QED BY <1>1, <1>2, <1>3, PTL DEF Spec

(* The stack holds types and the labels are labels whose limits are lengths of
   stacks: an operand that Drop or PushTypes leaves is one that PeekType may
   return. *)
THEOREM AlwaysTypeOK == Spec => []TypeOK
<1>1. TypeOK /\ LabelsNested => TypeOK
  OBVIOUS
<1> QED BY <1>1, LabelsAlwaysNested, PTL

(* No instruction reaches below the limit of a block it is inside of. *)
THEOREM FramesAlwaysPreserved == Spec => FramesPreserved
<1>1. IndInv /\ [Next]_tcVars => [FramesKept]_tcVars
  BY NextStep
<1>2. Spec => []IndInv
  BY LabelsAlwaysNested, PTL DEF IndInv
<1>3. Spec => [][FramesKept]_tcVars
  BY <1>1, <1>2, PTL DEF Spec
<1> QED BY <1>3 DEF FramesPreserved, FramesKept

-----------------------------------------------------------------------------
(* What the labels and the verdicts of a step are, in one place: FuncLabels is
   the invariant on the labels while nothing has failed. *)
FuncLabels ==
    \A i \in DOMAIN label_stack : label_stack[i].label_type = "func" <=> i = 1

LEMMA FuncLabelsStep ==
    ASSUME IndInv, Next, FuncLabels
    PROVE  /\ ~failed' => FuncLabels'
           /\ LaneOps = {} => Rejected
<1>1. CASE \E ft \in FuncTypes : BeginFunction(ft)
  BY <1>1 DEF BeginFunction, NewLabel, FuncLabels, Rejected
<1>2. CASE label_stack # << >> /\ (InstructionHandler \/ EndFunction)
  <2>1. HasLabel BY <1>2 DEF HasLabel
  <2>2. /\ Len(label_stack) \in Nat \ {0}
        /\ DOMAIN label_stack = 1..Len(label_stack)
        /\ TopLabel = label_stack[Len(label_stack)]
    BY <2>1, TopLabelOK DEF HasLabel, IndInv, TypeOK, TopLabel
  <2>3. CASE PlainHandler
    BY <2>1, <2>3, PlainIsAny, PlainVerdict DEF KindsKept, FuncLabels
  <2>4. CASE SelectHandler
    BY <2>4, SelectVerdict DEF SelectHandler, KindsKept, FuncLabels, Rejected
  <2>5. CASE OpenHandler
    <3>1. PICK kind \in BlockKind \union {"if"}, cond \in TypeVector, ft \in FuncTypes :
             OpenLabel(kind, cond, ft)
      BY <2>5, Literals DEF OpenHandler, OnBlock, OnIf
    <3>2. kind \in LabelType /\ kind # "func"
      BY DEF LabelType, BlockKind
    <3> QED BY <2>1, <2>2, <3>1, <3>2, OpenVerdict DEF FuncLabels
  <2>6. CASE OnElse
    <3>1. /\ label_stack'[Len(label_stack)].label_type = "else"
          /\ DOMAIN label_stack' = DOMAIN label_stack
          /\ \A i \in DOMAIN label_stack :
                i # Len(label_stack) => label_stack'[i] = label_stack[i]
          /\ TopLabel.label_type # "if" => failed'
          /\ Rejected
      BY <2>1, <2>6, TurnVerdict
    <3> QED BY <2>2, <3>1 DEF FuncLabels
  <2>7. CASE OnCatch
    <3>1. /\ label_stack'[Len(label_stack)].label_type = "catch"
          /\ DOMAIN label_stack' = DOMAIN label_stack
          /\ \A i \in DOMAIN label_stack :
                i # Len(label_stack) => label_stack'[i] = label_stack[i]
          /\ TopLabel.label_type # "try" => failed'
          /\ Rejected
      BY <2>1, <2>7, TurnVerdict
    <3> QED BY <2>2, <3>1 DEF FuncLabels
  <2>8. CASE OnEnd
    BY <2>1, <2>2, <2>8, EndVerdict DEF FuncLabels
  <2>9. CASE EndFunction
    <3>1. /\ DOMAIN label_stack' = 1 .. Len(label_stack) - 1
          /\ \A i \in DOMAIN label_stack' : label_stack'[i] = label_stack[i]
          /\ Rejected
      BY <2>1, <2>9, CloseVerdict DEF EndFunction
    <3> QED BY <2>2, <3>1 DEF FuncLabels
  <2> QED BY <1>2, <2>3, <2>4, <2>5, <2>6, <2>7, <2>8, <2>9 DEF InstructionHandler
<1> QED BY <1>1, <1>2 DEF Next

(* The function's label stays at the bottom, and no else, catch or block puts
   another there: OnReturn and the return calls read the function's results
   from label_stack[1]. *)
THEOREM FuncLabelAlwaysAtBottom == Spec => []FuncLabelAtBottom
<1>1. Init => FuncLabelAtBottom
  BY DEF Init, FuncLabelAtBottom
<1>2. IndInv /\ FuncLabelAtBottom /\ [Next]_tcVars => FuncLabelAtBottom'
  <2>1. ASSUME IndInv, FuncLabelAtBottom, Next PROVE FuncLabelAtBottom'
    <3>1. FuncLabels BY <2>1 DEF Next, FuncLabelAtBottom, FuncLabels
    <3> QED BY <2>1, <3>1, FuncLabelsStep DEF FuncLabelAtBottom, FuncLabels
  <2>2. ASSUME FuncLabelAtBottom, UNCHANGED tcVars PROVE FuncLabelAtBottom'
    BY <2>2 DEF tcVars, FuncLabelAtBottom
  <2> QED BY <2>1, <2>2
<1> QED BY <1>1, <1>2, LabelsAlwaysNested, PTL DEF Spec, IndInv

(* Without the lane operators, whose index is checked with a message only, a
   handler that prints fails: BinaryReaderInterp, which reads the Results,
   rejects what Validator, which reads the messages, rejects. *)
THEOREM MessagesAlwaysErrors == LaneOps = {} => (Spec => []MessagesAreErrors)
<1> SUFFICES ASSUME LaneOps = {} PROVE Spec => []MessagesAreErrors
  OBVIOUS
<1>1. Init => MessagesAreErrors
  BY DEF Init, MessagesAreErrors
<1>2. IndInv /\ FuncLabelAtBottom /\ MessagesAreErrors /\ [Next]_tcVars => MessagesAreErrors'
  <2>1. ASSUME IndInv, FuncLabelAtBottom, MessagesAreErrors, Next PROVE MessagesAreErrors'
    <3>1. FuncLabels /\ ~failed BY <2>1 DEF Next, FuncLabelAtBottom, FuncLabels
    <3>2. Rejected BY <2>1, <3>1, FuncLabelsStep
    <3> QED BY <2>1, <3>1, <3>2 DEF MessagesAreErrors, Rejected
  <2>2. ASSUME MessagesAreErrors, UNCHANGED tcVars PROVE MessagesAreErrors'
    BY <2>2 DEF tcVars, MessagesAreErrors
  <2> QED BY <2>1, <2>2
<1> QED BY <1>1, <1>2, LabelsAlwaysNested, FuncLabelAlwaysAtBottom, PTL DEF Spec, IndInv

-----------------------------------------------------------------------------
(* What is accepted on a reachable stack is accepted when the block is
   unreachable and only the topmost operands are known: PeekType of the longer
   and of the shorter stack agree on the known ones. *)
THEOREM DeadCodeAlwaysAcceptsMore == Spec => []DeadCodeAcceptsMore
<1>1. IndInv => DeadCodeAcceptsMore
  <2> SUFFICES ASSUME IndInv, label_stack # << >>,
                      NEW k \in TopLabel.type_stack_limit .. Len(type_stack),
                      NEW op \in Opcodes, PopOk(type_stack, TopLabel, op.params)
               PROVE  PopOk(ResetTypeStackToLabel(type_stack, TopLabel)
                              \o SubSeq(type_stack, k + 1, Len(type_stack)),
                            [TopLabel EXCEPT !.unreachable = TRUE], op.params)
    BY DEF DeadCodeAcceptsMore
  <2> DEFINE limit == TopLabel.type_stack_limit
             known == ResetTypeStackToLabel(type_stack, TopLabel)
                        \o SubSeq(type_stack, k + 1, Len(type_stack))
             dead == [TopLabel EXCEPT !.unreachable = TRUE]
             sig == op.params
  <2>1. /\ limit \in Nat
        /\ limit <= Len(type_stack)
        /\ type_stack \in TypeVector
        /\ TopLabel \in Label
        /\ Len(type_stack) \in Nat
    BY TopLabelOK DEF HasLabel, Keeps, TypeVector
  <2>2. dead.unreachable /\ dead.type_stack_limit = limit
    BY <2>1 DEF Label
  <2>3. /\ Len(known) = limit + Len(type_stack) - k
        /\ \A j \in limit + 1 .. Len(known) : known[j] = type_stack[j + k - limit]
    <3> DEFINE below == SubSeq(type_stack, 1, limit)
               above == SubSeq(type_stack, k + 1, Len(type_stack))
    <3>1. below \in Seq(StackType) /\ Len(below) = limit
      BY <2>1 DEF TypeVector
    <3>2. /\ above \in Seq(StackType)
          /\ Len(above) = Len(type_stack) - k
          /\ \A j \in 1..Len(above) : above[j] = type_stack[k + j]
      BY <2>1 DEF TypeVector
    <3>3. known = below \o above BY DEF ResetTypeStackToLabel
    <3> HIDE DEF below, above, known
    <3>4. Len(known) = limit + Len(type_stack) - k
      BY <2>1, <3>1, <3>2, <3>3
    <3>5. ASSUME NEW j \in limit + 1 .. Len(known)
          PROVE  known[j] = type_stack[j + k - limit]
      <4>1. j - limit \in 1..Len(above) /\ k + (j - limit) = j + k - limit
        BY <2>1, <3>2, <3>4
      <4>2. j \in 1 .. Len(below) + Len(above) /\ ~(j <= Len(below)) /\ j - Len(below) = j - limit
        BY <2>1, <3>1, <3>2, <3>4
      <4>3. known[j] = above[j - limit]
        BY <3>1, <3>2, <3>3, <4>2
      <4> QED BY <3>2, <4>1, <4>3
    <3> QED BY <3>4, <3>5
  <2>4. sig \in TypeVector
    BY TypeCheckerAssumption DEF OpcodeRow
  <2> HIDE DEF known, dead
  <2>5. ASSUME NEW i \in DOMAIN sig
        PROVE  PeekAndCheckType(known, dead, Len(sig) - i, sig[i])
    <3> DEFINE depth == Len(sig) - i
    <3>1. depth \in Nat BY <2>4 DEF TypeVector
    <3>2. PeekOk(known, dead, depth) BY <2>2 DEF PeekOk
    <3>3. CheckType(PeekType(type_stack, TopLabel, depth), sig[i])
      BY <2>5 DEF PopOk, CheckSignature, PeekAndCheckType
    <3>4. CASE limit + depth >= Len(known)
      BY <2>2, <3>2, <3>4 DEF PeekAndCheckType, PeekType, CheckType
    <3>5. CASE ~(limit + depth >= Len(known))
      <4>1. /\ Len(known) - depth \in limit + 1 .. Len(known)
            /\ ~(limit + depth >= Len(type_stack))
            /\ (Len(known) - depth) + k - limit = Len(type_stack) - depth
        <5>1. /\ limit \in Nat /\ limit <= Len(type_stack) /\ Len(type_stack) \in Nat
              /\ k \in limit .. Len(type_stack)
              /\ Len(known) = limit + Len(type_stack) - k
          BY <2>1, <2>3
        <5> HIDE DEF limit, depth
        <5> QED BY <3>1, <3>5, <5>1
      <4>2. known[Len(known) - depth] = type_stack[Len(type_stack) - depth]
        BY <2>3, <4>1
      <4>3. PeekType(known, dead, depth) = PeekType(type_stack, TopLabel, depth)
        BY <2>2, <3>5, <4>1, <4>2 DEF PeekType
      <4> QED BY <3>2, <3>3, <4>3 DEF PeekAndCheckType
    <3> QED BY <3>4, <3>5
  <2>6. DropOk(known, dead, Len(sig)) BY <2>2 DEF DropOk
  <2>7. PopOk(known, dead, sig) BY <2>5, <2>6 DEF PopOk, CheckSignature
  <2> QED BY <2>7 DEF known, dead
<1> QED BY <1>1, LabelsAlwaysNested, PTL DEF IndInv

-----------------------------------------------------------------------------
(* No operand of a reachable block is of unknown type.  That holds as long as *)
(* no signature names the unknown type, which no type section can, and select *)
(* has no annotation, which would leave the type of its result unknown.       *)

KnownVector == Seq(ValueType)

NoUnknownNamed ==
    /\ \A ft \in FuncTypes : ft.params \in KnownVector /\ ft.results \in KnownVector
    /\ \A op \in Opcodes \union LaneOps : op.result # "any"
    /\ "any" \notin PushedTypes
    /\ SelectTypes \subseteq {"any"}

(* The operands above the n-th are known. *)
KnownAbove(ts, n) == \A j \in DOMAIN ts : n < j => ts[j] # "any"

(* The j-th operand is one of the i-th label's own: above its limit and not
   above that of the next label. *)
InFrame(i, j) ==
    /\ label_stack[i].type_stack_limit < j
    /\ i + 1 \in DOMAIN label_stack => j <= label_stack[i + 1].type_stack_limit

(* The invariant: the operands of every reachable label are known, not only
   those of the innermost one, which a closing block makes the next. *)
KnownInv ==
    \A i \in DOMAIN label_stack :
       /\ label_stack[i].param_types \in KnownVector
       /\ label_stack[i].result_types \in KnownVector
       /\ ~label_stack[i].unreachable =>
             \A j \in DOMAIN type_stack : InFrame(i, j) => type_stack[j] # "any"

(* What a label leaves known of the stack ts it is the top label of. *)
Clean(ts, l) == ~l.unreachable => KnownAbove(ts, l.type_stack_limit)

LEMMA TopClean ==
    ASSUME HasLabel, KnownInv
    PROVE  /\ Clean(type_stack, TopLabel)
           /\ TopLabel.param_types \in KnownVector
           /\ TopLabel.result_types \in KnownVector
<1>1. /\ Len(label_stack) \in DOMAIN label_stack
      /\ Len(label_stack) + 1 \notin DOMAIN label_stack
  BY TopLabelOK DEF HasLabel, IndInv, TypeOK
<1> QED BY <1>1 DEF KnownInv, InFrame, Clean, KnownAbove, TopLabel

(* Dropping operands and pushing known ones keeps the stack clean. *)
LEMMA DropClean ==
    ASSUME NEW l \in Label, NEW ts, NEW base, NEW count \in Nat, Clean(ts, l),
           Keeps(ts, base, l.type_stack_limit)
    PROVE  Clean(DropTypes(ts, l, count), l)
<1>1. CASE l.type_stack_limit + count > Len(ts)
  BY <1>1 DEF DropTypes, ResetTypeStackToLabel, Clean, KnownAbove, Keeps, Label, TypeVector
<1>2. CASE ~(l.type_stack_limit + count > Len(ts))
  BY <1>2 DEF DropTypes, Clean, KnownAbove, Keeps, Label, TypeVector
<1> QED BY <1>1, <1>2

LEMMA ResetClean ==
    ASSUME NEW l \in Label, NEW ts, NEW base, Keeps(ts, base, l.type_stack_limit)
    PROVE  KnownAbove(ResetTypeStackToLabel(ts, l), l.type_stack_limit)
BY DEF ResetTypeStackToLabel, KnownAbove, Keeps, Label, TypeVector

LEMMA PushClean ==
    ASSUME NEW l \in Label, NEW ts \in TypeVector, Clean(ts, l)
    PROVE  /\ \A type \in StackType : type # "any" => Clean(Append(ts, type), l)
           /\ \A types \in KnownVector : Clean(ts \o types, l)
<1>1. \A type \in StackType : type # "any" => Clean(Append(ts, type), l)
  BY DEF Clean, KnownAbove, TypeVector
<1>2. ASSUME NEW types \in KnownVector PROVE Clean(ts \o types, l)
  <2>1. \A j \in DOMAIN types : types[j] # "any"
    BY DEF KnownVector, ValueType, NumType, RefType
  <2>2. types \in Seq(StackType)
    BY DEF KnownVector, StackType
  <2>3. \A j \in DOMAIN (ts \o types) :
           \/ j \in DOMAIN ts /\ (ts \o types)[j] = ts[j]
           \/ j - Len(ts) \in DOMAIN types /\ (ts \o types)[j] = types[j - Len(ts)]
    BY <2>2 DEF TypeVector
  <2> QED BY <2>1, <2>3 DEF Clean, KnownAbove
<1> QED BY <1>1, <1>2

-----------------------------------------------------------------------------
(* The four ways to change the label stack. *)

LEMMA SameKnown ==
    ASSUME HasLabel, KnownInv, NEW ts, NEW result, NEW message,
           Keeps(ts, type_stack, TopLabel.type_stack_limit), Clean(ts, TopLabel),
           Finish(ts, label_stack, result, message)
    PROVE  KnownInv'
<1>1. type_stack' = ts /\ label_stack' = label_stack
  BY DEF Finish
<1>2. DOMAIN label_stack = 1..Len(label_stack) /\ Len(label_stack) \in Nat
  BY DEF HasLabel, IndInv, TypeOK
<1>3. ASSUME NEW i \in DOMAIN label_stack, ~label_stack[i].unreachable,
             NEW j \in DOMAIN ts, InFrame(i, j)
      PROVE  ts[j] # "any"
  <2>1. CASE i = Len(label_stack)
    BY <1>3, <2>1 DEF InFrame, Clean, KnownAbove, TopLabel
  <2>2. CASE i # Len(label_stack)
    <3>1. i + 1 \in DOMAIN label_stack BY <1>2, <2>2
    <3>2. j \in 1..TopLabel.type_stack_limit
      BY <1>3, <3>1, TopLabelOK DEF InFrame, Keeps, TypeVector
    <3>3. ts[j] = type_stack[j] /\ j \in DOMAIN type_stack
      BY <3>2, TopLabelOK DEF Keeps, TypeVector
    <3> QED BY <1>3, <3>3 DEF KnownInv
  <2> QED BY <2>1, <2>2
<1> QED BY <1>1, <1>3 DEF KnownInv, InFrame

LEMMA TurnedKnown ==
    ASSUME HasLabel, KnownInv, NEW ts, NEW result, NEW message, NEW l \in Label,
           l.type_stack_limit = TopLabel.type_stack_limit,
           l.param_types = TopLabel.param_types, l.result_types = TopLabel.result_types,
           Keeps(ts, type_stack, TopLabel.type_stack_limit), Clean(ts, l),
           Finish(ts, SetTop(l), result, message)
    PROVE  KnownInv'
<1>1. type_stack' = ts /\ label_stack' = SetTop(l)
  BY DEF Finish
<1>2. DOMAIN label_stack = 1..Len(label_stack) /\ Len(label_stack) \in Nat \ {0}
  BY DEF HasLabel, IndInv, TypeOK
<1>3. /\ DOMAIN SetTop(l) = DOMAIN label_stack
      /\ SetTop(l)[Len(label_stack)] = l
      /\ \A i \in DOMAIN label_stack :
            /\ i # Len(label_stack) => SetTop(l)[i] = label_stack[i]
            /\ SetTop(l)[i].type_stack_limit = label_stack[i].type_stack_limit
  BY SetTopLabels DEF TopLabel
<1> DEFINE ls == SetTop(l)
<1>4. ASSUME NEW i \in DOMAIN label_stack, ~ls[i].unreachable, NEW j \in DOMAIN ts,
             InFrame(i, j)
      PROVE  ts[j] # "any"
  <2>1. CASE i = Len(label_stack)
    BY <1>3, <1>4, <2>1 DEF InFrame, Clean, KnownAbove
  <2>2. CASE i # Len(label_stack)
    <3>1. i + 1 \in DOMAIN label_stack BY <1>2, <2>2
    <3>2. j \in 1..TopLabel.type_stack_limit
      BY <1>4, <3>1, TopLabelOK DEF InFrame, Keeps, TypeVector
    <3>3. ts[j] = type_stack[j] /\ j \in DOMAIN type_stack
      BY <3>2, TopLabelOK DEF Keeps, TypeVector
    <3> QED BY <1>3, <1>4, <2>2, <3>3 DEF KnownInv
  <2> QED BY <2>1, <2>2
<1>5. \A i \in DOMAIN ls : ls[i].param_types \in KnownVector /\ ls[i].result_types \in KnownVector
  BY <1>2, <1>3, TopClean DEF KnownInv
<1> HIDE DEF ls
<1>6. ls = SetTop(l) BY DEF ls
<1> QED BY <1>1, <1>3, <1>4, <1>5, <1>6 DEF KnownInv, InFrame

LEMMA PushedKnown ==
    ASSUME HasLabel, KnownInv, NEW ts, NEW base, NEW result, NEW message, NEW l \in Label,
           l.type_stack_limit = Len(base),
           l.param_types \in KnownVector, l.result_types \in KnownVector,
           Keeps(base, type_stack, TopLabel.type_stack_limit), Clean(base, TopLabel),
           Keeps(ts, base, Len(base)), KnownAbove(ts, Len(base)),
           Finish(ts, Append(label_stack, l), result, message)
    PROVE  KnownInv'
<1>1. type_stack' = ts /\ label_stack' = Append(label_stack, l)
  BY DEF Finish
<1> DEFINE ls == Append(label_stack, l)
           n == Len(label_stack)
<1>2. n \in Nat \ {0} /\ label_stack \in Seq(Label) /\ DOMAIN label_stack = 1..n
  BY DEF HasLabel, IndInv, TypeOK
<1>3. /\ DOMAIN ls = 1..n + 1
      /\ ls[n + 1] = l
      /\ \A i \in 1..n : ls[i] = label_stack[i]
  BY <1>2
<1>4. Len(base) \in Nat /\ Len(ts) \in Nat /\ Len(base) <= Len(ts)
      /\ DOMAIN base = 1..Len(base) /\ DOMAIN ts = 1..Len(ts)
  BY DEF Keeps, TypeVector
<1> HIDE DEF ls, n
<1>5. ASSUME NEW i \in 1..n + 1, ~ls[i].unreachable, NEW j \in DOMAIN ts,
             ls[i].type_stack_limit < j,
             i + 1 \in 1..n + 1 => j <= ls[i + 1].type_stack_limit
      PROVE  ts[j] # "any"
  <2>1. CASE i = n + 1
    BY <1>3, <1>5, <2>1 DEF KnownAbove
  <2>2. CASE i = n
    <3>1. i + 1 \in 1..n + 1 /\ ls[i + 1] = l /\ ls[i] = TopLabel
      BY <1>2, <1>3, <2>2 DEF TopLabel, n
    <3>2. j \in DOMAIN base /\ ts[j] = base[j]
      BY <1>4, <1>5, <3>1 DEF Keeps
    <3> QED BY <1>5, <3>1, <3>2 DEF Clean, KnownAbove
  <2>3. CASE i \in 1..n - 1
    <3>1. i + 1 \in 1..n /\ i \in 1..n /\ i + 1 \in 1..n + 1
      BY <1>2, <2>3
    <3>2. j <= label_stack[i + 1].type_stack_limit
      BY <1>3, <1>5, <3>1
    <3>3. j \in 1..TopLabel.type_stack_limit
      BY <1>2, <1>4, <3>1, <3>2, TopLabelOK, SMTT(30)
    <3>4. j \in 1..Len(base) /\ ts[j] = base[j]
      BY <3>3, <1>4, TopLabelOK DEF Keeps
    <3>5. ts[j] = type_stack[j] /\ j \in DOMAIN type_stack
      BY <3>3, <3>4, TopLabelOK DEF Keeps, TypeVector
    <3>6. InFrame(i, j) /\ ~label_stack[i].unreachable
      BY <1>2, <1>3, <1>5, <3>1, <3>2 DEF InFrame
    <3> QED BY <1>2, <3>1, <3>5, <3>6 DEF KnownInv
  <2> QED BY <1>2, <2>1, <2>2, <2>3
<1>6. \A i \in 1..n + 1 : ls[i].param_types \in KnownVector /\ ls[i].result_types \in KnownVector
  BY <1>2, <1>3 DEF KnownInv
<1>7. label_stack' = ls BY <1>1 DEF ls
<1> QED BY <1>1, <1>3, <1>5, <1>6, <1>7 DEF KnownInv, InFrame

LEMMA PoppedKnown ==
    ASSUME HasLabel, KnownInv, NEW base, NEW types \in KnownVector, NEW result, NEW message,
           Keeps(base, type_stack, TopLabel.type_stack_limit),
           Len(base) = TopLabel.type_stack_limit,
           Finish(base \o types, AllButTop, result, message)
    PROVE  KnownInv'
<1> DEFINE ts == base \o types
           n == Len(label_stack)
<1>1. type_stack' = ts /\ label_stack' = AllButTop
  BY DEF Finish
<1>2. n \in Nat \ {0} /\ DOMAIN label_stack = 1..n
  BY DEF HasLabel, IndInv, TypeOK
<1>3. /\ DOMAIN AllButTop = 1..n - 1
      /\ \A i \in 1..n - 1 : AllButTop[i] = label_stack[i]
  BY <1>2 DEF AllButTop, HasLabel, IndInv, TypeOK
<1>4. Len(base) \in Nat /\ base \in Seq(StackType) /\ types \in Seq(StackType)
  BY DEF Keeps, TypeVector, KnownVector, StackType
<1>5. \A j \in DOMAIN types : types[j] # "any"
  BY DEF KnownVector, ValueType, NumType, RefType
<1>6. \A j \in DOMAIN ts :
         \/ j \in 1..Len(base) /\ ts[j] = base[j]
         \/ j > Len(base) /\ ts[j] # "any"
  BY <1>4, <1>5
<1> HIDE DEF ts, n
<1>7. ASSUME NEW i \in 1..n - 1, ~label_stack[i].unreachable, NEW j \in DOMAIN ts,
             label_stack[i].type_stack_limit < j,
             i + 1 \in 1..n - 1 => j <= label_stack[i + 1].type_stack_limit
      PROVE  ts[j] # "any"
  <2> SUFFICES ASSUME j \in 1..Len(base), ts[j] = base[j] PROVE ts[j] # "any"
    BY <1>6
  <2>1. i \in DOMAIN label_stack /\ i + 1 \in DOMAIN label_stack
    BY <1>2
  <2>2. j <= label_stack[i + 1].type_stack_limit
    <3>1. CASE i + 1 = n
      BY <1>4, <3>1 DEF TopLabel, n
    <3>2. CASE i + 1 \in 1..n - 1
      BY <1>7, <3>2
    <3> QED BY <1>2, <3>1, <3>2
  <2>3. InFrame(i, j) BY <1>7, <2>2 DEF InFrame
  <2>4. j \in DOMAIN type_stack /\ ts[j] = type_stack[j]
    BY TopLabelOK DEF Keeps, TypeVector
  <2> QED BY <1>7, <2>1, <2>3, <2>4 DEF KnownInv
<1>8. 1..n - 1 \subseteq DOMAIN label_stack BY <1>2
<1> QED BY <1>1, <1>3, <1>7, <1>8 DEF KnownInv, InFrame

-----------------------------------------------------------------------------
(* The shapes the handlers share. *)

LEMMA KnownLiterals ==
    /\ << >> \in KnownVector
    /\ \A a \in StackType : a # "any" => <<a>> \in KnownVector
    /\ KnownVector \subseteq TypeVector
BY DEF KnownVector, TypeVector, StackType, ValueType, NumType, RefType

(* Popping two signatures, as most handlers do. *)
LEMMA PopClean ==
    ASSUME HasLabel, KnownInv, NEW cond \in TypeVector, NEW params \in TypeVector
    PROVE  LET ts1 == PopTypes(type_stack, TopLabel, cond)
               ts2 == PopTypes(ts1, TopLabel, params)
           IN  /\ Keeps(ts1, type_stack, TopLabel.type_stack_limit)
               /\ Keeps(ts2, type_stack, TopLabel.type_stack_limit)
               /\ ts1 \in TypeVector /\ ts2 \in TypeVector
               /\ Clean(ts1, TopLabel)
               /\ Clean(ts2, TopLabel)
<1> DEFINE limit == TopLabel.type_stack_limit
           ts1 == PopTypes(type_stack, TopLabel, cond)
           ts2 == PopTypes(ts1, TopLabel, params)
<1>1. Len(cond) \in Nat /\ Len(params) \in Nat
  BY DEF TypeVector
<1>2. Keeps(ts1, type_stack, limit) BY TopLabelOK, PopKeeps
<1>3. Keeps(ts2, type_stack, limit) BY <1>2, TopLabelOK, PopKeeps
<1>4. Clean(ts1, TopLabel)
  BY <1>1, TopLabelOK, TopClean, DropClean DEF PopTypes
<1> HIDE DEF ts1
<1>5. Clean(ts2, TopLabel)
  BY <1>1, <1>2, <1>4, TopLabelOK, DropClean DEF PopTypes
<1>6. ts1 \in TypeVector /\ ts2 \in TypeVector
  BY <1>2, <1>3 DEF Keeps
<1> QED BY <1>2, <1>3, <1>4, <1>5, <1>6 DEF ts1

LEMMA PopAndPushKnown ==
    ASSUME HasLabel, KnownInv, NEW cond \in TypeVector, NEW params \in TypeVector,
           NEW results \in KnownVector, PopAndPush(cond, params, results)
    PROVE  KnownInv'
<1> DEFINE ts1 == PopTypes(type_stack, TopLabel, cond)
           ts2 == PopTypes(ts1, TopLabel, params)
<1>1. Keeps(ts2, type_stack, TopLabel.type_stack_limit) /\ ts2 \in TypeVector
      /\ Clean(ts2, TopLabel)
  BY PopClean
<1>2. Keeps(ts2 \o results, type_stack, TopLabel.type_stack_limit)
  BY <1>1, TopLabelOK, PushKeeps, KnownLiterals
<1>3. Clean(ts2 \o results, TopLabel)
  BY <1>1, TopLabelOK, PushClean
<1> HIDE DEF ts2
<1> QED BY <1>2, <1>3, SameKnown DEF PopAndPush, Return, ts2

LEMMA UnreachableKnown ==
    ASSUME HasLabel, KnownInv, NEW ts, NEW result,
           Keeps(ts, type_stack, TopLabel.type_stack_limit),
           ReturnUnreachable(ts, result)
    PROVE  KnownInv'
<1> DEFINE l == [TopLabel EXCEPT !.unreachable = TRUE]
           rest == ResetTypeStackToLabel(ts, TopLabel)
<1>1. /\ l \in Label
      /\ l.type_stack_limit = TopLabel.type_stack_limit
      /\ l.param_types = TopLabel.param_types
      /\ l.result_types = TopLabel.result_types
      /\ l.unreachable
  BY TopLabelOK DEF Label
<1>2. Keeps(rest, type_stack, TopLabel.type_stack_limit)
  BY TopLabelOK, ResetKeeps
<1>3. Clean(rest, l) BY <1>1 DEF Clean
<1>4. Finish(rest, SetTop(l), result, ~result)
  BY DEF ReturnUnreachable, Return
<1> HIDE DEF l, rest
<1> QED BY <1>1, <1>2, <1>3, <1>4, TurnedKnown

LEMMA ReturnCallKnown ==
    ASSUME HasLabel, KnownInv, NEW cond \in TypeVector, NEW ft \in FuncTypes,
           ReturnCall(cond, ft)
    PROVE  KnownInv'
<1>1. ft.params \in TypeVector BY TypeCheckerAssumption DEF FuncType
<1>2. Keeps(PopTypes(PopTypes(type_stack, TopLabel, cond), TopLabel, ft.params),
            type_stack, TopLabel.type_stack_limit)
  BY <1>1, PopClean
<1> QED BY <1>2, UnreachableKnown DEF ReturnCall

LEMMA OpenKnown ==
    ASSUME HasLabel, KnownInv, NoUnknownNamed, NEW kind \in LabelType,
           NEW cond \in TypeVector, NEW ft \in FuncTypes, OpenLabel(kind, cond, ft)
    PROVE  KnownInv'
<1> DEFINE ts1 == PopTypes(type_stack, TopLabel, cond)
           ts2 == PopTypes(ts1, TopLabel, ft.params)
           l == NewLabel(kind, ft.params, ft.results, Len(ts2))
           ok == PopOk(type_stack, TopLabel, cond) /\ PopOk(ts1, TopLabel, ft.params)
<1>1. /\ ft.params \in KnownVector /\ ft.results \in KnownVector
      /\ ft.params \in TypeVector /\ ft.results \in TypeVector
  BY KnownLiterals DEF NoUnknownNamed
<1>2. /\ Keeps(ts2, type_stack, TopLabel.type_stack_limit)
      /\ ts2 \in TypeVector
      /\ Clean(ts2, TopLabel)
  BY <1>1, PopClean
<1>3. Finish(ts2 \o ft.params, Append(label_stack, l), ok, ~ok)
  BY DEF OpenLabel, Return
<1> HIDE DEF ts2, ok
<1>4. Len(ts2) \in Nat /\ Keeps(ts2, ts2, Len(ts2))
  BY <1>2 DEF Keeps, TypeVector
<1>5. Keeps(ts2 \o ft.params, ts2, Len(ts2))
  BY <1>1, <1>4, PushKeeps
<1>6. /\ l \in Label /\ l.type_stack_limit = Len(ts2)
      /\ l.param_types = ft.params /\ l.result_types = ft.results
      /\ ~l.unreachable
  BY <1>1, <1>4 DEF NewLabel, Label
<1> HIDE DEF l
<1>7. Clean(ts2, l)
  BY <1>4, <1>6 DEF Clean, KnownAbove, Keeps, TypeVector
<1>8. KnownAbove(ts2 \o ft.params, Len(ts2))
  BY <1>1, <1>2, <1>6, <1>7, PushClean DEF Clean
<1> QED BY <1>1, <1>2, <1>3, <1>5, <1>6, <1>8, PushedKnown

LEMMA CloseKnown ==
    ASSUME HasLabel, KnownInv, NEW ts, NEW l \in Label, NEW kindOk,
           l.type_stack_limit = TopLabel.type_stack_limit,
           l.result_types = TopLabel.result_types,
           Keeps(ts, type_stack, TopLabel.type_stack_limit),
           CloseLabel(ts, l, kindOk)
    PROVE  KnownInv'
<1>1. /\ Keeps(ResetTypeStackToLabel(ts, l), type_stack, TopLabel.type_stack_limit)
      /\ Len(ResetTypeStackToLabel(ts, l)) = TopLabel.type_stack_limit
  BY ResetKeeps
<1>2. l.result_types \in KnownVector BY TopClean
<1> QED BY <1>1, <1>2, PoppedKnown DEF CloseLabel

(* What OnElse leaves: an else whose operands are the parameters of its if. *)
LEMMA ElseKnown ==
    ASSUME HasLabel, KnownInv
    PROVE  /\ ElseLabel.param_types = TopLabel.param_types
           /\ ElseLabel.result_types = TopLabel.result_types
           /\ Clean(ElseTypes, ElseLabel)
<1>1. /\ ElseLabel.param_types = TopLabel.param_types
      /\ ElseLabel.result_types = TopLabel.result_types
  BY TopLabelOK DEF ElseLabel, Label
<1> DEFINE rest == ResetTypeStackToLabel(type_stack, TopLabel)
<1>2. Keeps(rest, type_stack, TopLabel.type_stack_limit)
  BY TopLabelOK, ResetKeeps
<1>3. KnownAbove(rest, TopLabel.type_stack_limit)
  BY TopLabelOK, ResetClean
<1>4. rest \in TypeVector BY <1>2 DEF Keeps
<1> HIDE DEF rest
<1>5. Clean(rest, ElseLabel) BY <1>3, ElseOK DEF Clean
<1>6. Clean(rest \o TopLabel.param_types, ElseLabel)
  BY <1>4, <1>5, ElseOK, TopClean, PushClean
<1> QED BY <1>1, <1>6 DEF ElseTypes, rest

-----------------------------------------------------------------------------
(* The handlers. *)

LEMMA PlainKnown ==
    ASSUME HasLabel, KnownInv, NoUnknownNamed, PlainHandler
    PROVE  KnownInv'
<1> USE TypeCheckerAssumption
<1> DEFINE limit == TopLabel.type_stack_limit
<1>a. /\ \A op \in Opcodes \union LaneOps : op.params \in TypeVector /\ op.result \in StackType \union {"void"}
      /\ PushedTypes \subseteq StackType /\ PushedTypes \intersect RefType \subseteq StackType
  BY DEF OpcodeRow
<1>b. \A ft \in FuncTypes : ft.params \in TypeVector /\ ft.results \in KnownVector
  BY DEF FuncType, NoUnknownNamed
<1>c. \A elem \in PushedTypes : elem # "any" BY DEF NoUnknownNamed
<1>1. ASSUME NEW op \in Opcodes \union LaneOps, NEW result, NEW message,
             Finish(PushType(PopTypes(type_stack, TopLabel, op.params), op.result),
                    label_stack, result, message)
      PROVE  KnownInv'
  <2> DEFINE ts == PopTypes(type_stack, TopLabel, op.params)
  <2>1. Keeps(ts, type_stack, limit) /\ ts \in TypeVector /\ Clean(ts, TopLabel)
    BY <1>a, PopClean
  <2>2. op.result # "any" BY DEF NoUnknownNamed
  <2> HIDE DEF ts
  <2>3. Keeps(PushType(ts, op.result), type_stack, limit)
    BY <1>a, <2>1, TopLabelOK, PushKeeps
  <2>4. Clean(PushType(ts, op.result), TopLabel)
    BY <1>a, <2>1, <2>2, TopLabelOK, PushClean DEF PushType
  <2> QED BY <1>1, <2>3, <2>4, SameKnown DEF ts
<1>2. ASSUME NEW op \in Opcodes, OnOpcode(op) PROVE KnownInv'
  BY <1>1, <1>2 DEF OnOpcode, Return
<1>3. ASSUME NEW op \in LaneOps, NEW laneInRange \in BOOLEAN, OnSimdLaneOp(op, laneInRange)
      PROVE  KnownInv'
  BY <1>1, <1>3 DEF OnSimdLaneOp
<1>4. ASSUME NEW type \in PushedTypes, OnPush(type) PROVE KnownInv'
  <2>1. Keeps(PushType(type_stack, type), type_stack, limit)
    BY TopLabelOK, PushKeeps
  <2>2. type_stack \in TypeVector /\ type \in StackType /\ type # "any"
    BY <1>a, <1>c DEF HasLabel, IndInv, TypeOK
  <2>3. Clean(PushType(type_stack, type), TopLabel)
    BY <2>2, TopLabelOK, TopClean, PushClean DEF PushType
  <2> QED BY <1>4, <2>1, <2>3, SameKnown DEF OnPush, Return
<1>5. ASSUME NEW type \in PushedTypes, OnSet(type) \/ OnLocalTee(type) PROVE KnownInv'
  BY <1>5, <1>a, <1>c, Literals, KnownLiterals, PopAndPushKnown DEF OnSet, OnLocalTee
<1>6. ASSUME NEW elem \in PushedTypes, \/ OnTableGet(elem) \/ OnTableSet(elem)
                                       \/ OnTableGrow(elem) \/ OnTableFill(elem)
      PROVE  KnownInv'
  <2>1. /\ <<"i32">> \in KnownVector /\ << >> \in KnownVector
        /\ <<elem>> \in KnownVector
    BY <1>a, <1>c, Literals, KnownLiterals
  <2>2. /\ <<"i32">> \in TypeVector /\ << >> \in TypeVector
        /\ <<"i32", elem>> \in TypeVector /\ <<elem, "i32">> \in TypeVector
        /\ <<"i32", elem, "i32">> \in TypeVector
    BY <1>a, Literals
  <2> QED BY <1>6, <2>1, <2>2, PopAndPushKnown
          DEF OnTableGet, OnTableSet, OnTableGrow, OnTableFill
<1>7. ASSUME OnRefIsNullExpr PROVE KnownInv'
  BY <1>7, Literals, KnownLiterals, PopAndPushKnown DEF OnRefIsNullExpr
<1>8. ASSUME OnDrop PROVE KnownInv'
  <2>1. /\ Keeps(DropTypes(type_stack, TopLabel, 1), type_stack, limit)
        /\ Clean(DropTypes(type_stack, TopLabel, 1), TopLabel)
    BY TopLabelOK, TopClean, DropKeeps, DropClean
  <2> QED BY <1>8, <2>1, SameKnown DEF OnDrop, Return
<1>9. ASSUME NEW ft \in FuncTypes, OnCall(ft) \/ OnCallIndirect(ft) PROVE KnownInv'
  BY <1>9, <1>b, Literals, PopAndPushKnown DEF OnCall, OnCallIndirect
<1>10. ASSUME NEW ft \in FuncTypes, OnReturnCall(ft) \/ OnReturnCallIndirect(ft)
       PROVE  KnownInv'
  BY <1>10, Literals, ReturnCallKnown DEF OnReturnCall, OnReturnCallIndirect
<1>11. ASSUME NEW depth \in Depth, OnBr(depth) PROVE KnownInv'
  BY <1>11, TopLabelOK, TopClean, SameKnown, UnreachableKnown DEF OnBr, InvalidDepth, Return
<1>12. /\ Keeps(PopTypes(type_stack, TopLabel, <<"i32">>), type_stack, limit)
       /\ Keeps(PopTypes(type_stack, TopLabel, <<"exnref">>), type_stack, limit)
       /\ PopTypes(type_stack, TopLabel, <<"i32">>) \in TypeVector
       /\ PopTypes(type_stack, TopLabel, <<"exnref">>) \in TypeVector
       /\ Clean(PopTypes(type_stack, TopLabel, <<"i32">>), TopLabel)
       /\ Clean(PopTypes(type_stack, TopLabel, <<"exnref">>), TopLabel)
  BY Literals, PopClean
<1>13. ASSUME NEW depth \in Depth, OnBrIf(depth) PROVE KnownInv'
  <2> DEFINE ts == PopTypes(type_stack, TopLabel, <<"i32">>)
             sig == br_types(GetLabel(depth))
  <2>1. CASE depth >= Len(label_stack)
    BY <1>13, <1>12, <2>1, SameKnown DEF OnBrIf, InvalidDepth, Return
  <2>2. CASE ~(depth >= Len(label_stack))
    <3>1. Len(label_stack) - depth \in DOMAIN label_stack
      BY <2>2, TopLabelOK DEF Depth, HasLabel, IndInv, TypeOK
    <3>2. sig \in KnownVector
      BY <3>1 DEF KnownInv, GetLabel, br_types
    <3>3. sig \in TypeVector /\ << >> \in TypeVector
      BY <3>2, KnownLiterals
    <3>4. Return(PopTypes(ts, TopLabel, sig) \o sig, label_stack,
                 /\ PopOk(type_stack, TopLabel, <<"i32">>)
                 /\ PopOk(ts, TopLabel, sig))
      BY <1>13, <2>2 DEF OnBrIf
    <3>5. PopAndPush(<<"i32">>, sig, sig)
      BY <3>4 DEF PopAndPush
    <3> QED BY <3>2, <3>3, <3>5, Literals, PopAndPushKnown
  <2> QED BY <2>1, <2>2
<1>14. ASSUME NEW depth \in Depth, NEW types \in EventTypes, OnBrOnExn(depth, types)
       PROVE  KnownInv'
  <2> DEFINE ts == PopTypes(type_stack, TopLabel, <<"exnref">>)
  <2>1. Keeps(Append(ts, "exnref"), type_stack, limit)
    BY <1>12, Literals, TopLabelOK, PushKeeps
  <2>2. "exnref" # "any" /\ "exnref" \in StackType BY Literals
  <2>3. Clean(Append(ts, "exnref"), TopLabel)
    BY <1>12, <2>2, TopLabelOK, PushClean
  <2> QED BY <1>12, <1>14, <2>1, <2>3, SameKnown DEF OnBrOnExn, InvalidDepth, Return
<1>15. ASSUME NEW depth \in Depth, NEW other \in Depth, OnBrTable(<<depth, other>>)
       PROVE  KnownInv'
  BY <1>12, <1>15, UnreachableKnown DEF OnBrTable
<1>16. ASSUME NEW sig \in TypeVector, OnThrow(sig) PROVE KnownInv'
  BY <1>16, PopClean, UnreachableKnown DEF OnThrow
<1>17. ASSUME OnRethrow PROVE KnownInv'
  BY <1>16, <1>17, Literals DEF OnRethrow
<1>18. ASSUME OnReturn PROVE KnownInv'
  BY <1>18, LabelTypes, PopClean, UnreachableKnown DEF OnReturn
<1>19. ASSUME OnUnreachable PROVE KnownInv'
  BY <1>19, TopLabelOK, UnreachableKnown DEF OnUnreachable
<1> QED
  BY <1>2, <1>3, <1>4, <1>5, <1>6, <1>7, <1>8, <1>9, <1>10, <1>11, <1>13, <1>14,
     <1>15, <1>16, <1>17, <1>18, <1>19
  DEF PlainHandler

(* An untyped select that is accepted leaves the type of its upper operand. *)
LEMMA SelectKnown ==
    ASSUME HasLabel, KnownInv, ~failed', OnSelect("any")
    PROVE  KnownInv'
<1> DEFINE ts == DropTypes(type_stack, TopLabel, 3)
           limit == TopLabel.type_stack_limit
<1>1. SelectOk("any")
  BY Zenon DEF OnSelect, Return, Finish
<1>2. Keeps(ts, type_stack, limit) /\ ts \in TypeVector /\ Clean(ts, TopLabel)
  <2>1. Keeps(ts, type_stack, limit) BY TopLabelOK, DropKeeps
  <2>2. Clean(ts, TopLabel) BY TopLabelOK, TopClean, DropClean
  <2> QED BY <2>1, <2>2 DEF Keeps
<1>3. SelectResult("any") = PeekType(type_stack, TopLabel, 1)
  <2>1. ~SelectsRefs BY <1>1, Zenon DEF SelectOk
  <2> QED BY <2>1, Zenon DEF SelectResult, SelectOperand
<1>4. PeekType(type_stack, TopLabel, 1) \in StackType
  BY TopLabelOK, Literals DEF PeekType, Keeps, TypeVector
<1>5. ~TopLabel.unreachable => PeekType(type_stack, TopLabel, 1) # "any"
  <2> SUFFICES ASSUME ~TopLabel.unreachable
               PROVE  PeekType(type_stack, TopLabel, 1) # "any"
    OBVIOUS
  <2>1. limit + 1 < Len(type_stack)
    BY <1>1 DEF SelectOk, PeekOk
  <2>2. /\ Len(type_stack) - 1 \in DOMAIN type_stack
        /\ limit < Len(type_stack) - 1
    BY <2>1, TopLabelOK DEF Keeps, TypeVector
  <2>3. type_stack[Len(type_stack) - 1] # "any"
    BY <2>2, TopClean DEF Clean, KnownAbove
  <2> QED BY <2>1, <2>3, TopLabelOK DEF PeekType, Keeps, TypeVector
<1> HIDE DEF ts
<1>6. Keeps(Append(ts, SelectResult("any")), type_stack, limit)
  BY <1>2, <1>3, <1>4, TopLabelOK, PushKeeps
<1>7. Clean(Append(ts, SelectResult("any")), TopLabel)
  <2>1. CASE TopLabel.unreachable
    BY <2>1 DEF Clean
  <2>2. CASE ~TopLabel.unreachable
    BY <2>2, <1>2, <1>3, <1>4, <1>5, TopLabelOK, PushClean
  <2> QED BY <2>1, <2>2
<1> QED BY <1>6, <1>7, SameKnown DEF OnSelect, Return, ts

LEMMA BlockKnown ==
    ASSUME HasLabel, KnownInv, NoUnknownNamed,
           OpenHandler \/ OnElse \/ OnCatch \/ OnEnd \/ EndFunction
    PROVE  KnownInv'
<1>1. ASSUME OpenHandler PROVE KnownInv'
  BY <1>1, Literals, OpenKnown DEF OpenHandler, OnBlock, OnIf, LabelType
<1>2. ASSUME OnElse PROVE KnownInv'
  BY <1>2, ElseOK, ElseKnown, TurnedKnown DEF OnElse
<1>3. ASSUME OnCatch PROVE KnownInv'
  <2> DEFINE l == [TopLabel EXCEPT !.label_type = "catch", !.unreachable = FALSE]
             rest == ResetTypeStackToLabel(type_stack, TopLabel)
             ok == TopLabel.label_type = "try" /\ ArmEndOk(type_stack, TopLabel)
  <2>1. /\ l \in Label
        /\ l.type_stack_limit = TopLabel.type_stack_limit
        /\ l.param_types = TopLabel.param_types
        /\ l.result_types = TopLabel.result_types
    BY TopLabelOK DEF Label, LabelType, BlockKind
  <2>2. Keeps(rest, type_stack, TopLabel.type_stack_limit) /\ rest \in TypeVector
    BY TopLabelOK, ResetKeeps DEF Keeps
  <2>3. KnownAbove(rest, TopLabel.type_stack_limit)
    BY TopLabelOK, ResetClean
  <2>4. Finish(Append(rest, "exnref"), SetTop(l), ok, ~ArmEndOk(type_stack, TopLabel))
    BY <1>3 DEF OnCatch
  <2> HIDE DEF l, rest, ok
  <2>5. Keeps(Append(rest, "exnref"), type_stack, TopLabel.type_stack_limit)
    BY <2>2, Literals, TopLabelOK, PushKeeps
  <2>6. Clean(rest, l) BY <2>1, <2>3 DEF Clean
  <2>7. "exnref" # "any" /\ "exnref" \in StackType BY Literals
  <2>8. Clean(Append(rest, "exnref"), l)
    BY <2>1, <2>2, <2>6, <2>7, PushClean
  <2> QED BY <2>1, <2>4, <2>5, <2>8, TurnedKnown
<1>4. ASSUME OnEnd PROVE KnownInv'
  <2>1. CASE CloseLabel(type_stack, TopLabel, TRUE)
    BY <2>1, TopLabelOK, CloseKnown
  <2>2. CASE CloseLabel(ElseTypes, ElseLabel, TRUE)
    BY <2>2, ElseOK, ElseKnown, CloseKnown
  <2>3. CASE OnElse
    BY <2>3, <1>2
  <2> QED BY <1>4, <2>1, <2>2, <2>3 DEF OnEnd
<1>5. ASSUME EndFunction PROVE KnownInv'
  BY <1>5, TopLabelOK, CloseKnown DEF EndFunction
<1> QED BY <1>1, <1>2, <1>3, <1>4, <1>5

LEMMA KnownStep ==
    ASSUME IndInv, NoUnknownNamed, ~failed => KnownInv, Next, ~failed'
    PROVE  KnownInv'
<1>1. CASE \E ft \in FuncTypes : BeginFunction(ft)
  <2>1. PICK ft \in FuncTypes : BeginFunction(ft) BY <1>1
  <2>2. ft.results \in KnownVector /\ << >> \in KnownVector
    BY KnownLiterals DEF NoUnknownNamed
  <2>3. type_stack' = << >> /\ label_stack' = <<NewLabel("func", << >>, ft.results, 0)>>
    BY <2>1 DEF BeginFunction
  <2> QED BY <2>2, <2>3 DEF KnownInv, NewLabel
<1>2. CASE label_stack # << >> /\ (InstructionHandler \/ EndFunction)
  <2>1. HasLabel /\ KnownInv BY <1>2 DEF HasLabel, Next
  <2>2. CASE SelectHandler
    <3>1. OnSelect("any") BY <2>2 DEF SelectHandler, NoUnknownNamed
    <3> QED BY <2>1, <3>1, SelectKnown
  <2> QED BY <1>2, <2>1, <2>2, PlainKnown, BlockKnown DEF InstructionHandler
<1> QED BY <1>1, <1>2 DEF Next

(* Code that has been accepted so far has no operand of unknown type in a
   reachable block, so PopAndCheckSignature, which lets the unknown type pass
   for any, has compared real types. *)
THEOREM NeverUnknownWhenReachable ==
    NoUnknownNamed => (Spec => []NoUnknownWhenReachable)
<1> SUFFICES ASSUME NoUnknownNamed PROVE Spec => []NoUnknownWhenReachable
  OBVIOUS
<1> DEFINE Inv == ~failed => KnownInv
<1>1. Init => Inv
  BY DEF Init, KnownInv
<1>2. IndInv /\ Inv /\ [Next]_tcVars => Inv'
  <2>1. ASSUME IndInv, Inv, Next PROVE Inv'
    BY <2>1, KnownStep
  <2>2. ASSUME Inv, UNCHANGED tcVars PROVE Inv'
    BY <2>2 DEF tcVars, KnownInv, InFrame
  <2> QED BY <2>1, <2>2
<1>3. IndInv /\ Inv => NoUnknownWhenReachable
  <2> SUFFICES ASSUME IndInv, KnownInv, label_stack # << >>, ~TopLabel.unreachable,
                      NEW i \in TopLabel.type_stack_limit + 1 .. Len(type_stack)
               PROVE  type_stack[i] # "any"
    BY DEF NoUnknownWhenReachable
  <2>1. HasLabel BY DEF HasLabel
  <2>2. i \in DOMAIN type_stack /\ TopLabel.type_stack_limit < i
    BY <2>1, TopLabelOK DEF Keeps, TypeVector
  <2> QED BY <2>1, <2>2, TopClean DEF Clean, KnownAbove
<1> QED BY <1>1, <1>2, <1>3, LabelsAlwaysNested, PTL DEF Spec, IndInv
=============================================================================
