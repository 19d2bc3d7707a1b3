---------------------------- MODULE ValidatorWalk ----------------------------
(***************************************************************************)
(* Validator::CheckFunc: the type checker driven by the ExprVisitor over a *)
(* function of the IR.  The IR is well nested whatever else is wrong with  *)
(* the function, and most of the Validator's handlers drop the Result they *)
(* get, so the walk goes on after an error; OnSelectExpr alone passes it   *)
(* on, which abandons the rest of the function's expressions.  Whether the *)
(* module is valid is decided by the messages alone (PrintError).          *)
(***************************************************************************)
EXTENDS TypeChecker

VARIABLES
    nest,     \* the constructs whose end the visitor still has to reach
    walk      \* "idle", in the "body", or "left" when the visit was abandoned

walkVars == <<type_stack, label_stack, failed, printed, nest, walk>>

Nested == BlockKind \union {"if", "else", "catch"}

InBody == walk = "body"

Inside(kinds) == InBody /\ nest # << >> /\ nest[Len(nest)] \in kinds

BeginCheckFunc(ft) ==
    /\ walk = "idle"
    /\ BeginFunction(ft)
    /\ nest' = << >>
    /\ walk' = "body"

VisitPlain == InBody /\ PlainHandler /\ UNCHANGED <<nest, walk>>

VisitSelect(type) ==
    /\ InBody
    /\ OnSelect(type)
    /\ walk' = IF SelectOk(type) THEN "body" ELSE "left"
    /\ UNCHANGED nest

VisitBlock(kind, ft) ==
    /\ InBody
    /\ OnBlock(kind, ft)
    /\ nest' = Append(nest, kind)
    /\ UNCHANGED walk

VisitIf(ft) ==
    /\ InBody
    /\ OnIf(ft)
    /\ nest' = Append(nest, "if")
    /\ UNCHANGED walk

\* AfterIfTrueExpr, of an if whose false_ list is not empty.
VisitElse ==
    /\ Inside({"if"})
    /\ OnElse
    /\ nest' = [nest EXCEPT ![Len(nest)] = "else"]
    /\ UNCHANGED walk

VisitCatch ==
    /\ Inside({"try"})
    /\ OnCatch
    /\ nest' = [nest EXCEPT ![Len(nest)] = "catch"]
    /\ UNCHANGED walk

\* EndBlockExpr, EndLoopExpr, EndIfExpr and EndTryExpr.
VisitEnd ==
    /\ Inside(Nested \ {"try"})
    /\ OnEnd
    /\ nest' = SubSeq(nest, 1, Len(nest) - 1)
    /\ UNCHANGED walk

\* Reached after the last expression, or at once when the visit was abandoned.
EndCheckFunc ==
    /\ \/ InBody /\ nest = << >>
       \/ walk = "left"
    /\ EndFunction
    /\ nest' = << >>
    /\ walk' = "idle"

WalkInit ==
    /\ Init
    /\ nest = << >>
    /\ walk = "idle"

WalkNext ==
    /\ \/ VisitPlain
       \/ \E type \in SelectTypes : VisitSelect(type)
       \/ \E ft \in FuncTypes :
             \/ BeginCheckFunc(ft)
             \/ VisitIf(ft)
             \/ \E kind \in BlockKind : VisitBlock(kind, ft)
       \/ VisitElse
       \/ VisitCatch
       \/ VisitEnd
       \/ EndCheckFunc
    /\ WithinBounds

WalkSpec == WalkInit /\ [][WalkNext]_walkVars

-----------------------------------------------------------------------------
(* No error is lost: the Validator ignores the Results of the handlers, so an
   invalid function is rejected only because every handler that fails also
   prints, or comes after one that has. *)
ErrorsAreReported == failed => printed

(* There is a label for the function and for every construct being visited, so
   no handler meets an empty label stack (the assert of TypeChecker::GetLabel);
   and until an error there are no others. *)
LabelsCoverNesting ==
    walk # "idle" =>
        /\ Len(label_stack) >= Len(nest) + 1
        /\ ~failed => Len(label_stack) = Len(nest) + 1

(* Until an error, the labels are those of the constructs being visited, in
   order: a branch depth of the text names the block it is written in. *)
LabelsMirrorNesting ==
    (InBody /\ ~failed) =>
        \A i \in DOMAIN nest : label_stack[i + 1].label_type = nest[i]
=============================================================================
