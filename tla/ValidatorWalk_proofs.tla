------------------------ MODULE ValidatorWalk_proofs ------------------------
(***************************************************************************)
(* The walk of the Validator loses no error, never meets an empty label    *)
(* stack, and until an error sees the labels of the constructs it is in,   *)
(* for every set of signatures, opcodes and bounds and for every function  *)
(* the visitor may walk, the lane operators included.                      *)
(*                                                                         *)
(* Each theorem needs the others: an error is silent only where a label is *)
(* of the wrong kind, which the mirror excludes until there is an error,   *)
(* and afterwards there is a message already; a label is there to be       *)
(* closed because there are as many as constructs.                         *)
(***************************************************************************)
EXTENDS ValidatorWalk, TypeChecker_proofs

(* The labels are the function's and those of the constructs being visited. *)
Mirrors ==
    /\ Len(label_stack) = Len(nest) + 1
    /\ label_stack[1].label_type = "func"
    /\ \A i \in DOMAIN nest : label_stack[i + 1].label_type = nest[i]

(* There is one label more than constructs, and no error that has not been
   printed. *)
WalkInv ==
    /\ IndInv
    /\ nest \in Seq(Nested)
    /\ walk \in {"idle", "body", "left"}
    /\ ErrorsAreReported
    /\ walk # "idle" => Len(label_stack) >= Len(nest) + 1
    /\ walk = "left" => failed
    /\ (walk # "idle" /\ ~failed) => Mirrors

(* A handler of the walk runs on an open label. *)
LEMMA WalkRuns ==
    ASSUME WalkInv, walk # "idle"
    PROVE  /\ HasLabel
           /\ Len(nest) \in Nat
           /\ DOMAIN nest = 1..Len(nest)
           /\ Len(label_stack) \in Nat \ {0}
           /\ DOMAIN label_stack = 1..Len(label_stack)
           /\ 1 \in DOMAIN label_stack
           /\ TopLabel = label_stack[Len(label_stack)]
           /\ ~failed => Len(label_stack) = Len(nest) + 1
<1>1. Len(nest) \in Nat /\ DOMAIN nest = 1..Len(nest)
  BY DEF WalkInv
<1>2. HasLabel
  <2>1. label_stack \in Seq(Label) /\ Len(label_stack) >= 1
    BY <1>1 DEF WalkInv, IndInv, TypeOK
  <2>2. label_stack # << >> BY <2>1
  <2> QED BY <2>2 DEF WalkInv, HasLabel
<1>3. /\ Len(label_stack) \in Nat \ {0} /\ DOMAIN label_stack = 1..Len(label_stack)
      /\ 1 \in DOMAIN label_stack
      /\ TopLabel = label_stack[Len(label_stack)]
  BY <1>2, TopLabelOK DEF HasLabel, IndInv, TypeOK, TopLabel
<1>4. ~failed => Len(label_stack) = Len(nest) + 1
  BY <1>1, <1>3 DEF WalkInv, Mirrors
<1> QED BY <1>1, <1>2, <1>3, <1>4

(* A step that announces its errors loses none. *)
LEMMA StillReported ==
    ASSUME ErrorsAreReported, Announced, Lasting
    PROVE  ErrorsAreReported'
BY Zenon DEF ErrorsAreReported, Announced, Lasting

-----------------------------------------------------------------------------
(* Plain instructions and select leave the labels. *)

LEMMA KindsKeptMirror ==
    ASSUME WalkInv, walk # "idle", KindsKept, nest' = nest, ~failed' => ~failed, IndInv'
    PROVE  /\ Len(label_stack') >= Len(nest') + 1
           /\ ~failed' => Mirrors'
<1>1. /\ DOMAIN label_stack' = DOMAIN label_stack
      /\ \A i \in DOMAIN label_stack : label_stack'[i].label_type = label_stack[i].label_type
  BY DEF KindsKept
<1>2. Len(label_stack') = Len(label_stack)
  BY <1>1, WalkRuns, DomainLength DEF IndInv, TypeOK
<1>3. Len(label_stack') >= Len(nest') + 1
  BY <1>2 DEF WalkInv
<1>4. ASSUME ~failed' PROVE Mirrors'
  <2>1. Mirrors BY <1>4 DEF WalkInv
  <2>a. Len(nest') = Len(nest) /\ DOMAIN nest' = DOMAIN nest OBVIOUS
  <2>2. \A i \in DOMAIN nest : i + 1 \in DOMAIN label_stack
    <3> TAKE i \in DOMAIN nest
    <3> QED BY <2>1, WalkRuns DEF Mirrors
  <2>3. 1 \in DOMAIN label_stack BY WalkRuns
  <2> QED BY <1>1, <1>2, <2>a, <2>1, <2>2, <2>3 DEF Mirrors
<1> QED BY <1>3, <1>4

(* Opening a construct pushes a label of its kind. *)
LEMMA OpenWalk ==
    ASSUME WalkInv, walk = "body", NEW kind \in BlockKind \union {"if"},
           NEW cond \in TypeVector, NEW ft \in FuncTypes, OpenLabel(kind, cond, ft),
           nest' = Append(nest, kind), walk' = walk
    PROVE  WalkInv'
<1>1. HasLabel /\ Len(nest) \in Nat /\ DOMAIN nest = 1..Len(nest) /\ Len(label_stack) \in Nat
  BY WalkRuns
<1>2. kind \in LabelType /\ kind \in Nested
  BY DEF LabelType, Nested
<1>3. IndInv' BY <1>1, <1>2, OpenLabelStep
<1>4. /\ DOMAIN label_stack' = 1 .. Len(label_stack) + 1
      /\ \A i \in DOMAIN label_stack : label_stack'[i] = label_stack[i]
      /\ label_stack'[Len(label_stack) + 1].label_type = kind
      /\ Announced /\ Lasting
  BY <1>1, <1>2, OpenVerdict
<1>5. Len(label_stack') = Len(label_stack) + 1
  <2>1. label_stack' \in Seq(Label) BY <1>3 DEF IndInv, TypeOK
  <2>2. Len(label_stack) + 1 \in Nat BY <1>1
  <2> QED BY <1>4, <2>1, <2>2, DomainLength
<1>6. ErrorsAreReported' BY <1>4, StillReported DEF WalkInv
<1>7. /\ nest' \in Seq(Nested) /\ Len(nest') = Len(nest) + 1
      /\ DOMAIN nest' = 1 .. Len(nest) + 1
      /\ nest'[Len(nest) + 1] = kind
      /\ \A i \in DOMAIN nest : nest'[i] = nest[i]
  BY <1>2 DEF WalkInv
<1>8. ASSUME ~failed' PROVE Mirrors'
  <2>1. ~failed /\ Mirrors BY <1>4, <1>8 DEF WalkInv, Lasting
  <2>2. \A i \in DOMAIN nest : i + 1 \in DOMAIN label_stack
    <3> TAKE i \in DOMAIN nest
    <3> QED BY <2>1, WalkRuns DEF Mirrors
  <2>3. ASSUME NEW i \in DOMAIN nest' PROVE label_stack'[i + 1].label_type = nest'[i]
    <3>1. CASE i = Len(nest) + 1
      BY <1>4, <1>7, <2>1, <3>1 DEF Mirrors
    <3>2. CASE i \in DOMAIN nest
      BY <1>4, <1>7, <2>1, <2>2, <3>2 DEF Mirrors
    <3>3. i = Len(nest) + 1 \/ i \in DOMAIN nest BY <1>1, <1>7
    <3> QED BY <3>1, <3>2, <3>3
  <2> QED BY <1>4, <1>5, <1>7, <2>1, <2>3, WalkRuns DEF Mirrors
<1> QED BY <1>3, <1>4, <1>5, <1>6, <1>7, <1>8, WalkRuns DEF WalkInv, Lasting

(* else and catch turn the label and the construct alike. *)
LEMMA TurnWalk ==
    ASSUME WalkInv, NEW kind \in Nested, NEW needed,
           \/ OnElse /\ kind = "else" /\ needed = "if"
           \/ OnCatch /\ kind = "catch" /\ needed = "try",
           Inside({needed}),
           nest' = [nest EXCEPT ![Len(nest)] = kind], walk' = walk
    PROVE  WalkInv'
<1>1. /\ HasLabel /\ walk = "body"
      /\ Len(nest) \in DOMAIN nest /\ nest[Len(nest)] = needed
      /\ Len(nest) \in Nat \ {0}
  BY WalkRuns DEF Inside, InBody, WalkInv
<1>2. IndInv' BY <1>1, BlockStep
<1>3. /\ DOMAIN label_stack' = DOMAIN label_stack
      /\ label_stack'[Len(label_stack)].label_type = kind
      /\ \A i \in DOMAIN label_stack :
            i # Len(label_stack) => label_stack'[i] = label_stack[i]
      /\ TopLabel.label_type # needed => failed'
      /\ TopLabel.label_type = needed => Announced
      /\ Lasting
  BY <1>1, TurnVerdict
<1>4. Len(label_stack') = Len(label_stack)
  BY <1>1, <1>2, <1>3, WalkRuns, DomainLength DEF IndInv, TypeOK
<1>5. /\ nest' \in Seq(Nested) /\ Len(nest') = Len(nest) /\ DOMAIN nest' = DOMAIN nest
      /\ nest'[Len(nest)] = kind
      /\ \A i \in DOMAIN nest : i # Len(nest) => nest'[i] = nest[i]
  BY <1>1 DEF WalkInv
<1>6. ~failed => Mirrors /\ TopLabel.label_type = needed
  BY <1>1, WalkRuns DEF WalkInv, Mirrors
<1>7. ErrorsAreReported'
  <2>1. CASE failed
    BY <2>1, <1>3 DEF WalkInv, ErrorsAreReported, Lasting
  <2>2. CASE ~failed
    BY <2>2, <1>3, <1>6, StillReported DEF WalkInv
  <2> QED BY <2>1, <2>2
<1>8. ASSUME ~failed' PROVE Mirrors'
  <2>1. ~failed /\ Mirrors BY <1>3, <1>6, <1>8 DEF Lasting
  <2>2. \A i \in DOMAIN nest : i + 1 \in DOMAIN label_stack
    <3> TAKE i \in DOMAIN nest
    <3> QED BY <2>1, WalkRuns DEF Mirrors
  <2>3. ASSUME NEW i \in DOMAIN nest' PROVE label_stack'[i + 1].label_type = nest'[i]
    <3>1. CASE i = Len(nest)
      BY <1>3, <1>5, <2>1, <3>1 DEF Mirrors
    <3>2. CASE i # Len(nest)
      BY <1>1, <1>3, <1>5, <2>1, <2>2, <3>2, WalkRuns DEF Mirrors
    <3> QED BY <3>1, <3>2
  <2>4. label_stack'[1].label_type = "func"
    <3>1. 1 # Len(label_stack) BY <1>1, <2>1, WalkRuns DEF Mirrors
    <3> QED BY <1>1, <1>3, <2>1, <3>1, WalkRuns DEF Mirrors
  <2> QED BY <1>4, <1>5, <2>1, <2>3, <2>4 DEF Mirrors
<1> QED BY <1>1, <1>2, <1>3, <1>4, <1>5, <1>7, <1>8 DEF WalkInv, Lasting

-----------------------------------------------------------------------------
(* Leaving a construct pops its label, but for an if whose arm is wrong, which
   has failed then and leaves one label too many. *)
LEMMA EndWalk ==
    ASSUME WalkInv, walk = "body", nest # << >>, OnEnd,
           nest' = SubSeq(nest, 1, Len(nest) - 1), walk' = walk
    PROVE  WalkInv'
<1>1. /\ HasLabel /\ walk # "idle"
      /\ Len(nest) \in Nat \ {0}
      /\ Len(label_stack) \in Nat \ {0}
      /\ DOMAIN label_stack = 1..Len(label_stack)
      /\ Len(label_stack) >= Len(nest) + 1
  BY WalkRuns DEF WalkInv
<1>2. IndInv' BY <1>1, BlockStep
<1>3. label_stack' \in Seq(Label) BY <1>2 DEF IndInv, TypeOK
<1>4. /\ nest' \in Seq(Nested) /\ Len(nest') = Len(nest) - 1
      /\ DOMAIN nest' = 1 .. Len(nest) - 1
      /\ \A i \in DOMAIN nest' : i \in DOMAIN nest /\ nest'[i] = nest[i]
  <2> DEFINE n == Len(nest) - 1
  <2>1. nest \in Seq(Nested) /\ n \in Nat /\ n <= Len(nest)
    BY <1>1 DEF WalkInv
  <2>2. nest' = SubSeq(nest, 1, n) OBVIOUS
  <2> HIDE DEF n
  <2>3. /\ nest' \in Seq(Nested) /\ Len(nest') = n
        /\ \A i \in 1..n : i \in DOMAIN nest /\ nest'[i] = nest[i]
    BY <2>1, <2>2
  <2>4. DOMAIN nest' = 1..n BY <2>3
  <2> QED BY <2>3, <2>4 DEF n
<1>5. Announced /\ Lasting BY <1>1, EndVerdict
<1>6. ErrorsAreReported' BY <1>5, StillReported DEF WalkInv
<1>7. CASE /\ DOMAIN label_stack' = 1 .. Len(label_stack) - 1
           /\ \A i \in DOMAIN label_stack' : label_stack'[i] = label_stack[i]
  <2>1. Len(label_stack) - 1 \in Nat BY <1>1
  <2>2. Len(label_stack') = Len(label_stack) - 1
    BY <1>3, <1>7, <2>1, DomainLength
  <2>3. ASSUME ~failed' PROVE Mirrors'
    <3>1. ~failed /\ Mirrors BY <1>5, <2>3 DEF WalkInv, Lasting
    <3>2. 1 \in DOMAIN label_stack' BY <1>1, <1>7, <3>1 DEF Mirrors
    <3>3. \A i \in DOMAIN nest' : i + 1 \in DOMAIN label_stack'
      <4> TAKE i \in DOMAIN nest'
      <4> QED BY <1>1, <1>4, <1>7, <3>1 DEF Mirrors
    <3>4. \A i \in DOMAIN nest' : label_stack'[i + 1].label_type = nest'[i]
      BY <1>4, <1>7, <3>1, <3>3 DEF Mirrors
    <3> QED BY <1>1, <1>4, <1>7, <2>2, <3>1, <3>2, <3>4 DEF Mirrors
  <2>4. Len(label_stack') >= Len(nest') + 1 BY <1>1, <1>4, <2>2
  <2> QED BY <1>2, <1>4, <1>6, <2>3, <2>4 DEF WalkInv
<1>8. CASE failed' /\ DOMAIN label_stack' = DOMAIN label_stack
  <2>1. Len(label_stack') = Len(label_stack)
    BY <1>1, <1>3, <1>8, DomainLength
  <2>2. Len(label_stack') >= Len(nest') + 1 BY <1>1, <1>4, <2>1
  <2> QED BY <1>2, <1>4, <1>6, <1>8, <2>2 DEF WalkInv
<1> QED BY <1>1, <1>7, <1>8, EndVerdict

(* Leaving the function closes a label: its own until an error. *)
LEMMA LeaveWalk ==
    ASSUME WalkInv, EndCheckFunc
    PROVE  WalkInv'
<1>1. walk # "idle" /\ EndFunction /\ nest' = << >> /\ walk' = "idle"
  BY DEF EndCheckFunc, InBody
<1>2. HasLabel BY <1>1, WalkRuns
<1>3. IndInv' BY <1>1, <1>2, BlockStep
<1>4. /\ TopLabel.label_type = "func" => Announced
      /\ Lasting
  BY <1>1, <1>2, CloseVerdict DEF EndFunction
<1>5. ErrorsAreReported'
  <2>1. CASE failed
    BY <2>1, <1>4 DEF WalkInv, ErrorsAreReported, Lasting
  <2>2. CASE ~failed
    <3>1. walk = "body" /\ nest = << >> BY <2>2 DEF EndCheckFunc, InBody, WalkInv
    <3>2. Mirrors BY <1>1, <2>2 DEF WalkInv
    <3>3. TopLabel.label_type = "func" BY <1>1, <3>1, <3>2, WalkRuns DEF Mirrors
    <3> QED BY <1>4, <3>3, StillReported DEF WalkInv
  <2> QED BY <2>1, <2>2
<1> QED BY <1>1, <1>3, <1>5 DEF WalkInv

LEMMA EnterWalk ==
    ASSUME WalkInv, NEW ft \in FuncTypes, BeginCheckFunc(ft)
    PROVE  WalkInv'
<1>1. IndInv' BY BeginFunctionStep, TypeCheckerAssumption DEF BeginCheckFunc, WalkInv
<1>2. /\ nest' = << >> /\ walk' = "body"
      /\ label_stack' = <<NewLabel("func", << >>, ft.results, 0)>>
      /\ failed' = failed /\ printed' = printed
  BY DEF BeginCheckFunc, BeginFunction
<1>3. Mirrors' BY <1>2 DEF Mirrors, NewLabel
<1>4. ErrorsAreReported' BY <1>2 DEF WalkInv, ErrorsAreReported
<1>5. nest' \in Seq(Nested) /\ Len(label_stack') >= Len(nest') + 1
  BY <1>2
<1> QED BY <1>1, <1>2, <1>3, <1>4, <1>5 DEF WalkInv

LEMMA WalkStep ==
    ASSUME WalkInv, WalkNext
    PROVE  WalkInv'
<1>1. ASSUME VisitPlain PROVE WalkInv'
  <2>1. HasLabel /\ walk # "idle" /\ PlainHandler /\ nest' = nest /\ walk' = walk
    BY <1>1, WalkRuns DEF VisitPlain, InBody
  <2>2. IndInv' BY <2>1, PlainIsAny, PlainStep
  <2>3. KindsKept /\ Announced /\ Lasting BY <2>1, PlainIsAny, PlainVerdict
  <2>4. /\ Len(label_stack') >= Len(nest') + 1
        /\ ~failed' => Mirrors'
    BY <2>1, <2>2, <2>3, KindsKeptMirror DEF Lasting
  <2>5. ErrorsAreReported' BY <2>3, StillReported DEF WalkInv
  <2> QED BY <1>1, <2>1, <2>2, <2>3, <2>4, <2>5 DEF WalkInv, VisitPlain, InBody
<1>2. ASSUME NEW type \in SelectTypes, VisitSelect(type) PROVE WalkInv'
  <2>1. HasLabel /\ walk = "body" /\ OnSelect(type) /\ nest' = nest
    BY <1>2, WalkRuns DEF VisitSelect, InBody
  <2>2. walk' = IF SelectOk(type) THEN "body" ELSE "left"
    BY <1>2 DEF VisitSelect
  <2>3. IndInv' BY <2>1, SelectStep, TypeCheckerAssumption
  <2>4. /\ KindsKept
        /\ failed' <=> failed \/ ~SelectOk(type)
        /\ printed' <=> printed \/ ~SelectOk(type)
    BY <2>1, SelectVerdict
  <2>5. ErrorsAreReported' BY <2>4 DEF WalkInv, ErrorsAreReported
  <2>6. /\ Len(label_stack') >= Len(nest') + 1
        /\ ~failed' => Mirrors'
    BY <2>1, <2>3, <2>4, KindsKeptMirror
  <2> QED BY <2>1, <2>2, <2>3, <2>4, <2>5, <2>6 DEF WalkInv
<1>3. ASSUME NEW ft \in FuncTypes, BeginCheckFunc(ft) PROVE WalkInv'
  BY <1>3, EnterWalk
<1>4. ASSUME NEW ft \in FuncTypes, VisitIf(ft) PROVE WalkInv'
  BY <1>4, Literals, OpenWalk DEF VisitIf, InBody, OnIf
<1>5. ASSUME NEW ft \in FuncTypes, NEW kind \in BlockKind, VisitBlock(kind, ft)
      PROVE  WalkInv'
  BY <1>5, Literals, OpenWalk DEF VisitBlock, InBody, OnBlock
<1>6. ASSUME VisitElse PROVE WalkInv'
  <2>1. "else" \in Nested BY DEF Nested
  <2> QED BY <1>6, <2>1, TurnWalk DEF VisitElse
<1>7. ASSUME VisitCatch PROVE WalkInv'
  <2>1. "catch" \in Nested BY DEF Nested
  <2> QED BY <1>7, <2>1, TurnWalk DEF VisitCatch
<1>8. ASSUME VisitEnd PROVE WalkInv'
  BY <1>8, EndWalk DEF VisitEnd, Inside, InBody
<1>9. ASSUME EndCheckFunc PROVE WalkInv'
  BY <1>9, LeaveWalk
<1> QED BY <1>1, <1>2, <1>3, <1>4, <1>5, <1>6, <1>7, <1>8, <1>9 DEF WalkNext

-----------------------------------------------------------------------------
LEMMA WalkAlways == WalkSpec => []WalkInv
<1>1. WalkInit => WalkInv
  <2> SUFFICES ASSUME WalkInit PROVE WalkInv
    OBVIOUS
  <2>1. type_stack \in TypeVector /\ label_stack \in Seq(Label) /\ nest \in Seq(Nested)
    BY DEF WalkInit, Init, TypeVector
  <2>2. failed \in BOOLEAN /\ printed \in BOOLEAN
    BY Zenon DEF WalkInit, Init
  <2>3. LabelsNested /\ ErrorsAreReported /\ walk = "idle"
    BY DEF WalkInit, Init, LabelsNested, ErrorsAreReported
  <2> QED BY <2>1, <2>2, <2>3 DEF WalkInv, IndInv, TypeOK
<1>2. WalkInv /\ [WalkNext]_walkVars => WalkInv'
  <2>1. ASSUME WalkInv, WalkNext PROVE WalkInv'
    BY <2>1, WalkStep
  <2>2. ASSUME WalkInv, UNCHANGED walkVars PROVE WalkInv'
    BY <2>2 DEF walkVars, WalkInv, IndInv, TypeOK, LabelsNested, ErrorsAreReported, Mirrors
  <2> QED BY <2>1, <2>2
<1> QED BY <1>1, <1>2, PTL DEF WalkSpec

(* The Validator ignores most of the Results it gets, and loses no error by it:
   what has failed has printed. *)
THEOREM ErrorsAlwaysReported == WalkSpec => []ErrorsAreReported
<1>1. WalkInv => ErrorsAreReported BY DEF WalkInv
<1> QED BY <1>1, WalkAlways, PTL

(* GetLabel never meets an empty label stack, whatever the walk went on after:
   there is a label for the function and for each construct being visited, and
   until an error there is no other. *)
THEOREM LabelsAlwaysCover == WalkSpec => []LabelsCoverNesting
<1>1. WalkInv => LabelsCoverNesting BY DEF WalkInv, LabelsCoverNesting, Mirrors
<1> QED BY <1>1, WalkAlways, PTL

(* Until an error the labels are those of the constructs being visited, so a
   branch of the text reaches the block it names. *)
THEOREM LabelsAlwaysMirror == WalkSpec => []LabelsMirrorNesting
<1>1. WalkInv => LabelsMirrorNesting BY DEF WalkInv, LabelsMirrorNesting, InBody, Mirrors
<1> QED BY <1>1, WalkAlways, PTL

(* The limits of the labels stay nested on a walk that goes on after an error,
   too, as the unsigned subtraction of PrintStackIfFailed needs. *)
THEOREM WalkLabelsAlwaysNested == WalkSpec => [](TypeOK /\ LabelsNested)
<1>1. WalkInv => TypeOK /\ LabelsNested BY DEF WalkInv, IndInv
<1> QED BY <1>1, WalkAlways, PTL
=============================================================================
