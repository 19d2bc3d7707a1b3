-------------------------- MODULE TypeCheckerProps --------------------------
(***************************************************************************)
(* What the clients of the type checker rely on.                           *)
(***************************************************************************)
EXTENDS TypeChecker

(* The limits of the labels never decrease from the function's label, whose
   limit is zero, to the innermost one, which does not exceed the operand
   stack.  BinaryReaderInterp subtracts a label's limit from the stack's size to
   count what a branch drops (the assert of GetDropCount), and
   PrintStackIfFailed does so in unsigned arithmetic. *)
LabelsNested ==
    /\ \A i \in DOMAIN label_stack :
          label_stack[i].type_stack_limit <= Len(type_stack)
    /\ \A i, j \in DOMAIN label_stack :
          i <= j => label_stack[i].type_stack_limit <= label_stack[j].type_stack_limit
    /\ label_stack # << >> => label_stack[1].type_stack_limit = 0

(* As long as no handler has failed, the label at the bottom is the function's
   and no other is: return and return_call find the function's results there. *)
FuncLabelAtBottom ==
    ~failed => \A i \in DOMAIN label_stack :
                  label_stack[i].label_type = "func" <=> i = 1

(* Code that validates never has an operand of unknown type on the stack of a
   reachable block: PopAndCheckSignature would let it pass for any type. *)
NoUnknownWhenReachable ==
    (~failed /\ label_stack # << >> /\ ~TopLabel.unreachable)
        => \A i \in TopLabel.type_stack_limit + 1 .. Len(type_stack) :
              type_stack[i] # "any"

(* Dead code is checked against a stack that may hold anything below what is
   known of it: whatever is accepted on a reachable stack is accepted when the
   block is unreachable and only the topmost operands are known. *)
DeadCodeAcceptsMore ==
    label_stack # << >> =>
        \A k \in TopLabel.type_stack_limit .. Len(type_stack) :
            LET known == ResetTypeStackToLabel(type_stack, TopLabel)
                           \o SubSeq(type_stack, k + 1, Len(type_stack))
                dead == [TopLabel EXCEPT !.unreachable = TRUE]
            IN  \A op \in Opcodes :
                   PopOk(type_stack, TopLabel, op.params) => PopOk(known, dead, op.params)

(* A handler that has printed an error has also returned one: a client that
   reads only the Result, as BinaryReaderInterp does, rejects whatever a
   client that reads only the messages rejects. *)
MessagesAreErrors == printed => failed

(* No instruction touches the operands below the limit of a block it is inside
   of, or moves the limit: a block keeps exactly its own operands. *)
FrameKept(i) ==
    LET limit == label_stack[i].type_stack_limit
    IN  /\ label_stack'[i].type_stack_limit = limit
        /\ limit <= Len(type_stack')
        /\ \A j \in 1..limit : type_stack'[j] = type_stack[j]

FramesPreserved ==
    [][\A i \in DOMAIN label_stack \intersect DOMAIN label_stack' : FrameKept(i)]_tcVars
=============================================================================
