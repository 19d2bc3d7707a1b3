----------------------- MODULE InterpCompiler_proofs -----------------------
(***************************************************************************)
(* The interpreter's compiler keeps its two label stacks in step and       *)
(* forgets no fixup, for every module it may read.                         *)
(*                                                                         *)
(* A step of the compiler is a step of the type checker, which changes the *)
(* label stack in one of four ways, and an emission, which appends code,   *)
(* patches what a fixup list names, or both.  The first lemmas are about   *)
(* the stream: what appending and patching do to the jumps that still hold *)
(* a placeholder.                                                          *)
(***************************************************************************)
EXTENDS InterpMachine, TypeChecker_proofs

Offset == Nat \union {Invalid}

OpName == Jumps \union CallJumps
            \union {"plain", "select", "drop", "drop_keep", "alloca", "unreachable",
                    "local_get", "local_set", "local_tee", "br_table", "data", "return",
                    "call_host", "call_indirect", "return_call_indirect"}

Instruction == [op : OpName, args : Seq(Int \union StackType),
                pops : TypeVector, push : TypeVector]

(* An instruction that jumps has its target for a first operand. *)
Code == {c \in Seq(Instruction) :
            \A p \in DOMAIN c : c[p].op \in Jumps \union CallJumps => c[p].args # << >>}

CompilerLabel == [offset : Offset, fixup_offset : Offset]

(* The instruction at a position of the stream jumps and holds a placeholder. *)
IsOpen(stream, ops, p) ==
    p \in DOMAIN stream /\ stream[p].op \in ops /\ stream[p].args[1] = Invalid

(* Some list, or an open if, remembers to patch the branch at this position. *)
Remembered(p) ==
    \/ \E q \in DOMAIN depth_fixups : p \in depth_fixups[q]
    \/ \E i \in DOMAIN labels : labels[i].fixup_offset = p

(* Some function that has not begun remembers to patch the call. *)
Awaited(p) == \E f \in Funcs : func_offset[f] = Invalid /\ p \in func_fixups[f]

-----------------------------------------------------------------------------
(* The invariant, in parts. *)

Shapes ==
    /\ unit \in Unit
    /\ istream \in Code
    /\ labels \in Seq(CompilerLabel)
    /\ depth_fixups \in [1..unit.max_labels -> SUBSET Nat]
    /\ func_fixups \in [Funcs -> SUBSET Nat]
    /\ func_offset \in [Funcs -> Offset]
    /\ current_func \in Funcs \union {0}

(* The compiler's labels are the type checker's: those of loops have an offset,
   and only those of ifs and elses a branch of their own to patch. *)
InStep ==
    /\ current_func = 0 => labels = << >>
    /\ current_func # 0 => Len(labels) = Len(label_stack)
    /\ Len(labels) <= unit.max_labels
    /\ \A i \in DOMAIN labels :
          /\ labels[i].offset # Invalid <=> label_stack[i].label_type = "loop"
          /\ labels[i].fixup_offset # Invalid => label_stack[i].label_type \in {"if", "else"}

(* Every placeholder of a branch is remembered, once. *)
BranchesPending ==
    /\ \A p \in Nat : IsOpen(istream, Jumps, p) <=> Remembered(p)
    /\ \A q, r \in DOMAIN depth_fixups : \A p \in Nat :
          p \in depth_fixups[q] /\ p \in depth_fixups[r] => q = r
    /\ \A i \in DOMAIN labels : \A q \in DOMAIN depth_fixups :
          labels[i].fixup_offset \notin depth_fixups[q]
    /\ \A i, j \in DOMAIN labels :
          (labels[i].fixup_offset = labels[j].fixup_offset /\ i # j)
              => labels[i].fixup_offset = Invalid
    /\ \A q \in DOMAIN depth_fixups : q > Len(labels) => depth_fixups[q] = {}

(* Every placeholder of a call is remembered for its callee, once. *)
CallsPending ==
    /\ \A p \in Nat : IsOpen(istream, CallJumps, p) <=> Awaited(p)
    /\ \A f \in Funcs : \A p \in func_fixups[f] :
          p \in DOMAIN istream /\ istream[p].op \in CallJumps
    /\ \A f, g \in Funcs : \A p \in Nat :
          p \in func_fixups[f] /\ p \in func_fixups[g] => f = g

CompilerState == IndInv /\ FuncLabels /\ Shapes /\ InStep /\ BranchesPending /\ CallsPending

CompilerInv == unit \in Units /\ (~failed => CompilerState)

-----------------------------------------------------------------------------
(* The stream. *)

LEMMA CodeIsSeq ==
    ASSUME NEW c \in Code
    PROVE  /\ c \in Seq(Instruction)
           /\ Len(c) \in Nat
           /\ DOMAIN c = 1..Len(c)
           /\ \A p \in DOMAIN c : c[p] \in Instruction
BY DEF Code

(* Appending leaves the placeholders there are, and adds those of the code. *)
LEMMA AppendCode ==
    ASSUME NEW s \in Code, NEW c \in Code, NEW ops
    PROVE  /\ s \o c \in Code
           /\ Len(s \o c) = Len(s) + Len(c)
           /\ \A p \in DOMAIN s : p \in DOMAIN (s \o c) /\ (s \o c)[p] = s[p]
           /\ \A p \in Nat : IsOpen(s \o c, ops, p)
                 <=> IsOpen(s, ops, p) \/ (p > Len(s) /\ IsOpen(c, ops, p - Len(s)))
<1> DEFINE t == s \o c
<1>1. /\ s \in Seq(Instruction) /\ c \in Seq(Instruction)
      /\ Len(s) \in Nat /\ Len(c) \in Nat
      /\ DOMAIN s = 1..Len(s) /\ DOMAIN c = 1..Len(c)
  BY CodeIsSeq
<1>2. /\ t \in Seq(Instruction)
      /\ Len(t) = Len(s) + Len(c)
      /\ DOMAIN t = 1 .. Len(s) + Len(c)
      /\ \A p \in DOMAIN s : p \in DOMAIN t /\ t[p] = s[p]
      /\ \A p \in DOMAIN t : p > Len(s) => p - Len(s) \in DOMAIN c /\ t[p] = c[p - Len(s)]
  BY <1>1
<1> HIDE DEF t
<1>3. \A p \in DOMAIN t : p \in DOMAIN s \/ p > Len(s)
  BY <1>1, <1>2
<1>4. t \in Code
  BY <1>2, <1>3 DEF Code
<1>5. \A p \in Nat : IsOpen(t, ops, p)
         <=> IsOpen(s, ops, p) \/ (p > Len(s) /\ IsOpen(c, ops, p - Len(s)))
  <2> TAKE p \in Nat
  <2>1. CASE p \in DOMAIN s
    BY <1>1, <1>2, <2>1 DEF IsOpen
  <2>2. CASE p > Len(s)
    <3>1. p \in DOMAIN t <=> p - Len(s) \in DOMAIN c
      BY <1>1, <1>2, <2>2
    <3>2. p \notin DOMAIN s BY <1>1, <2>2
    <3> QED BY <1>2, <2>2, <3>1, <3>2 DEF IsOpen
  <2>3. CASE p = 0
    <3>1. p \notin DOMAIN t /\ p \notin DOMAIN s /\ ~(p > Len(s))
      BY <1>1, <1>2, <2>3
    <3> QED BY <3>1 DEF IsOpen
  <2> QED BY <1>1, <2>1, <2>2, <2>3
<1> QED BY <1>2, <1>4, <1>5 DEF t

(* Patching takes the placeholders named and leaves the others. *)
LEMMA PatchCode ==
    ASSUME NEW s \in Code, NEW positions, NEW offset \in Nat,
           NEW t, t = EmitAt(s, positions, offset)
    PROVE  /\ t \in Code
           /\ DOMAIN t = DOMAIN s
           /\ Len(t) = Len(s)
           /\ \A p \in DOMAIN s : t[p].op = s[p].op
           /\ \A p \in Nat :
                 /\ IsOpen(t, Jumps, p) <=> IsOpen(s, Jumps, p) /\ p \notin positions
                 /\ IsOpen(t, CallJumps, p) <=> IsOpen(s, CallJumps, p) /\ p \notin positions
<1>1. /\ s \in Seq(Instruction) /\ Len(s) \in Nat
      /\ DOMAIN s = 1..Len(s)
      /\ \A p \in DOMAIN s : s[p] \in Instruction
  BY CodeIsSeq
<1>2. DOMAIN t = DOMAIN s
  BY DEF EmitAt
<1>3. \A p \in DOMAIN s : p \notin positions => t[p] = s[p]
  BY DEF EmitAt
<1>4. \A p \in DOMAIN s : p \in positions =>
         t[p] = [s[p] EXCEPT !.args = [s[p].args EXCEPT ![1] = offset]]
  BY DEF EmitAt
<1>5. ASSUME NEW p \in DOMAIN s, p \in positions
      PROVE  /\ t[p] \in Instruction
             /\ t[p].op = s[p].op
             /\ t[p].args = [s[p].args EXCEPT ![1] = offset]
  <2>1. s[p].args \in Seq(Int \union StackType) BY <1>1 DEF Instruction
  <2>2. [s[p].args EXCEPT ![1] = offset] \in Seq(Int \union StackType)
    <3> DEFINE a == s[p].args
               b == [a EXCEPT ![1] = offset]
               S == Int \union StackType
    <3>1. a \in [1..Len(a) -> S] /\ Len(a) \in Nat BY <2>1
    <3>2. offset \in S OBVIOUS
    <3> HIDE DEF a, S
    <3>3. b \in [1..Len(a) -> S] BY <3>1, <3>2
    <3> HIDE DEF b
    <3>4. b \in Seq(S) BY <3>1, <3>3
    <3> QED BY <3>4 DEF a, b, S
  <2> QED BY <1>1, <1>4, <1>5, <2>2 DEF Instruction
<1>6. t \in [1..Len(s) -> Instruction]
  <2>1. \A p \in DOMAIN s : t[p] \in Instruction BY <1>1, <1>3, <1>5
  <2>2. t = [p \in DOMAIN s |-> t[p]] BY DEF EmitAt
  <2> QED BY <1>1, <2>1, <2>2
<1>7. t \in Seq(Instruction) /\ Len(t) = Len(s)
  BY <1>1, <1>6
<1>8. \A p \in DOMAIN s : t[p].op = s[p].op
  BY <1>3, <1>5
<1>9. ASSUME NEW p \in DOMAIN s, s[p].op \in Jumps \union CallJumps
      PROVE  /\ t[p].args # << >>
             /\ p \in positions => t[p].args[1] = offset
  <2>1. s[p].args \in Seq(Int \union StackType) /\ s[p].args # << >>
    BY <1>1, <1>9 DEF Instruction, Code
  <2>2. 1 \in DOMAIN s[p].args BY <2>1
  <2>3. CASE p \in positions
    <3>1. /\ t[p].args[1] = offset
          /\ 1 \in DOMAIN t[p].args
      BY <1>5, <2>2, <2>3
    <3> QED BY <3>1
  <2> QED BY <1>3, <2>1, <2>3
<1>10. t \in Code
  BY <1>2, <1>7, <1>8, <1>9 DEF Code
<1>11. offset # Invalid BY DEF Invalid
<1>12. ASSUME NEW p \in Nat
       PROVE  /\ IsOpen(t, Jumps, p) <=> IsOpen(s, Jumps, p) /\ p \notin positions
              /\ IsOpen(t, CallJumps, p) <=> IsOpen(s, CallJumps, p) /\ p \notin positions
  BY <1>2, <1>3, <1>8, <1>9, <1>11 DEF IsOpen
<1> QED BY <1>2, <1>7, <1>8, <1>10, <1>12

-----------------------------------------------------------------------------
(* What is emitted. *)

(* Code that holds no placeholder. *)
Settled(c) == c \in Code /\ \A p \in Nat : ~IsOpen(c, Jumps \union CallJumps, p)

(* A branch is not a call. *)
LEMMA JumpsApart == \A op : ~(op \in Jumps /\ op \in CallJumps)
BY DEF Jumps, CallJumps

LEMMA ControlIsInstruction ==
    ASSUME NEW op \in OpName, NEW args \in Seq(Int \union StackType)
    PROVE  Control(op, args) \in Instruction /\ Control(op, args).op = op
           /\ Control(op, args).args = args
BY DEF Control, Instr, Instruction, TypeVector

(* One instruction that is no jump, or a jump to somewhere. *)
LEMMA OneSettled ==
    ASSUME NEW i \in Instruction,
           i.op \in Jumps \union CallJumps => i.args # << >> /\ i.args[1] # Invalid
    PROVE  Settled(<<i>>)
<1>1. <<i>> \in Seq(Instruction) /\ DOMAIN <<i>> = {1} /\ <<i>>[1] = i
  OBVIOUS
<1>2. <<i>> \in Code BY <1>1 DEF Code
<1> QED BY <1>1, <1>2 DEF Settled, IsOpen

LEMMA TwoSettled ==
    ASSUME NEW x \in Instruction, NEW y \in Instruction,
           x.op \notin Jumps \union CallJumps, y.op \notin Jumps \union CallJumps
    PROVE  Settled(<<x, y>>) /\ Len(<<x, y>>) = 2
<1>1. /\ <<x, y>> \in Seq(Instruction) /\ DOMAIN <<x, y>> = {1, 2}
      /\ <<x, y>>[1] = x /\ <<x, y>>[2] = y
      /\ Len(<<x, y>>) = 2
  OBVIOUS
<1>2. \A p \in DOMAIN <<x, y>> : <<x, y>>[p].op \notin Jumps \union CallJumps
  BY <1>1
<1> QED BY <1>1, <1>2 DEF Settled, Code, IsOpen

LEMMA ControlSettled ==
    ASSUME NEW op \in OpName \ (Jumps \union CallJumps),
           NEW args \in Seq(Int \union StackType)
    PROVE  Settled(<<Control(op, args)>>)
BY ControlIsInstruction, OneSettled

LEMMA NothingSettled == Settled(<< >>)
<1>1. << >> \in Seq(Instruction) /\ DOMAIN << >> = {} OBVIOUS
<1> QED BY <1>1 DEF Settled, Code, IsOpen

LEMMA AppendSettled ==
    ASSUME NEW c, NEW d, Settled(c), Settled(d)
    PROVE  Settled(c \o d)
<1>1. c \in Code /\ d \in Code BY DEF Settled
<1>2. Len(c) \in Nat BY <1>1, CodeIsSeq
<1>3. ASSUME NEW p \in Nat PROVE ~IsOpen(c \o d, Jumps \union CallJumps, p)
  <2>1. p > Len(c) => p - Len(c) \in Nat BY <1>2
  <2> QED BY <1>1, <2>1, AppendCode DEF Settled
<1> QED BY <1>1, <1>3, AppendCode DEF Settled

(* EmitDropKeep jumps nowhere. *)
LEMMA DropKeepSettled ==
    ASSUME NEW drop \in Int, NEW keep \in Int
    PROVE  Settled(EmitDropKeep(drop, keep))
<1>1. /\ << >> \in Seq(Int \union StackType)
      /\ <<drop, keep>> \in Seq(Int \union StackType)
  OBVIOUS
<1>2. {"drop", "drop_keep"} \subseteq OpName \ (Jumps \union CallJumps)
  BY DEF OpName, Jumps, CallJumps
<1>3. /\ Settled(<<Control("drop", << >>)>>)
      /\ Settled(<<Control("drop_keep", <<drop, keep>>)>>)
  BY <1>1, <1>2, ControlSettled
<1>4. \/ EmitDropKeep(drop, keep) = << >>
      \/ EmitDropKeep(drop, keep) = <<Control("drop", << >>)>>
      \/ EmitDropKeep(drop, keep) = <<Control("drop_keep", <<drop, keep>>)>>
  BY DEF EmitDropKeep
<1> QED BY <1>3, <1>4, NothingSettled

(* Code that jumps at most at its end. *)
LEMMA LastOpen ==
    ASSUME NEW before, Settled(before), NEW i \in Instruction,
           i.op \in Jumps \union CallJumps => i.args # << >>,
           NEW ops, ops \subseteq Jumps \union CallJumps
    PROVE  LET c == before \o <<i>>
           IN  /\ c \in Code
               /\ Len(c) = Len(before) + 1
               /\ \A p \in Nat : IsOpen(c, ops, p)
                     <=> p = Len(c) /\ i.op \in ops /\ i.args[1] = Invalid
<1>1. <<i>> \in Seq(Instruction) /\ DOMAIN <<i>> = {1} /\ <<i>>[1] = i /\ Len(<<i>>) = 1
  OBVIOUS
<1>2. before \in Code /\ <<i>> \in Code BY <1>1 DEF Code, Settled
<1>3. Len(before) \in Nat BY <1>2, CodeIsSeq
<1>4. ASSUME NEW p \in Nat
      PROVE  /\ ~IsOpen(before, ops, p)
             /\ IsOpen(<<i>>, ops, p - Len(before))
                   <=> p - Len(before) = 1 /\ i.op \in ops /\ i.args[1] = Invalid
  <2>1. ~IsOpen(before, ops, p) BY DEF Settled, IsOpen
  <2> QED BY <1>1, <2>1 DEF IsOpen
<1>5. Len(before \o <<i>>) = Len(before) + 1 /\ before \o <<i>> \in Code
  BY <1>1, <1>2, AppendCode
<1>6. ASSUME NEW p \in Nat
      PROVE  IsOpen(before \o <<i>>, ops, p)
               <=> p > Len(before) /\ IsOpen(<<i>>, ops, p - Len(before))
  BY <1>2, <1>4, AppendCode
<1>7. ASSUME NEW p \in Nat
      PROVE  p > Len(before) /\ p - Len(before) = 1 <=> p = Len(before) + 1
  BY <1>3
<1> QED BY <1>4, <1>5, <1>6, <1>7

-----------------------------------------------------------------------------
(* The fixups.  What is open in code that is appended must be remembered,   *)
(* by the lists for branches or by those for calls.                         *)

(* Branches are appended to the code of the labels there are. *)
LEMMA MoreBranches ==
    ASSUME Shapes, BranchesPending, UNCHANGED <<unit, labels>>,
           NEW code \in Code, istream' = istream \o code,
           NEW opened,
           depth_fixups' = [q \in DOMAIN depth_fixups |-> depth_fixups[q] \union opened[q]],
           \A q \in DOMAIN depth_fixups :
              /\ opened[q] \subseteq Nat
              /\ q > Len(labels) => opened[q] = {}
              /\ \A r \in DOMAIN depth_fixups : \A p \in Nat :
                    p \in opened[q] /\ p \in opened[r] => q = r,
           \A p \in Nat : (p > Len(istream) /\ IsOpen(code, Jumps, p - Len(istream)))
                             <=> \E q \in DOMAIN depth_fixups : p \in opened[q]
    PROVE  /\ depth_fixups' \in [1..unit.max_labels -> SUBSET Nat]
           /\ istream' \in Code
           /\ BranchesPending'
<1>1. /\ istream \in Code
      /\ depth_fixups \in [1..unit.max_labels -> SUBSET Nat]
      /\ Len(istream) \in Nat
      /\ DOMAIN istream = 1..Len(istream)
  BY CodeIsSeq DEF Shapes
<1>2. DOMAIN depth_fixups' = DOMAIN depth_fixups
  OBVIOUS
<1>3. \A q \in DOMAIN depth_fixups : depth_fixups'[q] = depth_fixups[q] \union opened[q]
  OBVIOUS
<1>4. \A p \in Nat : IsOpen(istream', Jumps, p)
         <=> IsOpen(istream, Jumps, p) \/ \E q \in DOMAIN depth_fixups : p \in opened[q]
  BY <1>1, AppendCode
<1>5. \A q \in DOMAIN depth_fixups : \A p \in opened[q] : p > Len(istream)
  OBVIOUS
<1>6. \A p \in Nat : IsOpen(istream, Jumps, p) => p <= Len(istream)
  BY <1>1 DEF IsOpen
<1>7. \A p \in Nat : (Remembered(p))'
         <=> Remembered(p) \/ \E q \in DOMAIN depth_fixups : p \in opened[q]
  BY <1>2, <1>3 DEF Remembered
<1>8. depth_fixups' \in [1..unit.max_labels -> SUBSET Nat]
  BY <1>1
<1>9. \A q \in DOMAIN depth_fixups : \A p \in depth_fixups[q] : p <= Len(istream)
  <2> TAKE q \in DOMAIN depth_fixups
  <2> TAKE p \in depth_fixups[q]
  <2>1. p \in Nat BY <1>1
  <2>2. Remembered(p) BY DEF Remembered
  <2> QED BY <2>1, <2>2, <1>6 DEF BranchesPending
<1>10. \A i \in DOMAIN labels : labels[i].fixup_offset \in Nat =>
          labels[i].fixup_offset <= Len(istream)
  <2> TAKE i \in DOMAIN labels
  <2> HAVE labels[i].fixup_offset \in Nat
  <2>1. Remembered(labels[i].fixup_offset) BY DEF Remembered
  <2> QED BY <2>1, <1>6 DEF BranchesPending
<1>11. BranchesPending'
  <2>1. \A p \in Nat : IsOpen(istream', Jumps, p) <=> (Remembered(p))'
    BY <1>4, <1>7 DEF BranchesPending
  <2>2. ASSUME NEW q \in DOMAIN depth_fixups, NEW r \in DOMAIN depth_fixups, NEW p \in Nat,
               p \in depth_fixups'[q], p \in depth_fixups'[r]
        PROVE  q = r
    <3>1. CASE p > Len(istream)
      <4>1. p \notin depth_fixups[q] /\ p \notin depth_fixups[r] BY <3>1, <1>9, <1>1
      <4> QED BY <4>1, <2>2, <1>3
    <3>2. CASE ~(p > Len(istream))
      <4>1. p \notin opened[q] /\ p \notin opened[r] BY <3>2, <1>5, <1>1
      <4> QED BY <4>1, <2>2, <1>3 DEF BranchesPending
    <3> QED BY <3>1, <3>2
  <2>3. ASSUME NEW i \in DOMAIN labels, NEW q \in DOMAIN depth_fixups
        PROVE  labels[i].fixup_offset \notin depth_fixups'[q]
    <3>1. labels[i].fixup_offset \notin depth_fixups[q] BY DEF BranchesPending
    <3>2. labels[i].fixup_offset \notin opened[q]
      <4> SUFFICES ASSUME labels[i].fixup_offset \in opened[q] PROVE FALSE OBVIOUS
      <4>1. labels[i].fixup_offset \in Nat OBVIOUS
      <4> QED BY <4>1, <1>1, <1>5, <1>10
    <3> QED BY <3>1, <3>2, <1>3
  <2>4. \A q \in DOMAIN depth_fixups : q > Len(labels) => depth_fixups'[q] = {}
    BY <1>3 DEF BranchesPending
  <2>5. \A i, j \in DOMAIN labels :
          (labels[i].fixup_offset = labels[j].fixup_offset /\ i # j)
              => labels[i].fixup_offset = Invalid
    BY DEF BranchesPending
  <2> QED BY <2>1, <2>2, <2>3, <2>4, <2>5, <1>2 DEF BranchesPending
<1> QED BY <1>1, <1>8, <1>11, AppendCode

(* Nothing that happens to the code opens, patches or moves a call. *)
LEMMA SameCalls ==
    ASSUME Shapes, CallsPending, UNCHANGED <<unit, func_fixups, func_offset>>,
           \A p \in Nat : IsOpen(istream', CallJumps, p) <=> IsOpen(istream, CallJumps, p),
           \A p \in DOMAIN istream : p \in DOMAIN istream' /\ istream'[p].op = istream[p].op
    PROVE  CallsPending'
<1>1. Funcs' = Funcs BY DEF Funcs, DefinedFuncs
<1>2. \A p \in Nat : (Awaited(p))' <=> Awaited(p) BY <1>1 DEF Awaited
<1>3. \A p \in Nat : IsOpen(istream', CallJumps, p) <=> (Awaited(p))'
  BY <1>2 DEF CallsPending
<1>4. \A f \in Funcs : \A p \in func_fixups[f] :
          p \in DOMAIN istream' /\ istream'[p].op \in CallJumps
  BY DEF CallsPending
<1>5. \A f, g \in Funcs : \A p \in Nat :
          p \in func_fixups[f] /\ p \in func_fixups[g] => f = g
  BY DEF CallsPending
<1> QED BY <1>1, <1>3, <1>4, <1>5 DEF CallsPending

-----------------------------------------------------------------------------
(* Steps that leave both label stacks.                                     *)

(* While a label of the compiler is open, so is one of the type checker. *)
LEMMA BothOpen ==
    ASSUME CompilerState, labels # << >>
    PROVE  /\ current_func # 0
           /\ current_func \in Funcs
           /\ HasLabel
           /\ Len(labels) \in Nat \ {0}
           /\ Len(label_stack) = Len(labels)
           /\ DOMAIN labels = 1..Len(labels)
           /\ DOMAIN label_stack = 1..Len(labels)
           /\ TopLabel = label_stack[Len(labels)]
           /\ Len(istream) \in Nat
           /\ DOMAIN istream = 1..Len(istream)
<1>1. /\ labels \in Seq(CompilerLabel)
      /\ label_stack \in Seq(Label)
      /\ istream \in Code
  BY DEF CompilerState, Shapes, IndInv, TypeOK
<1>2. Len(labels) \in Nat \ {0} /\ DOMAIN labels = 1..Len(labels)
  BY <1>1
<1>3. current_func # 0 /\ Len(label_stack) = Len(labels)
  BY DEF CompilerState, InStep
<1>4. current_func \in Funcs
  BY <1>3 DEF CompilerState, Shapes
<1>5. label_stack # << >> /\ DOMAIN label_stack = 1..Len(labels)
  BY <1>1, <1>2, <1>3
<1> QED BY <1>1, <1>2, <1>3, <1>4, <1>5, CodeIsSeq DEF HasLabel, CompilerState, TopLabel

LEMMA KindsInStep ==
    ASSUME CompilerState, current_func # 0, UNCHANGED <<unit, current_func, labels>>,
           KindsKept, IndInv'
    PROVE  FuncLabels' /\ InStep'
<1>1. /\ labels \in Seq(CompilerLabel)
      /\ label_stack \in Seq(Label)
      /\ label_stack' \in Seq(Label)
  BY DEF CompilerState, Shapes, IndInv, TypeOK
<1>2. Len(label_stack') = Len(label_stack)
  <2>1. DOMAIN label_stack' = 1..Len(label_stack) /\ Len(label_stack) \in Nat
    BY <1>1 DEF KindsKept
  <2> QED BY <1>1, <2>1, DomainLength
<1>3. FuncLabels' BY DEF FuncLabels, KindsKept, CompilerState
<1>4. DOMAIN labels = DOMAIN label_stack
  BY <1>1 DEF CompilerState, InStep
<1>5. InStep' BY <1>2, <1>4 DEF InStep, KindsKept, CompilerState
<1> QED BY <1>3, <1>5

(* Code that jumps nowhere, or to where it knows. *)
LEMMA SettledStep ==
    ASSUME CompilerState, labels # << >>, UNCHANGED <<unit, current_func>>,
           KindsKept, IndInv', NEW code, Settled(code), Emit(code)
    PROVE  CompilerState'
<1>1. /\ code \in Code /\ istream \in Code
      /\ istream' = istream \o code
      /\ UNCHANGED <<labels, depth_fixups, func_fixups, func_offset>>
      /\ current_func # 0
  BY BothOpen DEF Settled, Emit, CompilerState, Shapes
<1>2. Len(istream) \in Nat BY <1>1, CodeIsSeq
<1>3. ASSUME NEW ops, ops \subseteq Jumps \union CallJumps, NEW p \in Nat
      PROVE  /\ IsOpen(istream', ops, p) <=> IsOpen(istream, ops, p)
             /\ ~(p > Len(istream) /\ IsOpen(code, ops, p - Len(istream)))
  <2>1. p > Len(istream) => p - Len(istream) \in Nat BY <1>2
  <2>2. p > Len(istream) => ~IsOpen(code, ops, p - Len(istream))
    BY <1>3, <2>1 DEF Settled, IsOpen
  <2> QED BY <1>1, <2>2, AppendCode
<1>4. /\ depth_fixups' \in [1..unit.max_labels -> SUBSET Nat]
      /\ istream' \in Code
      /\ BranchesPending'
  <2> DEFINE opened == [q \in DOMAIN depth_fixups |-> {}]
  <2>1. depth_fixups' = [q \in DOMAIN depth_fixups |-> depth_fixups[q] \union opened[q]]
    BY <1>1 DEF CompilerState, Shapes
  <2>2. \A q \in DOMAIN depth_fixups : opened[q] = {} OBVIOUS
  <2>3. \A p \in Nat : (p > Len(istream) /\ IsOpen(code, Jumps, p - Len(istream)))
                         <=> \E q \in DOMAIN depth_fixups : p \in opened[q]
    BY <1>3, <2>2
  <2> HIDE DEF opened
  <2> QED BY <1>1, <2>1, <2>2, <2>3, MoreBranches DEF CompilerState
<1>5. CallsPending'
  BY <1>1, <1>3, AppendCode, SameCalls DEF CompilerState
<1>6. FuncLabels' /\ InStep' BY <1>1, KindsInStep
<1>7. Shapes' BY <1>1, <1>4 DEF Shapes, CompilerState, Funcs, DefinedFuncs
<1> QED BY <1>4, <1>5, <1>6, <1>7 DEF CompilerState

(* Emissions of several parts are one. *)
LEMMA Assoc ==
    ASSUME NEW s \in Code, NEW c \in Code, NEW d \in Code
    PROVE  s \o c \o d = s \o (c \o d)
<1> DEFINE t == s \o c
           u == c \o d
<1>1. /\ s \in Seq(Instruction) /\ c \in Seq(Instruction) /\ d \in Seq(Instruction)
      /\ Len(s) \in Nat /\ Len(c) \in Nat /\ Len(d) \in Nat
  BY CodeIsSeq
<1>2. /\ t \in Seq(Instruction) /\ Len(t) = Len(s) + Len(c)
      /\ u \in Seq(Instruction) /\ Len(u) = Len(c) + Len(d)
  BY <1>1
<1>3. \A p \in 1 .. Len(s) + Len(c) : t[p] = IF p <= Len(s) THEN s[p] ELSE c[p - Len(s)]
  BY <1>1
<1>4. \A p \in 1 .. Len(c) + Len(d) : u[p] = IF p <= Len(c) THEN c[p] ELSE d[p - Len(c)]
  BY <1>1
<1> HIDE DEF t, u
<1>5. /\ t \o d \in Seq(Instruction) /\ Len(t \o d) = Len(s) + Len(c) + Len(d)
      /\ s \o u \in Seq(Instruction) /\ Len(s \o u) = Len(s) + Len(c) + Len(d)
  <2>1. ASSUME NEW a \in Seq(Instruction), NEW b \in Seq(Instruction)
        PROVE  a \o b \in Seq(Instruction) /\ Len(a \o b) = Len(a) + Len(b)
    OBVIOUS
  <2>2. /\ t \o d \in Seq(Instruction) /\ Len(t \o d) = Len(t) + Len(d)
        /\ s \o u \in Seq(Instruction) /\ Len(s \o u) = Len(s) + Len(u)
    BY <1>1, <1>2, <2>1, Zenon
  <2>3. Len(t) + Len(d) = Len(s) + Len(c) + Len(d) /\ Len(s) + Len(u) = Len(s) + Len(c) + Len(d)
    BY <1>1, <1>2
  <2> QED BY <2>2, <2>3
<1>6. ASSUME NEW p \in 1 .. Len(s) + Len(c) + Len(d)
      PROVE  (t \o d)[p] = (s \o u)[p]
  <2>1. (t \o d)[p] = IF p <= Len(s) + Len(c) THEN t[p] ELSE d[p - (Len(s) + Len(c))]
    BY <1>1, <1>2
  <2>2. (s \o u)[p] = IF p <= Len(s) THEN s[p] ELSE u[p - Len(s)]
    BY <1>1, <1>2
  <2> HIDE DEF t, u
  <2>3. CASE p <= Len(s)
    BY <1>1, <1>3, <2>1, <2>2, <2>3
  <2>4. CASE p > Len(s) /\ p <= Len(s) + Len(c)
    <3>1. p - Len(s) \in 1 .. Len(c) + Len(d) /\ p - Len(s) <= Len(c) BY <1>1, <2>4
    <3>2. u[p - Len(s)] = c[p - Len(s)] BY <3>1, <1>4
    <3>3. t[p] = c[p - Len(s)] BY <1>1, <1>3, <2>4
    <3> QED BY <1>1, <2>1, <2>2, <2>4, <3>2, <3>3
  <2>5. CASE p > Len(s) + Len(c)
    <3>1. p - Len(s) \in 1 .. Len(c) + Len(d) /\ ~(p - Len(s) <= Len(c)) BY <1>1, <2>5
    <3>2. u[p - Len(s)] = d[p - Len(s) - Len(c)] BY <3>1, <1>4
    <3>3. p - Len(s) - Len(c) = p - (Len(s) + Len(c)) BY <1>1
    <3>4. ~(p <= Len(s)) /\ ~(p <= Len(s) + Len(c)) BY <1>1, <2>5
    <3> QED BY <2>1, <2>2, <3>2, <3>3, <3>4
  <2>6. p <= Len(s) \/ (p > Len(s) /\ p <= Len(s) + Len(c)) \/ p > Len(s) + Len(c)
    BY <1>1
  <2> QED BY <2>3, <2>4, <2>5, <2>6
<1>7. t \o d = s \o u
  <2> DEFINE a == t \o d
             b == s \o u
             n == Len(s) + Len(c) + Len(d)
  <2>1. /\ a \in Seq(Instruction) /\ Len(a) = n
        /\ b \in Seq(Instruction) /\ Len(b) = n
    BY <1>5
  <2>2. \A p \in 1..n : a[p] = b[p] BY <1>6
  <2> HIDE DEF a, b, n
  <2>3. a = [p \in 1..n |-> a[p]] /\ b = [p \in 1..n |-> b[p]] BY <2>1
  <2>4. a = b BY <2>2, <2>3
  <2> QED BY <2>4 DEF a, b
<1> QED BY <1>7 DEF t, u

(* What branches drop and keep are numbers. *)
LEMMA Counts ==
    ASSUME NEW ts \in TypeVector, NEW ls \in Seq(Label), NEW depth \in Nat, depth < Len(ls)
    PROVE  BrKeep(ls, depth) \in Nat /\ BrDrop(ts, ls, depth) \in Int
<1> DEFINE l == ls[Len(ls) - depth]
<1>1. Len(ls) \in Nat /\ Len(ts) \in Nat BY DEF TypeVector
<1>2. Len(ls) - depth \in 1..Len(ls) BY <1>1
<1>3. l \in Label BY <1>2
<1>4. /\ l.type_stack_limit \in Nat
      /\ l.param_types \in TypeVector /\ l.result_types \in TypeVector
  BY <1>3 DEF Label
<1> HIDE DEF l
<1>5. br_types(l) \in TypeVector BY <1>4 DEF br_types
<1>6. Len(br_types(l)) \in Nat BY <1>5 DEF TypeVector
<1>7. BrKeep(ls, depth) \in Nat BY <1>6 DEF BrKeep, l
<1>8. BrDrop(ts, ls, depth) \in Int
  <2>1. BrDrop(ts, ls, depth) = GetDropCount(ts, BrKeep(ls, depth), l.type_stack_limit)
    BY DEF BrDrop, l
  <2> QED BY <1>1, <1>4, <1>7, <2>1 DEF GetDropCount
<1> QED BY <1>7, <1>8

(* The signatures the module names. *)
LEMMA ModuleTypes ==
    ASSUME Shapes
    PROVE  /\ \A f \in Funcs : /\ FuncTypeOf(f) \in FuncType
                               /\ DefinedFuncs[f].locals \in TypeVector
                               /\ DefinedFuncs[f].params \in TypeVector
           /\ \A h \in DOMAIN HostFuncs : HostFuncs[h] \in FuncType /\ h \in Nat
           /\ \A ft \in unit.types : ft \in FuncTypes /\ ft \in FuncType
           /\ \A op \in unit.opcodes : op \in OpcodeRow
           /\ \A ft \in FuncType : ft.params \in TypeVector /\ ft.results \in TypeVector
           /\ Seq(StackType) \subseteq Seq(Int \union StackType)
           /\ Funcs \subseteq Nat
<1>1. unit \in Unit BY DEF Shapes
<1>2. /\ unit.funcs \in Seq([params : TypeVector, results : TypeVector, locals : TypeVector])
      /\ unit.hosts \in Seq(FuncType)
      /\ unit.types \subseteq FuncTypes
      /\ unit.opcodes \subseteq Opcodes
  BY <1>1 DEF Unit
<1>3. \A f \in Funcs : /\ DefinedFuncs[f] \in [params : TypeVector, results : TypeVector,
                                               locals : TypeVector]
                       /\ f \in Nat
  <2> DEFINE R == [params : TypeVector, results : TypeVector, locals : TypeVector]
  <2>1. DefinedFuncs \in Seq(R) BY <1>2 DEF DefinedFuncs
  <2> HIDE DEF R
  <2>2. \A f \in DOMAIN DefinedFuncs : DefinedFuncs[f] \in R /\ f \in Nat BY <2>1
  <2> QED BY <2>2 DEF Funcs, R
<1>4. \A f \in Funcs : /\ FuncTypeOf(f) \in FuncType
                       /\ DefinedFuncs[f].locals \in TypeVector
                       /\ DefinedFuncs[f].params \in TypeVector
  BY <1>3 DEF FuncTypeOf, FuncType
<1>5. \A h \in DOMAIN HostFuncs : HostFuncs[h] \in FuncType /\ h \in Nat
  BY <1>2 DEF HostFuncs
<1>6. /\ \A ft \in unit.types : ft \in FuncTypes /\ ft \in FuncType
      /\ \A op \in unit.opcodes : op \in OpcodeRow
  BY <1>2, TypeCheckerAssumption
<1>7. \A ft \in FuncType : ft.params \in TypeVector /\ ft.results \in TypeVector
  BY DEF FuncType
<1>8. Seq(StackType) \subseteq Seq(Int \union StackType)
  <2> SUFFICES ASSUME NEW s \in Seq(StackType) PROVE s \in Seq(Int \union StackType)
    OBVIOUS
  <2> HIDE DEF StackType
  <2> QED OBVIOUS
<1> QED BY <1>3, <1>4, <1>5, <1>6, <1>7, <1>8

(* A handler whose code jumps nowhere. *)
LEMMA HandlerStep ==
    ASSUME CompilerState, labels # << >>, UNCHANGED <<unit, current_func>>, ~failed',
           AnyPlainHandler, NEW code, Settled(code), Unless(Emit(code))
    PROVE  CompilerState'
<1>1. HasLabel BY BothOpen
<1>2. IndInv' /\ KindsKept BY <1>1, PlainStep, PlainVerdict
<1>3. Emit(code) BY DEF Unless
<1> QED BY <1>2, <1>3, SettledStep

(* One instruction that is no jump. *)
LEMMA PlainSettled ==
    ASSUME NEW op \in OpName \ (Jumps \union CallJumps),
           NEW pops \in TypeVector, NEW push \in TypeVector
    PROVE  Settled(<<Instr(op, << >>, pops, push)>>)
<1>1. Instr(op, << >>, pops, push) \in Instruction /\ Instr(op, << >>, pops, push).op = op
  BY DEF Instr, Instruction
<1> QED BY <1>1, OneSettled

(* A call of a function that has not begun is remembered for it. *)
LEMMA EmitCallStep ==
    ASSUME CompilerState, labels # << >>, UNCHANGED <<unit, current_func>>,
           KindsKept, IndInv', NEW op \in CallJumps, NEW f \in Funcs,
           NEW before, Settled(before), EmitCall(op, f, before)
    PROVE  CompilerState'
<1> DEFINE i == Control(op, <<func_offset[f]>>)
           code == before \o <<i>>
           here == Len(istream) + Len(before) + 1
<1>1. /\ istream \in Code /\ before \in Code
      /\ Len(istream) \in Nat /\ Len(before) \in Nat
      /\ func_offset[f] \in Int
      /\ func_fixups \in [Funcs -> SUBSET Nat]
      /\ current_func # 0
  BY BothOpen, CodeIsSeq DEF CompilerState, Shapes, Settled, Offset, Invalid
<1>2. /\ i \in Instruction
      /\ i.op = op
      /\ i.args # << >>
      /\ i.args[1] = func_offset[f]
  <2>1. op \in OpName BY DEF OpName
  <2>2. <<func_offset[f]>> \in Seq(Int \union StackType) BY <1>1
  <2>3. i \in Instruction /\ i.op = op /\ i.args = <<func_offset[f]>>
    BY <2>1, <2>2, ControlIsInstruction
  <2> HIDE DEF i
  <2> QED BY <2>3
<1>3. /\ <<i>> \in Code
      /\ code \in Code
      /\ Len(code) = Len(before) + 1
      /\ \A ops \in SUBSET (Jumps \union CallJumps) : \A p \in Nat :
            IsOpen(code, ops, p)
              <=> p = Len(code) /\ i.op \in ops /\ i.args[1] = Invalid
  <2>1. <<i>> \in Code
    <3>1. <<i>> \in Seq(Instruction) /\ DOMAIN <<i>> = {1} /\ <<i>>[1] = i BY <1>2
    <3> QED BY <1>2, <3>1 DEF Code
  <2> QED BY <1>2, <2>1, LastOpen
<1>4. istream' = istream \o code
  BY <1>1, <1>3, Assoc DEF EmitCall
<1>5. UNCHANGED <<labels, depth_fixups, func_offset>>
  BY DEF EmitCall
<1>6. \A p \in Nat : p > Len(istream) => p - Len(istream) \in Nat
  BY <1>1
<1> HIDE DEF i, code
<1>7. /\ istream' \in Code
      /\ \A p \in Nat : IsOpen(istream', Jumps, p) <=> IsOpen(istream, Jumps, p)
      /\ \A p \in Nat : IsOpen(istream', CallJumps, p)
            <=> IsOpen(istream, CallJumps, p) \/ (p = here /\ func_offset[f] = Invalid)
      /\ \A p \in DOMAIN istream : p \in DOMAIN istream' /\ istream'[p] = istream[p]
      /\ here \in DOMAIN istream' /\ istream'[here].op \in CallJumps
  <2>1. op \notin Jumps BY JumpsApart
  <2>2. \A p \in Nat : ~(p > Len(istream) /\ IsOpen(code, Jumps, p - Len(istream)))
    BY <1>2, <1>3, <1>6, <2>1
  <2>3. \A p \in Nat : (p > Len(istream) /\ IsOpen(code, CallJumps, p - Len(istream)))
                         <=> p = here /\ func_offset[f] = Invalid
    <3> TAKE p \in Nat
    <3>1. p > Len(istream) /\ p - Len(istream) = Len(code) <=> p = here
      BY <1>1, <1>3
    <3>2. p > Len(istream) =>
             (IsOpen(code, CallJumps, p - Len(istream))
                <=> p - Len(istream) = Len(code) /\ func_offset[f] = Invalid)
      BY <1>2, <1>3, <1>6
    <3> QED BY <3>1, <3>2
  <2>4. here \in DOMAIN istream' /\ istream'[here].op \in CallJumps
    <3>1. istream'[here] = i /\ here \in DOMAIN istream'
      <4>1. /\ istream \in Seq(Instruction) /\ before \in Seq(Instruction)
            /\ <<i>> \in Seq(Instruction)
        BY <1>1, <1>3 DEF Code
      <4>2. /\ code \in Seq(Instruction) /\ code[Len(before) + 1] = i
        BY <4>1, <1>1 DEF code
      <4>3. /\ Len(istream') = here
            /\ istream' \in Seq(Instruction)
            /\ istream'[here] = code[Len(before) + 1]
        <5>1. Len(istream') = Len(istream) + Len(code) /\ istream' \in Seq(Instruction)
          BY <1>4, <4>1, <4>2
        <5>2. Len(istream') = here BY <1>1, <1>3, <5>1
        <5>3. \A k \in 1..Len(code) : istream'[Len(istream) + k] = code[k]
          BY <1>1, <1>3, <1>4, <4>1, <4>2
        <5>4. Len(before) + 1 \in 1..Len(code) /\ Len(istream) + (Len(before) + 1) = here
          BY <1>1, <1>3
        <5> QED BY <5>1, <5>2, <5>3, <5>4
      <4>4. here \in 1..Len(istream') BY <1>1, <4>3
      <4> QED BY <4>2, <4>3, <4>4
    <3> QED BY <1>2, <3>1
  <2> QED BY <1>1, <1>3, <1>4, <2>2, <2>3, <2>4, AppendCode
<1>8. BranchesPending'
  BY <1>5, <1>7 DEF BranchesPending, Remembered, CompilerState
<1>9. Funcs' = Funcs BY DEF Funcs, DefinedFuncs
<1>10. \A g \in Funcs : func_fixups'[g] =
          func_fixups[g] \union IF g = f /\ func_offset[f] = Invalid THEN {here} ELSE {}
  <2>1. CASE func_offset[f] = Invalid
    <3>1. func_fixups' = [func_fixups EXCEPT ![f] = @ \union {here}] BY <2>1 DEF EmitCall
    <3> QED BY <1>1, <2>1, <3>1
  <2>2. CASE func_offset[f] # Invalid
    <3>1. func_fixups' = func_fixups BY <2>2 DEF EmitCall
    <3> QED BY <1>1, <2>2, <3>1
  <2> QED BY <2>1, <2>2
<1>11. func_fixups' \in [Funcs -> SUBSET Nat]
  BY <1>1 DEF EmitCall
<1>12. here \in Nat /\ here \notin DOMAIN istream
  BY <1>1, CodeIsSeq
<1> HIDE DEF here
<1>13. CallsPending'
  <2>1. ASSUME NEW p \in Nat
        PROVE  (Awaited(p))' <=> Awaited(p) \/ (p = here /\ func_offset[f] = Invalid)
    BY <1>5, <1>9, <1>10 DEF Awaited
  <2>2. \A p \in Nat : IsOpen(istream', CallJumps, p) <=> (Awaited(p))'
    BY <1>7, <2>1 DEF CallsPending, CompilerState
  <2>3. ASSUME NEW g \in Funcs, NEW p \in func_fixups'[g]
        PROVE  p \in DOMAIN istream' /\ istream'[p].op \in CallJumps
    <3>1. CASE p \in func_fixups[g]
      BY <1>7, <3>1 DEF CallsPending, CompilerState
    <3>2. CASE p = here BY <1>7, <3>2
    <3> QED BY <1>10, <2>3, <3>1, <3>2
  <2>4. \A g \in Funcs : here \notin func_fixups[g]
    BY <1>12 DEF CallsPending, CompilerState
  <2>5. ASSUME NEW g \in Funcs, NEW h \in Funcs, NEW p \in Nat,
               p \in func_fixups'[g], p \in func_fixups'[h]
        PROVE  g = h
    <3>1. CASE p = here
      BY <1>10, <2>4, <2>5, <3>1
    <3>2. CASE p # here
      BY <1>10, <2>5, <3>2 DEF CallsPending, CompilerState
    <3> QED BY <3>1, <3>2
  <2> QED BY <1>9, <2>2, <2>3, <2>5 DEF CallsPending
<1>14. FuncLabels' /\ InStep' BY <1>1, <1>5, KindsInStep
<1>15. Shapes' BY <1>5, <1>7, <1>9, <1>11 DEF Shapes, CompilerState
<1> QED BY <1>8, <1>13, <1>14, <1>15 DEF CompilerState

(* Code whose only placeholders are those of branches that are remembered. *)
LEMMA BranchCodeStep ==
    ASSUME CompilerState, labels # << >>, UNCHANGED <<unit, current_func>>,
           KindsKept, IndInv', UNCHANGED <<labels, func_fixups, func_offset>>,
           NEW code \in Code, istream' = istream \o code,
           \A p \in Nat : ~IsOpen(code, CallJumps, p),
           NEW opened,
           depth_fixups' = [q \in DOMAIN depth_fixups |-> depth_fixups[q] \union opened[q]],
           \A q \in DOMAIN depth_fixups :
              /\ opened[q] \subseteq Nat
              /\ q > Len(labels) => opened[q] = {}
              /\ \A r \in DOMAIN depth_fixups : \A p \in Nat :
                    p \in opened[q] /\ p \in opened[r] => q = r,
           \A p \in Nat : (p > Len(istream) /\ IsOpen(code, Jumps, p - Len(istream)))
                             <=> \E q \in DOMAIN depth_fixups : p \in opened[q]
    PROVE  CompilerState'
<1>1. /\ istream \in Code /\ Len(istream) \in Nat /\ current_func # 0
  BY BothOpen DEF CompilerState, Shapes
<1>2. /\ depth_fixups' \in [1..unit.max_labels -> SUBSET Nat]
      /\ istream' \in Code
      /\ BranchesPending'
  BY MoreBranches DEF CompilerState
<1>3. ASSUME NEW p \in Nat
      PROVE  IsOpen(istream', CallJumps, p) <=> IsOpen(istream, CallJumps, p)
  <2>1. p > Len(istream) => p - Len(istream) \in Nat BY <1>1
  <2>2. ~(p > Len(istream) /\ IsOpen(code, CallJumps, p - Len(istream))) BY <2>1
  <2> QED BY <1>1, <2>2, AppendCode
<1>4. CallsPending'
  <2>1. \A p \in DOMAIN istream : p \in DOMAIN istream' /\ istream'[p].op = istream[p].op
    BY <1>1, AppendCode
  <2> QED BY <1>3, <2>1, SameCalls DEF CompilerState
<1>5. FuncLabels' /\ InStep' BY <1>1, KindsInStep
<1>6. Shapes' BY <1>2 DEF Shapes, CompilerState, Funcs, DefinedFuncs
<1> QED BY <1>2, <1>4, <1>5, <1>6 DEF CompilerState

(* Where a depth leads: the label looked up has a list of its own. *)
LEMMA Positions ==
    ASSUME CompilerState, labels # << >>, NEW depth \in Nat, depth < Len(labels)
    PROVE  /\ LabelPosition(depth) \in 1..Len(labels)
           /\ LabelPosition(depth) \in DOMAIN depth_fixups
           /\ LabelPosition(depth) \in DOMAIN labels
           /\ labels[LabelPosition(depth)].offset \in Int
           /\ <<labels[LabelPosition(depth)].offset>> \in Seq(Int \union StackType)
<1>1. /\ labels \in Seq(CompilerLabel) /\ Len(labels) \in Nat
      /\ Len(labels) <= unit.max_labels
      /\ unit.max_labels \in Nat
      /\ DOMAIN depth_fixups = 1..unit.max_labels
  BY BothOpen DEF CompilerState, Shapes, InStep, Unit
<1>2. Len(labels) - depth \in 1..Len(labels) BY <1>1
<1>3. labels[Len(labels) - depth] \in CompilerLabel BY <1>1, <1>2
<1>4. labels[Len(labels) - depth].offset \in Int
  BY <1>3 DEF CompilerLabel, Offset, Invalid
<1>5. <<labels[Len(labels) - depth].offset>> \in Seq(Int \union StackType)
  BY <1>4
<1>6. Len(labels) - depth \in 1..unit.max_labels BY <1>1, <1>2
<1> QED BY <1>1, <1>2, <1>4, <1>5, <1>6 DEF LabelPosition

(* A branch at the end of the code, to a label looked up by its depth. *)
LEMMA BranchStep ==
    ASSUME CompilerState, labels # << >>, UNCHANGED <<unit, current_func>>,
           KindsKept, IndInv', UNCHANGED <<labels, func_fixups, func_offset>>,
           NEW depth \in Nat, depth < Len(labels), NEW before, Settled(before),
           istream' = istream \o (before
                        \o <<Control("br", <<labels[LabelPosition(depth)].offset>>)>>),
           depth_fixups' = AddFixup(depth_fixups, depth, Len(istream) + Len(before) + 1)
    PROVE  CompilerState'
<1> DEFINE there == LabelPosition(depth)
           i == Control("br", <<labels[there].offset>>)
           code == before \o <<i>>
           here == Len(istream) + Len(before) + 1
           opened == [q \in DOMAIN depth_fixups |->
                         IF q = there /\ labels[there].offset = Invalid THEN {here} ELSE {}]
<1>1. /\ Len(istream) \in Nat /\ Len(before) \in Nat
      /\ there \in 1..Len(labels) /\ there \in DOMAIN depth_fixups
      /\ Len(labels) \in Nat
      /\ depth_fixups \in [1..unit.max_labels -> SUBSET Nat]
      /\ DOMAIN depth_fixups \subseteq Nat
  BY BothOpen, Positions, CodeIsSeq DEF CompilerState, Shapes, Settled
<1>2. i \in Instruction /\ i.op = "br" /\ i.args # << >> /\ i.args[1] = labels[there].offset
  <2>1. "br" \in OpName BY DEF OpName, Jumps
  <2>2. /\ labels[there].offset \in Int
        /\ <<labels[there].offset>> \in Seq(Int \union StackType) BY Positions
  <2>3. i \in Instruction /\ i.op = "br" /\ i.args = <<labels[there].offset>>
    BY <2>1, <2>2, ControlIsInstruction
  <2> HIDE DEF i
  <2> QED BY <2>3
<1>3. "br" \in Jumps /\ "br" \notin CallJumps BY DEF Jumps, CallJumps
<1>4. /\ code \in Code /\ Len(code) = Len(before) + 1
      /\ \A ops \in SUBSET (Jumps \union CallJumps) : \A p \in Nat : IsOpen(code, ops, p)
            <=> p = Len(code) /\ i.op \in ops /\ i.args[1] = Invalid
  BY <1>2, LastOpen
<1>5. istream' = istream \o code OBVIOUS
<1> HIDE DEF i, code
<1>6. \A p \in Nat : ~IsOpen(code, CallJumps, p) BY <1>2, <1>3, <1>4
<1>7. \A p \in Nat : (p > Len(istream) /\ IsOpen(code, Jumps, p - Len(istream)))
                        <=> p = here /\ labels[there].offset = Invalid
  <2> TAKE p \in Nat
  <2>1. p > Len(istream) /\ p - Len(istream) = Len(code) <=> p = here
    <3>1. Len(code) = Len(before) + 1 BY <1>4
    <3> QED BY <1>1, <3>1
  <2>2. p > Len(istream) => p - Len(istream) \in Nat BY <1>1
  <2>3. p > Len(istream) => (IsOpen(code, Jumps, p - Len(istream))
            <=> p - Len(istream) = Len(code) /\ labels[there].offset = Invalid)
    BY <1>2, <1>3, <1>4, <2>2
  <2> QED BY <2>1, <2>3
<1>8. here \in Nat BY <1>1
<1> HIDE DEF here, there
<1>9. depth_fixups' = [q \in DOMAIN depth_fixups |-> depth_fixups[q] \union opened[q]]
  <2>1. depth_fixups' = IF labels[there].offset = Invalid
                        THEN [depth_fixups EXCEPT ![there] = @ \union {here}]
                        ELSE depth_fixups
    BY DEF AddFixup, there, here
  <2>2. CASE labels[there].offset = Invalid BY <1>1, <2>1, <2>2
  <2>3. CASE labels[there].offset # Invalid BY <1>1, <2>1, <2>3
  <2> QED BY <2>2, <2>3
<1>10. \A q \in DOMAIN depth_fixups :
          /\ opened[q] \subseteq Nat
          /\ q > Len(labels) => opened[q] = {}
          /\ \A r \in DOMAIN depth_fixups : \A p \in Nat :
                p \in opened[q] /\ p \in opened[r] => q = r
  BY <1>1, <1>8
<1>11. \A p \in Nat : (p = here /\ labels[there].offset = Invalid)
                        <=> \E q \in DOMAIN depth_fixups : p \in opened[q]
  BY <1>1
<1>12. \A p \in Nat : (p > Len(istream) /\ IsOpen(code, Jumps, p - Len(istream)))
                         <=> \E q \in DOMAIN depth_fixups : p \in opened[q]
  BY <1>7, <1>11, Zenon
<1>13. code \in Code BY <1>4
<1> HIDE DEF opened
<1> QED BY <1>5, <1>6, <1>9, <1>10, <1>12, <1>13, BranchCodeStep

-----------------------------------------------------------------------------
(* The branches.                                                           *)

LEMMA BrExprStep ==
    ASSUME CompilerState, labels # << >>, UNCHANGED <<unit, current_func>>, ~failed',
           NEW depth \in Nat, OnBrExpr(depth)
    PROVE  CompilerState'
<1>1. HasLabel /\ Len(label_stack) = Len(labels) BY BothOpen
<1>2. OnBr(depth) BY DEF OnBrExpr
<1>3. IndInv' /\ KindsKept BY <1>1, <1>2, PlainStep, PlainVerdict DEF AnyPlainHandler
<1>4. depth < Len(labels)
  <2>1. Len(label_stack) \in Nat BY <1>1, BothOpen
  <2>2. ~(depth >= Len(label_stack))
    BY <1>2, Zenon DEF OnBr, InvalidDepth, Return, Finish
  <2> QED BY <1>1, <2>1, <2>2
<1> DEFINE before == EmitDropKeep(BrDrop(type_stack, label_stack, depth),
                                  BrKeep(label_stack, depth))
           i == Control("br", <<labels[LabelPosition(depth)].offset>>)
<1>5. Settled(before)
  <2>1. type_stack \in TypeVector /\ label_stack \in Seq(Label)
    BY <1>1 DEF HasLabel, IndInv, TypeOK
  <2>2. BrKeep(label_stack, depth) \in Int /\ BrDrop(type_stack, label_stack, depth) \in Int
    BY <1>1, <1>4, <2>1, Counts
  <2> QED BY <2>2, DropKeepSettled
<1>6. /\ istream' = istream \o (before \o <<i>>)
      /\ depth_fixups' = AddFixup(depth_fixups, depth, Len(istream \o (before \o <<i>>)))
      /\ UNCHANGED <<labels, func_fixups, func_offset>>
  BY DEF OnBrExpr, Unless, EmitBr
<1>7. Len(istream \o (before \o <<i>>)) = Len(istream) + Len(before) + 1
  <2>1. istream \in Code /\ before \in Code /\ Len(istream) \in Nat /\ Len(before) \in Nat
    BY <1>5, BothOpen, CodeIsSeq DEF Settled, CompilerState, Shapes
  <2>2. i \in Instruction /\ i.args # << >>
    <3>1. "br" \in OpName BY DEF OpName, Jumps
    <3>2. <<labels[LabelPosition(depth)].offset>> \in Seq(Int \union StackType)
      BY <1>4, Positions
    <3>3. i \in Instruction /\ i.args = <<labels[LabelPosition(depth)].offset>>
      BY <3>1, <3>2, ControlIsInstruction
    <3> HIDE DEF i
    <3> QED BY <3>3
  <2> HIDE DEF before, i
  <2>3. before \o <<i>> \in Code /\ Len(before \o <<i>>) = Len(before) + 1
    BY <1>5, <2>2, LastOpen
  <2>4. Len(istream \o (before \o <<i>>)) = Len(istream) + Len(before \o <<i>>)
    BY <2>1, <2>3, AppendCode
  <2> QED BY <2>1, <2>3, <2>4
<1>8. depth_fixups' = AddFixup(depth_fixups, depth, Len(istream) + Len(before) + 1)
  BY <1>6, <1>7, Zenon
<1> HIDE DEF before
<1> QED BY <1>3, <1>4, <1>5, <1>6, <1>8, BranchStep

LEMMA BrIfExprStep ==
    ASSUME CompilerState, labels # << >>, UNCHANGED <<unit, current_func>>, ~failed',
           NEW depth \in Nat, OnBrIfExpr(depth)
    PROVE  CompilerState'
<1>1. HasLabel /\ Len(label_stack) = Len(labels) BY BothOpen
<1>2. OnBrIf(depth) BY DEF OnBrIfExpr
<1>3. IndInv' /\ KindsKept BY <1>1, <1>2, PlainStep, PlainVerdict DEF AnyPlainHandler
<1>4. depth < Len(labels)
  <2>1. Len(label_stack) \in Nat BY <1>1, BothOpen
  <2>2. ~(depth >= Len(label_stack))
    BY <1>2, Zenon DEF OnBrIf, InvalidDepth, Return, Finish
  <2> QED BY <1>1, <2>1, <2>2
<1> DEFINE keeps == EmitDropKeep(BrDrop(type_stack', label_stack', depth),
                                 BrKeep(label_stack', depth))
           i == Control("br", <<labels[LabelPosition(depth)].offset>>)
           end == Len(istream) + 1 + Len(keeps \o <<i>>)
           first == Control("br_unless", <<end>>)
           before == <<first>> \o keeps
<1>5. Settled(keeps)
  <2>1. type_stack' \in TypeVector /\ label_stack' \in Seq(Label)
    BY <1>3 DEF IndInv, TypeOK
  <2>2. Len(label_stack') = Len(labels)
    <3>1. DOMAIN label_stack' = 1..Len(labels) /\ Len(labels) \in Nat
      BY <1>3, BothOpen DEF KindsKept
    <3> QED BY <2>1, <3>1, DomainLength
  <2>3. BrKeep(label_stack', depth) \in Int /\ BrDrop(type_stack', label_stack', depth) \in Int
    BY <1>4, <2>1, <2>2, Counts
  <2> QED BY <2>3, DropKeepSettled
<1>6. /\ istream \in Code /\ Len(istream) \in Nat
      /\ keeps \in Code /\ Len(keeps) \in Nat
  BY <1>5, BothOpen, CodeIsSeq DEF Settled, CompilerState, Shapes
<1>7. i \in Instruction /\ i.args # << >>
  <2>1. "br" \in OpName BY DEF OpName, Jumps
  <2>2. <<labels[LabelPosition(depth)].offset>> \in Seq(Int \union StackType)
    BY <1>4, Positions
  <2>3. i \in Instruction /\ i.args = <<labels[LabelPosition(depth)].offset>>
    BY <2>1, <2>2, ControlIsInstruction
  <2> HIDE DEF i
  <2> QED BY <2>3
<1>8. /\ istream' = istream \o <<first>> \o (keeps \o <<i>>)
      /\ depth_fixups' = AddFixup(depth_fixups, depth, end)
      /\ UNCHANGED <<labels, func_fixups, func_offset>>
  BY DEF OnBrIfExpr, Unless, EmitBr
<1> HIDE DEF keeps, i
<1>9. keeps \o <<i>> \in Code /\ Len(keeps \o <<i>>) = Len(keeps) + 1
  BY <1>5, <1>7, LastOpen
<1>10. end \in Nat /\ end # Invalid
  <2>1. end \in Nat BY <1>6, <1>9
  <2> QED BY <2>1 DEF Invalid
<1> HIDE DEF end
<1>11. Settled(<<first>>) /\ <<first>> \in Code
  <2>1. "br_unless" \in OpName BY DEF OpName, Jumps
  <2>2. <<end>> \in Seq(Int \union StackType) BY <1>10
  <2>3. first \in Instruction /\ first.args = <<end>> BY <2>1, <2>2, ControlIsInstruction
  <2> HIDE DEF first
  <2>4. first.args # << >> /\ first.args[1] # Invalid BY <1>10, <2>3
  <2> QED BY <2>3, <2>4, OneSettled DEF Settled
<1> HIDE DEF first
<1>12. Settled(before) /\ before \in Code BY <1>5, <1>11, AppendSettled DEF Settled
<1>13. Len(before) = 1 + Len(keeps)
  <2>1. Len(<<first>>) = 1 OBVIOUS
  <2> QED BY <1>6, <1>11, <2>1, AppendCode
<1>14. <<i>> \in Code
  <2>1. <<i>> \in Seq(Instruction) /\ DOMAIN <<i>> = {1} /\ <<i>>[1] = i BY <1>7
  <2> QED BY <1>7, <2>1 DEF Code
<1>15. istream' = istream \o (before \o <<i>>)
  <2>1. before \o <<i>> = <<first>> \o (keeps \o <<i>>) BY <1>6, <1>11, <1>14, Assoc
  <2>2. istream \o <<first>> \o (keeps \o <<i>>) = istream \o (<<first>> \o (keeps \o <<i>>))
    BY <1>6, <1>9, <1>11, Assoc
  <2> QED BY <1>8, <2>1, <2>2, Zenon
<1>16. end = Len(istream) + Len(before) + 1 BY <1>6, <1>9, <1>13 DEF end
<1>17. depth_fixups' = AddFixup(depth_fixups, depth, Len(istream) + Len(before) + 1)
  BY <1>8, <1>16, Zenon
<1> HIDE DEF before
<1> QED BY <1>3, <1>4, <1>8, <1>12, <1>15, <1>17, BranchStep DEF i

LEMMA BrTableExprStep ==
    ASSUME CompilerState, labels # << >>, UNCHANGED <<unit, current_func>>, ~failed',
           NEW depth \in Nat, NEW other \in Nat, OnBrTableExpr(<<depth, other>>)
    PROVE  CompilerState'
<1> DEFINE depths == <<depth, other>>
           ts == PopTypes(type_stack, TopLabel, <<"i32">>)
           table == Len(istream) + 2
           entry(k) == Control("table_entry",
                         <<labels[LabelPosition(depths[k])].offset,
                           BrDrop(ts, label_stack, depths[k]),
                           BrKeep(label_stack, depths[k])>>)
           head == <<Control("br_table", <<Len(depths) - 1, table>>), Control("data", << >>)>>
           entries == [k \in DOMAIN depths |-> entry(k)]
           pending(k) == labels[LabelPosition(depths[k])].offset = Invalid
           fixups(p) == {table + k : k \in {j \in DOMAIN depths :
                                               /\ LabelPosition(depths[j]) = p
                                               /\ labels[p].offset = Invalid}}
           opened == [q \in DOMAIN depth_fixups |->
                         IF q \in DOMAIN labels THEN fixups(q) ELSE {}]
           code == head \o entries
<1>1. HasLabel /\ Len(label_stack) = Len(labels) BY BothOpen
<1>2. OnBrTable(depths) BY DEF OnBrTableExpr
<1>3. IndInv' /\ KindsKept BY <1>1, <1>2, PlainStep, PlainVerdict DEF AnyPlainHandler
<1>4. /\ depths \in Seq(Nat) /\ DOMAIN depths = {1, 2} /\ Len(depths) = 2
      /\ \A k \in DOMAIN depths : depths[k] \in Nat /\ k \in {1, 2}
  OBVIOUS
<1>5. /\ istream' = istream \o head \o entries
      /\ depth_fixups' = [q \in DOMAIN depth_fixups |->
                             depth_fixups[q] \union IF q \in DOMAIN labels THEN fixups(q) ELSE {}]
      /\ UNCHANGED <<labels, func_fixups, func_offset>>
  BY DEF OnBrTableExpr, Unless
<1>6. \A k \in DOMAIN depths : depths[k] < Len(labels)
  <2>1. {k \in DOMAIN depths : depths[k] < Len(label_stack)} = DOMAIN depths
    BY <1>2, Zenon DEF OnBrTable, ReturnUnreachable, Return, Finish
  <2> HIDE DEF depths
  <2> QED BY <1>1, <2>1
<1>7. /\ istream \in Code /\ Len(istream) \in Nat
      /\ Len(labels) \in Nat /\ DOMAIN labels = 1..Len(labels)
      /\ DOMAIN depth_fixups \subseteq Nat
      /\ table \in Nat
  BY BothOpen DEF CompilerState, Shapes
<1>8. \A k \in DOMAIN depths : /\ LabelPosition(depths[k]) \in DOMAIN labels
                               /\ LabelPosition(depths[k]) \in DOMAIN depth_fixups
                               /\ labels[LabelPosition(depths[k])].offset \in Int
  <2> HIDE DEF depths
  <2> QED BY <1>4, <1>6, Positions
<1>9. \A k \in DOMAIN depths : BrKeep(label_stack, depths[k]) \in Int
                               /\ BrDrop(ts, label_stack, depths[k]) \in Int
  <2>1. ts \in TypeVector
    <3>1. TopLabel \in Label /\ Keeps(type_stack, type_stack, TopLabel.type_stack_limit)
      BY <1>1, TopLabelOK
    <3>2. <<"i32">> \in TypeVector BY Literals
    <3> QED BY <3>1, <3>2, PopKeeps DEF Keeps
  <2>2. label_stack \in Seq(Label) BY <1>1 DEF HasLabel, IndInv, TypeOK
  <2> HIDE DEF depths, ts
  <2> QED BY <1>1, <1>4, <1>6, <2>1, <2>2, Counts
<1>10. \A k \in DOMAIN depths : /\ entry(k) \in Instruction
                                /\ entry(k).op = "table_entry"
                                /\ entry(k).args # << >>
                                /\ entry(k).args[1] = labels[LabelPosition(depths[k])].offset
  <2> TAKE k \in DOMAIN depths
  <2> HIDE DEF depths, ts
  <2> DEFINE a == labels[LabelPosition(depths[k])].offset
             b == BrDrop(ts, label_stack, depths[k])
             c == BrKeep(label_stack, depths[k])
  <2>1. a \in Int /\ b \in Int /\ c \in Int BY <1>8, <1>9
  <2>2. entry(k) = Control("table_entry", <<a, b, c>>) OBVIOUS
  <2> DEFINE op == "table_entry"
             args == <<a, b, c>>
  <2> HIDE DEF a, b, c, entry
  <2>3. args \in Seq(Int \union StackType) /\ args # << >> /\ args[1] = a BY <2>1
  <2>4. op \in OpName BY DEF OpName, Jumps
  <2>5. entry(k) = Control(op, args) BY <2>2
  <2>6. op = "table_entry" OBVIOUS
  <2> HIDE DEF op, args
  <2>7. entry(k) \in Instruction /\ entry(k).op = op /\ entry(k).args = args
    BY <2>3, <2>4, <2>5, ControlIsInstruction
  <2> QED BY <2>3, <2>6, <2>7, Zenon DEF a
<1>11. Settled(head) /\ head \in Code /\ Len(head) = 2
  <2>1. {"br_table", "data"} \subseteq OpName \ (Jumps \union CallJumps)
    BY DEF OpName, Jumps, CallJumps
  <2>2. /\ <<Len(depths) - 1, table>> \in Seq(Int \union StackType)
        /\ << >> \in Seq(Int \union StackType)
    BY <1>4, <1>7
  <2> DEFINE x == Control("br_table", <<Len(depths) - 1, table>>)
             y == Control("data", << >>)
  <2>3. /\ x \in Instruction /\ x.op = "br_table"
        /\ y \in Instruction /\ y.op = "data"
    BY <2>1, <2>2, ControlIsInstruction
  <2> HIDE DEF x, y
  <2>4. Settled(<<x, y>>) /\ Len(<<x, y>>) = 2 BY <2>1, <2>3, TwoSettled
  <2> QED BY <2>4 DEF x, y, Settled
<1> HIDE DEF depths, ts, entry, head
<1>12. entries \in Code /\ DOMAIN entries = DOMAIN depths
  <2>1. DOMAIN depths = 1..2 BY <1>4
  <2>2. /\ entries \in [1..2 -> Instruction]
        /\ \A k \in DOMAIN depths : entries[k] = entry(k)
    BY <1>10, <2>1
  <2> HIDE DEF entries
  <2>3. \A n \in Nat : \A e \in [1..n -> Instruction] : e \in Seq(Instruction)
    OBVIOUS
  <2>4. entries \in Seq(Instruction) /\ DOMAIN entries = DOMAIN depths
    BY <2>1, <2>2, <2>3
  <2> QED BY <1>10, <2>2, <2>4 DEF Code
<1>13. \A p \in Nat : /\ ~IsOpen(entries, CallJumps, p)
                      /\ IsOpen(entries, Jumps, p) <=> p \in DOMAIN depths /\ pending(p)
  <2>1. "table_entry" \in Jumps /\ "table_entry" \notin CallJumps BY DEF Jumps, CallJumps
  <2>2. \A p \in DOMAIN depths : entries[p] = entry(p) OBVIOUS
  <2> HIDE DEF entries
  <2> QED BY <1>10, <1>12, <2>1, <2>2 DEF IsOpen
<1> HIDE DEF entries
<1>14. /\ code \in Code
       /\ istream' = istream \o code
  BY <1>5, <1>7, <1>11, <1>12, AppendCode, Assoc
<1>15. \A p \in Nat : /\ ~IsOpen(code, CallJumps, p)
                      /\ IsOpen(code, Jumps, p) <=> p > 2 /\ p - 2 \in DOMAIN depths /\ pending(p - 2)
  <2> TAKE p \in Nat
  <2>1. ~IsOpen(head, CallJumps, p) /\ ~IsOpen(head, Jumps, p)
    BY <1>11 DEF Settled, IsOpen
  <2>2. /\ IsOpen(code, CallJumps, p) <=> p > 2 /\ IsOpen(entries, CallJumps, p - 2)
        /\ IsOpen(code, Jumps, p) <=> p > 2 /\ IsOpen(entries, Jumps, p - 2)
    <3>1. /\ IsOpen(code, CallJumps, p)
                <=> p > Len(head) /\ IsOpen(entries, CallJumps, p - Len(head))
          /\ IsOpen(code, Jumps, p)
                <=> p > Len(head) /\ IsOpen(entries, Jumps, p - Len(head))
      BY <1>11, <1>12, <2>1, AppendCode
    <3> QED BY <1>11, <3>1, Zenon
  <2>3. p > 2 => p - 2 \in Nat OBVIOUS
  <2> QED BY <1>13, <2>2, <2>3
<1> HIDE DEF code
<1>16. depth_fixups' = [q \in DOMAIN depth_fixups |-> depth_fixups[q] \union opened[q]]
  BY <1>5
<1>17. \A q \in DOMAIN depth_fixups : \A p : p \in opened[q] <=>
          \E k \in DOMAIN depths : /\ p = table + k
                                   /\ LabelPosition(depths[k]) = q
                                   /\ pending(k)
  BY <1>8
<1> HIDE DEF opened, pending
<1>18. \A q \in DOMAIN depth_fixups :
          /\ opened[q] \subseteq Nat
          /\ q > Len(labels) => opened[q] = {}
          /\ \A r \in DOMAIN depth_fixups : \A p \in Nat :
                p \in opened[q] /\ p \in opened[r] => q = r
  <2> TAKE q \in DOMAIN depth_fixups
  <2>1. opened[q] \subseteq Nat BY <1>4, <1>7, <1>17
  <2>2. q > Len(labels) => opened[q] = {}
    <3>1. \A k \in DOMAIN depths : LabelPosition(depths[k]) <= Len(labels) BY <1>7, <1>8
    <3>2. q > Len(labels) => \A k \in DOMAIN depths : LabelPosition(depths[k]) # q
      BY <1>7, <3>1
    <3> QED BY <1>17, <3>2
  <2>3. ASSUME NEW r \in DOMAIN depth_fixups, NEW p \in Nat, p \in opened[q], p \in opened[r]
        PROVE  q = r
    <3>1. PICK k \in DOMAIN depths : p = table + k /\ LabelPosition(depths[k]) = q
      BY <1>17, <2>3
    <3>2. PICK j \in DOMAIN depths : p = table + j /\ LabelPosition(depths[j]) = r
      BY <1>17, <2>3
    <3>3. k = j BY <1>4, <1>7, <3>1, <3>2
    <3> QED BY <3>1, <3>2, <3>3
  <2> QED BY <2>1, <2>2, <2>3
<1>19. \A p \in Nat : (p > Len(istream) /\ IsOpen(code, Jumps, p - Len(istream)))
                         <=> \E q \in DOMAIN depth_fixups : p \in opened[q]
  <2> TAKE p \in Nat
  <2>1. (p > Len(istream) /\ IsOpen(code, Jumps, p - Len(istream)))
          <=> \E k \in DOMAIN depths : p = table + k /\ pending(k)
    <3>1. CASE p > Len(istream)
      <4>1. p - Len(istream) \in Nat BY <1>7, <3>1
      <4>2. IsOpen(code, Jumps, p - Len(istream))
              <=> /\ p - Len(istream) > 2 /\ p - Len(istream) - 2 \in DOMAIN depths
                  /\ pending(p - Len(istream) - 2)
        BY <1>15, <4>1
      <4> DEFINE here == p - Len(istream) - 2
      <4>3. \A k \in DOMAIN depths : p = table + k <=> k = here
        <5>1. \A k \in DOMAIN depths : k \in Int BY <1>4
        <5>2. \A k \in Int : p = table + k <=> k = here BY <1>7
        <5> QED BY <5>1, <5>2, Zenon
      <4>4. here > 0 => p - Len(istream) > 2
        BY <1>7
      <4>5. \A k \in DOMAIN depths : k > 0 BY <1>4
      <4>6. IsOpen(code, Jumps, p - Len(istream)) <=> here \in DOMAIN depths /\ pending(here)
        BY <4>2, <4>4, <4>5, Zenon
      <4> HIDE DEF here, pending, code, depths, table
      <4> QED BY <3>1, <4>3, <4>6, Zenon
    <3>2. CASE ~(p > Len(istream))
      <4>1. \A k \in DOMAIN depths : p # table + k BY <1>4, <1>7, <3>2
      <4> QED BY <3>2, <4>1
    <3> QED BY <3>1, <3>2
  <2>2. (\E q \in DOMAIN depth_fixups : p \in opened[q])
          <=> \E k \in DOMAIN depths : p = table + k /\ pending(k)
    BY <1>8, <1>17
  <2> QED BY <2>1, <2>2
<1>20. \A p \in Nat : ~IsOpen(code, CallJumps, p) BY <1>15
<1> QED BY <1>3, <1>5, <1>14, <1>16, <1>18, <1>19, <1>20, BranchCodeStep

-----------------------------------------------------------------------------
(* The instructions without a label of their own.                          *)

LEMMA LocalsOK ==
    ASSUME CompilerState, labels # << >>
    PROVE  /\ LocalTypes \in TypeVector
           /\ Len(LocalTypes) \in Nat
           /\ \A i \in DOMAIN LocalTypes : LocalTypes[i] \in StackType /\ i \in Nat
<1>1. current_func \in Funcs BY BothOpen
<1>2. /\ DefinedFuncs[current_func].params \in TypeVector
      /\ DefinedFuncs[current_func].locals \in TypeVector
  BY <1>1, ModuleTypes DEF CompilerState
<1>3. LocalTypes \in TypeVector
  <2> DEFINE a == DefinedFuncs[current_func].params
             b == DefinedFuncs[current_func].locals
  <2> HIDE DEF a, b
  <2>1. a \in TypeVector /\ b \in TypeVector BY <1>2 DEF a, b
  <2>2. a \o b \in TypeVector
    <3> HIDE DEF StackType
    <3> QED BY <2>1 DEF TypeVector
  <2> QED BY <2>2 DEF LocalTypes, a, b
<1>4. /\ Len(LocalTypes) \in Nat
      /\ \A i \in DOMAIN LocalTypes : LocalTypes[i] \in StackType /\ i \in Nat
  <2> HIDE DEF StackType, LocalTypes
  <2> QED BY <1>3 DEF TypeVector
<1> QED BY <1>3, <1>4

(* What a return, and a tail call, leaves on the value stack. *)
LEMMA ReturnSettled ==
    ASSUME CompilerState, labels # << >>
    PROVE  /\ Settled(ReturnDropKeep(type_stack, label_stack))
           /\ \A ft \in FuncType : \A extra \in Nat :
                 Settled(ReturnCallDropKeep(type_stack, ft, extra))
<1>1. Len(LocalTypes) \in Nat BY LocalsOK
<1>2. /\ type_stack \in TypeVector /\ label_stack \in Seq(Label)
      /\ Len(label_stack) \in Nat \ {0}
      /\ Len(type_stack) \in Nat
  BY BothOpen DEF CompilerState, IndInv, TypeOK, TypeVector
<1>3. Settled(ReturnDropKeep(type_stack, label_stack))
  <2> DEFINE n == Len(label_stack) - 1
  <2>1. n \in Nat /\ n < Len(label_stack) BY <1>2
  <2> HIDE DEF n
  <2>2. BrKeep(label_stack, n) \in Nat /\ BrDrop(type_stack, label_stack, n) \in Int
    BY <1>2, <2>1, Counts
  <2>3. BrDrop(type_stack, label_stack, n) + Len(LocalTypes) \in Int BY <1>1, <2>2
  <2> QED BY <2>2, <2>3, DropKeepSettled DEF ReturnDropKeep, n
<1>4. ASSUME NEW ft \in FuncType, NEW extra \in Nat
      PROVE  Settled(ReturnCallDropKeep(type_stack, ft, extra))
  <2> DEFINE keep == Len(ft.params) + extra
             drop == GetDropCount(type_stack, keep, 0) + Len(LocalTypes)
  <2>1. Len(ft.params) \in Nat BY DEF FuncType, TypeVector
  <2>2. keep \in Int BY <2>1
  <2> HIDE DEF keep
  <2>3. GetDropCount(type_stack, keep, 0) \in Int BY <1>2, <2>2 DEF GetDropCount
  <2>4. drop \in Int BY <1>1, <2>3
  <2> HIDE DEF drop
  <2>5. Settled(EmitDropKeep(drop, keep)) BY <2>2, <2>4, DropKeepSettled
  <2> QED BY <2>5 DEF ReturnCallDropKeep, drop, keep
<1> QED BY <1>3, <1>4

LEMMA LocalSettled ==
    ASSUME CompilerState, labels # << >>, NEW ts \in TypeVector, NEW i \in DOMAIN LocalTypes,
           NEW op \in {"local_get", "local_set", "local_tee"}
    PROVE  Settled(<<Control(op, <<TranslateLocalIndex(ts, i), i>>)>>)
<1>1. Len(ts) \in Nat BY DEF TypeVector
<1>2. TranslateLocalIndex(ts, i) \in Int /\ i \in Int
  BY <1>1, LocalsOK DEF TranslateLocalIndex
<1>3. <<TranslateLocalIndex(ts, i), i>> \in Seq(Int \union StackType)
  <2> DEFINE a == TranslateLocalIndex(ts, i)
  <2>1. a \in Int BY <1>2
  <2> HIDE DEF a
  <2>2. <<a, i>> \in Seq(Int \union StackType) BY <1>2, <2>1
  <2> QED BY <2>2 DEF a
<1>4. op \in OpName \ (Jumps \union CallJumps) BY DEF OpName, Jumps, CallJumps
<1> QED BY <1>3, <1>4, ControlSettled

LEMMA PlainExprStep ==
    ASSUME CompilerState, labels # << >>, UNCHANGED <<unit, current_func>>, ~failed', Plain
    PROVE  CompilerState'
<1>1. HasLabel BY BothOpen
<1>2. << >> \in Seq(Int \union StackType) /\ << >> \in TypeVector
  <2>1. << >> \in Seq(Int \union StackType) OBVIOUS
  <2> QED BY <2>1, Literals
<1>3. ASSUME NEW type \in PushedTypes, OnConstExpr(type) PROVE CompilerState'
  <2>1. type \in StackType /\ <<type>> \in TypeVector BY TypeCheckerAssumption, Literals
  <2>2. AnyPlainHandler BY <1>3, <2>1 DEF OnConstExpr, AnyPlainHandler
  <2>3. "plain" \in OpName \ (Jumps \union CallJumps) BY DEF OpName, Jumps, CallJumps
  <2>4. Settled(<<Instr("plain", << >>, << >>, <<type>>)>>) BY <1>2, <2>1, <2>3, PlainSettled
  <2> QED BY <1>3, <2>2, <2>4, HandlerStep DEF OnConstExpr
<1>4. ASSUME NEW op \in unit.opcodes, OnPlainExpr(op) PROVE CompilerState'
  <2>1. op \in OpcodeRow BY ModuleTypes DEF CompilerState
  <2> DEFINE push == IF op.result = "void" THEN << >> ELSE <<op.result>>
  <2>2. AnyPlainHandler BY <1>4, <2>1 DEF OnPlainExpr, AnyPlainHandler
  <2>3. "plain" \in OpName \ (Jumps \union CallJumps) BY DEF OpName, Jumps, CallJumps
  <2>4. op.params \in TypeVector /\ push \in TypeVector
    <3>1. op.params \in TypeVector /\ (op.result # "void" => op.result \in StackType)
      BY <2>1 DEF OpcodeRow
    <3> QED BY <1>2, <3>1, Literals
  <2>5. Settled(<<Instr("plain", << >>, op.params, push)>>) BY <2>3, <2>4, PlainSettled
  <2>6. Unless(Emit(<<Instr("plain", << >>, op.params, push)>>)) BY <1>4 DEF OnPlainExpr
  <2> HIDE DEF push
  <2> QED BY <2>2, <2>5, <2>6, HandlerStep
<1>5. ASSUME NEW i \in DOMAIN LocalTypes,
             OnLocalGetExpr(i) \/ OnLocalSetExpr(i) \/ OnLocalTeeExpr(i)
      PROVE  CompilerState'
  <2>1. LocalTypes[i] \in StackType BY LocalsOK
  <2>2. AnyPlainHandler
    BY <1>5, <2>1 DEF OnLocalGetExpr, OnLocalSetExpr, OnLocalTeeExpr, AnyPlainHandler
  <2>3. type_stack \in TypeVector /\ type_stack' \in TypeVector
    BY <1>1, <2>2, PlainStep DEF HasLabel, IndInv, TypeOK
  <2>4. CASE OnLocalGetExpr(i)
    <3>1. Settled(<<Control("local_get", <<TranslateLocalIndex(type_stack, i), i>>)>>)
      BY <2>3, LocalSettled
    <3> QED BY <2>2, <2>4, <3>1, HandlerStep DEF OnLocalGetExpr
  <2>5. CASE OnLocalSetExpr(i)
    <3>1. Settled(<<Control("local_set", <<TranslateLocalIndex(type_stack', i), i>>)>>)
      BY <2>3, LocalSettled
    <3>2. Unless(Emit(<<Control("local_set", <<TranslateLocalIndex(type_stack', i), i>>)>>))
      BY <2>5 DEF OnLocalSetExpr
    <3> QED BY <2>2, <3>1, <3>2, HandlerStep
  <2>6. CASE OnLocalTeeExpr(i)
    <3>1. Settled(<<Control("local_tee", <<TranslateLocalIndex(type_stack', i), i>>)>>)
      BY <2>3, LocalSettled
    <3>2. Unless(Emit(<<Control("local_tee", <<TranslateLocalIndex(type_stack', i), i>>)>>))
      BY <2>6 DEF OnLocalTeeExpr
    <3> QED BY <2>2, <3>1, <3>2, HandlerStep
  <2> QED BY <1>5, <2>4, <2>5, <2>6
<1>6. ASSUME NEW type \in SelectTypes, OnSelectExpr(type) PROVE CompilerState'
  <2>1. type \in StackType BY TypeCheckerAssumption
  <2>2. OnSelect(type) /\ Emit(<<Control("select", << >>)>>) BY <1>6 DEF OnSelectExpr, Unless
  <2>3. IndInv' /\ KindsKept BY <1>1, <2>1, <2>2, SelectStep, SelectVerdict
  <2>4. "select" \in OpName \ (Jumps \union CallJumps) BY DEF OpName, Jumps, CallJumps
  <2>5. Settled(<<Control("select", << >>)>>) BY <1>2, <2>4, ControlSettled
  <2> QED BY <2>2, <2>3, <2>5, SettledStep
<1>7. ASSUME OnDropExpr PROVE CompilerState'
  <2>1. AnyPlainHandler BY <1>7 DEF OnDropExpr, AnyPlainHandler
  <2>2. "drop" \in OpName \ (Jumps \union CallJumps) BY DEF OpName, Jumps, CallJumps
  <2>3. Settled(<<Control("drop", << >>)>>) BY <1>2, <2>2, ControlSettled
  <2> QED BY <1>7, <2>1, <2>3, HandlerStep DEF OnDropExpr
<1>8. ASSUME OnUnreachableExpr PROVE CompilerState'
  <2>1. AnyPlainHandler BY <1>8 DEF OnUnreachableExpr, AnyPlainHandler
  <2>2. "unreachable" \in OpName \ (Jumps \union CallJumps) BY DEF OpName, Jumps, CallJumps
  <2>3. Settled(<<Control("unreachable", << >>)>>) BY <1>2, <2>2, ControlSettled
  <2> QED BY <1>8, <2>1, <2>3, HandlerStep DEF OnUnreachableExpr
<1> QED BY <1>3, <1>4, <1>5, <1>6, <1>7, <1>8 DEF Plain

LEMMA CallExprStep ==
    ASSUME CompilerState, labels # << >>, UNCHANGED <<unit, current_func>>, ~failed', Call
    PROVE  CompilerState'
<1>1. HasLabel BY BothOpen
<1>2. << >> \in Seq(Int \union StackType) OBVIOUS
<1>3. {"return", "call_host", "call_indirect", "return_call_indirect"}
         \subseteq OpName \ (Jumps \union CallJumps)
  BY DEF OpName, Jumps, CallJumps
<1>4. Settled(<<Control("return", << >>)>>) BY <1>2, <1>3, ControlSettled
<1>5. ASSUME NEW f \in Funcs, OnCallExpr(f) \/ OnReturnCallExpr(f) PROVE CompilerState'
  <2>1. FuncTypeOf(f) \in FuncType BY ModuleTypes DEF CompilerState
  <2>2. AnyPlainHandler BY <1>5, <2>1 DEF OnCallExpr, OnReturnCallExpr, AnyPlainHandler
  <2>3. IndInv' /\ KindsKept BY <1>1, <2>2, PlainStep, PlainVerdict
  <2>4. {"call", "return_call"} \subseteq CallJumps BY DEF CallJumps
  <2>5. CASE OnCallExpr(f)
    <3>1. EmitCall("call", f, << >>) BY <2>5 DEF OnCallExpr, Unless
    <3> QED BY <2>3, <2>4, <3>1, NothingSettled, EmitCallStep
  <2>6. CASE OnReturnCallExpr(f)
    <3>1. EmitCall("return_call", f, ReturnCallDropKeep(type_stack, FuncTypeOf(f), 0))
      BY <2>6 DEF OnReturnCallExpr, Unless
    <3>2. Settled(ReturnCallDropKeep(type_stack, FuncTypeOf(f), 0)) BY <2>1, ReturnSettled
    <3> QED BY <2>3, <2>4, <3>1, <3>2, EmitCallStep
  <2> QED BY <1>5, <2>5, <2>6
<1>6. ASSUME NEW h \in DOMAIN HostFuncs, OnCallHostExpr(h) \/ OnReturnCallHostExpr(h)
      PROVE  CompilerState'
  <2>1. HostFuncs[h] \in FuncType /\ h \in Nat BY ModuleTypes DEF CompilerState
  <2>2. AnyPlainHandler BY <1>6, <2>1 DEF OnCallHostExpr, OnReturnCallHostExpr, AnyPlainHandler
  <2>3. <<h>> \in Seq(Int \union StackType) BY <2>1
  <2>4. CallHost(h) \in Instruction /\ CallHost(h).op = "call_host"
    BY <1>3, <2>3, ControlIsInstruction DEF CallHost
  <2>5. Settled(<<CallHost(h)>>) BY <1>3, <2>3, ControlSettled DEF CallHost
  <2>6. CASE OnCallHostExpr(h)
    BY <2>2, <2>5, <2>6, HandlerStep DEF OnCallHostExpr
  <2>7. CASE OnReturnCallHostExpr(h)
    <3> DEFINE keeps == ReturnCallDropKeep(type_stack, HostFuncs[h], 0)
               x == CallHost(h)
               y == Control("return", << >>)
    <3>1. Unless(Emit(keeps \o <<x, y>>)) BY <2>7 DEF OnReturnCallHostExpr
    <3>2. Settled(keeps) BY <2>1, ReturnSettled
    <3>3. y \in Instruction /\ y.op = "return" BY <1>2, <1>3, ControlIsInstruction
    <3>4. Settled(<<x, y>>) BY <1>3, <2>4, <3>3, TwoSettled
    <3> HIDE DEF keeps, x, y
    <3>5. Settled(keeps \o <<x, y>>) BY <3>2, <3>4, AppendSettled
    <3> QED BY <2>2, <3>1, <3>5, HandlerStep
  <2> QED BY <1>6, <2>6, <2>7
<1>7. ASSUME NEW ft \in unit.types, OnCallIndirectExpr(ft) \/ OnReturnCallIndirectExpr(ft)
      PROVE  CompilerState'
  <2>1. ft \in FuncType /\ ft.params \in TypeVector /\ ft.results \in TypeVector
    BY ModuleTypes DEF CompilerState
  <2>2. AnyPlainHandler
    BY <1>7, <2>1 DEF OnCallIndirectExpr, OnReturnCallIndirectExpr, AnyPlainHandler
  <2>3. /\ Settled(<<CallIndirect("call_indirect", ft)>>)
        /\ Settled(<<CallIndirect("return_call_indirect", ft)>>)
    BY <1>3, <2>1, PlainSettled DEF CallIndirect
  <2>4. CASE OnCallIndirectExpr(ft)
    BY <2>2, <2>3, <2>4, HandlerStep DEF OnCallIndirectExpr
  <2>5. CASE OnReturnCallIndirectExpr(ft)
    <3>1. Settled(ReturnCallDropKeep(type_stack, ft, 1)) BY <2>1, ReturnSettled
    <3>2. Settled(ReturnCallDropKeep(type_stack, ft, 1)
                    \o <<CallIndirect("return_call_indirect", ft)>>)
      BY <2>3, <3>1, AppendSettled
    <3> QED BY <2>2, <2>5, <3>2, HandlerStep DEF OnReturnCallIndirectExpr
  <2> QED BY <1>7, <2>4, <2>5
<1>8. ASSUME OnReturnExpr PROVE CompilerState'
  <2>1. AnyPlainHandler BY <1>8 DEF OnReturnExpr, AnyPlainHandler
  <2>2. Settled(ReturnDropKeep(type_stack, label_stack) \o <<Control("return", << >>)>>)
    BY <1>4, ReturnSettled, AppendSettled
  <2> QED BY <1>8, <2>1, <2>2, HandlerStep DEF OnReturnExpr
<1> QED BY <1>5, <1>6, <1>7, <1>8 DEF Call

-----------------------------------------------------------------------------
(* The blocks.                                                             *)

(* A label pushed with the branch of its own, if any, at the end of the code. *)
LEMMA PushStep ==
    ASSUME CompilerState, labels # << >>, UNCHANGED <<unit, current_func>>, ~failed',
           Len(label_stack') <= unit.max_labels,
           NEW kind \in {"block", "loop", "if"}, NEW cond \in TypeVector,
           NEW ft \in unit.types, OpenLabel(kind, cond, ft),
           NEW offset \in Offset, NEW fixup \in Offset, PushLabel(offset, fixup),
           offset # Invalid <=> kind = "loop",
           fixup # Invalid => kind = "if" /\ fixup > Len(istream),
           UNCHANGED <<depth_fixups, func_fixups, func_offset>>,
           istream' \in Code,
           \A p \in Nat : IsOpen(istream', Jumps, p) <=> IsOpen(istream, Jumps, p) \/ p = fixup,
           CallsPending'
    PROVE  CompilerState'
<1> DEFINE new == [offset |-> offset, fixup_offset |-> fixup]
           n == Len(labels)
<1>1. /\ HasLabel /\ Len(label_stack) = n /\ n \in Nat
      /\ DOMAIN labels = 1..n /\ DOMAIN label_stack = 1..n
      /\ labels \in Seq(CompilerLabel)
      /\ current_func # 0
      /\ DOMAIN istream = 1..Len(istream) /\ Len(istream) \in Nat
  BY BothOpen DEF CompilerState, Shapes
<1>2. ft \in FuncTypes /\ kind \in LabelType
  BY ModuleTypes DEF CompilerState, LabelType, BlockKind
<1>3. /\ IndInv'
      /\ DOMAIN label_stack' = 1..n + 1
      /\ \A i \in 1..n : label_stack'[i] = label_stack[i]
      /\ label_stack'[n + 1].label_type = kind
  BY <1>1, <1>2, OpenLabelStep, OpenVerdict
<1>4. Len(label_stack') = n + 1
  <2>1. label_stack' \in Seq(Label) BY <1>3 DEF IndInv, TypeOK
  <2> QED BY <1>1, <1>3, <2>1, DomainLength
<1>5. new \in CompilerLabel BY DEF CompilerLabel
<1>6. /\ labels' \in Seq(CompilerLabel)
      /\ Len(labels') = n + 1 /\ DOMAIN labels' = 1..n + 1
      /\ \A i \in 1..n : labels'[i] = labels[i]
      /\ labels'[n + 1] = new
  <2>1. labels' = Append(labels, new) BY DEF PushLabel
  <2> HIDE DEF new
  <2> QED BY <1>1, <1>5, <2>1
<1>7. \A i \in 1..n + 1 : i \in 1..n \/ i = n + 1 BY <1>1
<1>8. \A i \in 1..n : i \in 1..n + 1 /\ i # n + 1 BY <1>1
<1>9. new.offset = offset /\ new.fixup_offset = fixup OBVIOUS
<1> HIDE DEF new, n
<1>10. FuncLabels'
  <2>1. kind # "func" /\ n + 1 # 1 BY <1>1, BothOpen DEF n
  <2> QED BY <1>1, <1>3, <1>7, <2>1 DEF FuncLabels, CompilerState
<1>11. InStep'
  <2>1. ASSUME NEW i \in 1..n + 1
        PROVE  /\ labels'[i].offset # Invalid <=> label_stack'[i].label_type = "loop"
               /\ labels'[i].fixup_offset # Invalid
                     => label_stack'[i].label_type \in {"if", "else"}
    <3>1. CASE i \in 1..n BY <1>1, <1>3, <1>6, <3>1 DEF InStep, CompilerState
    <3>2. CASE i = n + 1 BY <1>3, <1>6, <1>9, <3>2
    <3> QED BY <1>7, <3>1, <3>2
  <2>2. Len(labels') = Len(label_stack') /\ Len(labels') <= unit'.max_labels
    BY <1>4, <1>6
  <2>3. current_func' # 0 BY <1>1
  <2> QED BY <1>6, <2>1, <2>2, <2>3 DEF InStep
<1>12. \A i \in 1..n : labels[i].fixup_offset \in Nat => labels[i].fixup_offset <= Len(istream)
  <2> TAKE i \in 1..n
  <2> HAVE labels[i].fixup_offset \in Nat
  <2>1. Remembered(labels[i].fixup_offset) BY <1>1 DEF Remembered
  <2>2. IsOpen(istream, Jumps, labels[i].fixup_offset)
    BY <2>1 DEF CompilerState, BranchesPending
  <2> QED BY <1>1, <2>2 DEF IsOpen
<1>13. \A q \in DOMAIN depth_fixups : \A p \in depth_fixups[q] : p \in Nat /\ p <= Len(istream)
  <2> TAKE q \in DOMAIN depth_fixups
  <2> TAKE p \in depth_fixups[q]
  <2>1. p \in Nat BY DEF CompilerState, Shapes
  <2>2. Remembered(p) BY DEF Remembered
  <2>3. IsOpen(istream, Jumps, p) BY <2>1, <2>2 DEF CompilerState, BranchesPending
  <2> QED BY <1>1, <2>1, <2>3 DEF IsOpen
<1>14. fixup = Invalid \/ fixup > Len(istream) OBVIOUS
<1>15. \A i \in 1..n : labels[i].fixup_offset \in Nat \/ labels[i].fixup_offset = Invalid
  <2>1. \A i \in 1..n : labels[i] \in CompilerLabel BY <1>1
  <2> QED BY <2>1 DEF CompilerLabel, Offset
<1>16. BranchesPending'
  <2>1. ASSUME NEW p \in Nat PROVE IsOpen(istream', Jumps, p) <=> (Remembered(p))'
    <3>1. (Remembered(p))' <=> Remembered(p) \/ p = fixup
      BY <1>1, <1>6, <1>7, <1>8, <1>9 DEF Remembered
    <3> QED BY <3>1 DEF CompilerState, BranchesPending
  <2>2. ASSUME NEW i \in 1..n + 1, NEW q \in DOMAIN depth_fixups
        PROVE  labels'[i].fixup_offset \notin depth_fixups[q]
    <3>1. CASE i \in 1..n BY <1>1, <1>6, <3>1 DEF BranchesPending, CompilerState
    <3>2. CASE i = n + 1
      <4>1. Invalid \notin Nat BY DEF Invalid
      <4>2. fixup \notin depth_fixups[q] BY <1>1, <1>13, <1>14, <4>1
      <4> QED BY <1>6, <1>9, <3>2, <4>2
    <3> QED BY <1>7, <3>1, <3>2
  <2>3. ASSUME NEW i \in 1..n, labels[i].fixup_offset = fixup PROVE fixup = Invalid
    BY <1>1, <1>12, <1>14, <1>15, <2>3
  <2>4. ASSUME NEW i \in 1..n + 1, NEW j \in 1..n + 1, i # j,
               labels'[i].fixup_offset = labels'[j].fixup_offset
        PROVE  labels'[i].fixup_offset = Invalid
    <3>1. CASE i \in 1..n /\ j \in 1..n
      BY <1>1, <1>6, <2>4, <3>1 DEF BranchesPending, CompilerState
    <3>2. CASE i \in 1..n /\ j = n + 1 BY <1>6, <1>9, <2>3, <2>4, <3>2
    <3>3. CASE i = n + 1 /\ j \in 1..n BY <1>6, <1>9, <2>3, <2>4, <3>3
    <3> QED BY <1>7, <2>4, <3>1, <3>2, <3>3
  <2>5. \A q \in DOMAIN depth_fixups : q > n + 1 => depth_fixups[q] = {}
    <3>1. DOMAIN depth_fixups \subseteq Nat BY DEF CompilerState, Shapes
    <3>2. \A q \in DOMAIN depth_fixups : q > n + 1 => q > n BY <1>1, <3>1
    <3> QED BY <3>2 DEF BranchesPending, CompilerState, n
  <2>6. \A q, r \in DOMAIN depth_fixups : \A p \in Nat :
          p \in depth_fixups[q] /\ p \in depth_fixups[r] => q = r
    BY DEF BranchesPending, CompilerState
  <2> QED BY <1>6, <2>1, <2>2, <2>4, <2>5, <2>6 DEF BranchesPending
<1>17. Shapes' BY <1>6 DEF Shapes, CompilerState, Funcs, DefinedFuncs
<1> QED BY <1>3, <1>10, <1>11, <1>16, <1>17 DEF CompilerState

(* A branch with a placeholder, appended. *)
LEMMA JumpAppended ==
    ASSUME NEW s \in Code, NEW i \in Instruction, i.op \in {"br", "br_unless"},
           i.args # << >>, i.args[1] = Invalid
    PROVE  /\ Append(s, i) \in Code
           /\ Len(Append(s, i)) = Len(s) + 1
           /\ \A p \in Nat : IsOpen(Append(s, i), Jumps, p)
                 <=> IsOpen(s, Jumps, p) \/ p = Len(s) + 1
           /\ \A p \in Nat : IsOpen(Append(s, i), CallJumps, p) <=> IsOpen(s, CallJumps, p)
           /\ \A p \in DOMAIN s : p \in DOMAIN Append(s, i) /\ Append(s, i)[p].op = s[p].op
<1> DEFINE t == Append(s, i)
<1>1. s \in Seq(Instruction) /\ Len(s) \in Nat /\ DOMAIN s = 1..Len(s) BY CodeIsSeq
<1>2. /\ t \in Seq(Instruction) /\ Len(t) = Len(s) + 1 /\ DOMAIN t = 1..Len(s) + 1
      /\ \A p \in 1..Len(s) : t[p] = s[p]
      /\ t[Len(s) + 1] = i
  BY <1>1
<1>3. /\ \A p \in 1..Len(s) + 1 : p \in 1..Len(s) \/ p = Len(s) + 1
      /\ \A p \in 1..Len(s) : p \in 1..Len(s) + 1 /\ p # Len(s) + 1
      /\ Len(s) + 1 \in 1..Len(s) + 1
  BY <1>1
<1> HIDE DEF t
<1>4. {"br", "br_unless"} \subseteq Jumps \ CallJumps BY DEF Jumps, CallJumps
<1>5. t \in Code BY <1>1, <1>2, <1>3 DEF Code
<1> QED BY <1>1, <1>2, <1>3, <1>4, <1>5 DEF IsOpen, t

LEMMA BlockExprStep ==
    ASSUME CompilerState, labels # << >>, UNCHANGED <<unit, current_func>>, ~failed',
           Len(label_stack') <= unit.max_labels,
           NEW kind \in {"block", "loop"}, NEW ft \in unit.types, OnBlockExpr(kind, ft)
    PROVE  CompilerState'
<1> DEFINE offset == IF kind = "loop" THEN Len(istream) ELSE Invalid
<1>1. /\ PushLabel(offset, Invalid)
      /\ UNCHANGED <<istream, depth_fixups, func_fixups, func_offset>>
      /\ OpenLabel(kind, << >>, ft)
  BY DEF OnBlockExpr, Unless, OnBlock
<1>2. Len(istream) \in Nat /\ istream \in Code BY BothOpen DEF CompilerState, Shapes
<1>3. offset \in Offset /\ (offset # Invalid <=> kind = "loop") /\ Invalid \in Offset
  BY <1>2 DEF Offset, Invalid
<1>4. \A p \in Nat : IsOpen(istream', Jumps, p) <=> IsOpen(istream, Jumps, p) \/ p = Invalid
  <2>1. Invalid \notin Nat BY DEF Invalid
  <2> QED BY <1>1, <2>1
<1>5. CallsPending' BY <1>1, SameCalls DEF CompilerState
<1>6. << >> \in TypeVector BY Literals
<1> HIDE DEF offset
<1> QED BY <1>1, <1>2, <1>3, <1>4, <1>5, <1>6, PushStep

LEMMA IfExprStep ==
    ASSUME CompilerState, labels # << >>, UNCHANGED <<unit, current_func>>, ~failed',
           Len(label_stack') <= unit.max_labels, NEW ft \in unit.types, OnIfExpr(ft)
    PROVE  CompilerState'
<1> DEFINE i == Control("br_unless", <<Invalid>>)
           here == Len(istream) + 1
<1>1. /\ istream' = Append(istream, i)
      /\ PushLabel(Invalid, here)
      /\ UNCHANGED <<depth_fixups, func_fixups, func_offset>>
      /\ OpenLabel("if", <<"i32">>, ft)
  BY DEF OnIfExpr, Unless, OnIf
<1>2. /\ Len(istream) \in Nat /\ istream \in Code /\ istream \in Seq(Instruction)
      /\ here \in Nat /\ here > Len(istream)
  BY BothOpen DEF CompilerState, Shapes, Code
<1>3. /\ i \in Instruction /\ i.op = "br_unless" /\ i.args # << >> /\ i.args[1] = Invalid
  <2>1. "br_unless" \in OpName BY DEF OpName, Jumps
  <2>2. Invalid \in Int BY DEF Invalid
  <2>3. <<Invalid>> \in Seq(Int \union StackType) BY <2>2
  <2>4. i \in Instruction /\ i.op = "br_unless" /\ i.args = <<Invalid>>
    BY <2>1, <2>3, ControlIsInstruction
  <2> HIDE DEF i
  <2> QED BY <2>4
<1> HIDE DEF i
<1>4. /\ istream' \in Code
      /\ \A p \in Nat : IsOpen(istream', Jumps, p) <=> IsOpen(istream, Jumps, p) \/ p = here
      /\ \A p \in Nat : IsOpen(istream', CallJumps, p) <=> IsOpen(istream, CallJumps, p)
      /\ \A p \in DOMAIN istream : p \in DOMAIN istream' /\ istream'[p].op = istream[p].op
  BY <1>1, <1>2, <1>3, JumpAppended
<1>5. CallsPending' BY <1>1, <1>4, SameCalls DEF CompilerState
<1>6. <<"i32">> \in TypeVector /\ Invalid \in Offset /\ here \in Offset
  BY <1>2, Literals DEF Offset
<1> HIDE DEF here
<1> QED BY <1>1, <1>2, <1>4, <1>5, <1>6, PushStep

(* What the lists remember is in the code there is. *)
LEMMA PositionsInCode ==
    ASSUME CompilerState
    PROVE  /\ \A q \in DOMAIN depth_fixups : \A p \in depth_fixups[q] :
                 p \in Nat /\ p <= Len(istream)
           /\ \A i \in DOMAIN labels :
                 /\ labels[i].fixup_offset \in Nat \/ labels[i].fixup_offset = Invalid
                 /\ labels[i].fixup_offset \in Nat => labels[i].fixup_offset <= Len(istream)
<1>1. Len(istream) \in Nat /\ DOMAIN istream = 1..Len(istream)
  BY CodeIsSeq DEF CompilerState, Shapes
<1>2. \A p \in Nat : Remembered(p) => p <= Len(istream)
  BY <1>1 DEF CompilerState, BranchesPending, IsOpen
<1>3. \A q \in DOMAIN depth_fixups : \A p \in depth_fixups[q] : p \in Nat
  BY DEF CompilerState, Shapes
<1>4. \A q \in DOMAIN depth_fixups : \A p \in depth_fixups[q] : p <= Len(istream)
  BY <1>2, <1>3 DEF Remembered
<1>5. \A i \in DOMAIN labels : labels[i] \in CompilerLabel
  BY DEF CompilerState, Shapes
<1>6. \A i \in DOMAIN labels : labels[i].fixup_offset \in Nat \/ labels[i].fixup_offset = Invalid
  BY <1>5 DEF CompilerLabel, Offset
<1>7. \A i \in DOMAIN labels :
         labels[i].fixup_offset \in Nat => labels[i].fixup_offset <= Len(istream)
  BY <1>2 DEF Remembered
<1> QED BY <1>3, <1>4, <1>6, <1>7

LEMMA ElseExprStep ==
    ASSUME CompilerState, labels # << >>, UNCHANGED <<unit, current_func>>, ~failed',
           OnElseExpr
    PROVE  CompilerState'
<1> DEFINE i == Control("br", <<Invalid>>)
           here == Len(istream) + 1
           n == Len(labels)
           fixup == labels[n].fixup_offset
           s == Append(istream, i)
<1>1. /\ istream' = EmitAt(s, {fixup}, here)
      /\ labels' = [labels EXCEPT ![n].fixup_offset = here]
      /\ UNCHANGED <<depth_fixups, func_fixups, func_offset>>
      /\ OnElse
  BY DEF OnElseExpr, Unless
<1>2. /\ Len(istream) \in Nat /\ istream \in Code
      /\ here \in Nat /\ here > Len(istream)
      /\ labels \in Seq(CompilerLabel) /\ DOMAIN labels = 1..n
      /\ n \in Nat \ {0} /\ n \in DOMAIN labels
      /\ HasLabel /\ Len(label_stack) = n /\ DOMAIN label_stack = 1..n
      /\ TopLabel = label_stack[n]
      /\ current_func # 0
  BY BothOpen DEF CompilerState, Shapes
<1>3. /\ i \in Instruction /\ i.op = "br" /\ i.args # << >> /\ i.args[1] = Invalid
  <2>1. "br" \in OpName BY DEF OpName, Jumps
  <2>2. Invalid \in Int BY DEF Invalid
  <2>3. <<Invalid>> \in Seq(Int \union StackType) BY <2>2
  <2>4. i \in Instruction /\ i.op = "br" /\ i.args = <<Invalid>>
    BY <2>1, <2>3, ControlIsInstruction
  <2> HIDE DEF i
  <2> QED BY <2>4
<1> HIDE DEF i
<1>4. /\ s \in Code
      /\ \A p \in Nat : IsOpen(s, Jumps, p) <=> IsOpen(istream, Jumps, p) \/ p = here
      /\ \A p \in Nat : IsOpen(s, CallJumps, p) <=> IsOpen(istream, CallJumps, p)
      /\ \A p \in DOMAIN istream : p \in DOMAIN s /\ s[p].op = istream[p].op
  BY <1>2, <1>3, JumpAppended
<1> HIDE DEF s
<1>5. /\ istream' \in Code
      /\ \A p \in Nat : IsOpen(istream', Jumps, p) <=> IsOpen(s, Jumps, p) /\ p # fixup
      /\ \A p \in Nat : IsOpen(istream', CallJumps, p) <=> IsOpen(s, CallJumps, p) /\ p # fixup
      /\ DOMAIN istream' = DOMAIN s
      /\ \A p \in DOMAIN s : istream'[p].op = s[p].op
  BY <1>1, <1>2, <1>4, PatchCode
<1>6. fixup # here
  <2>1. fixup \in Nat => fixup <= Len(istream) BY <1>2, PositionsInCode
  <2> QED BY <1>2, <2>1
<1>7. \A p \in Nat : IsOpen(istream, CallJumps, p) => p # fixup
  <2> SUFFICES ASSUME fixup \in Nat, IsOpen(istream, CallJumps, fixup) PROVE FALSE
    OBVIOUS
  <2>1. Remembered(fixup) BY <1>2 DEF Remembered
  <2>2. IsOpen(istream, Jumps, fixup) BY <2>1 DEF CompilerState, BranchesPending
  <2> QED BY <2>2, JumpsApart DEF IsOpen
<1>8. CallsPending'
  <2>1. \A p \in Nat : IsOpen(istream', CallJumps, p) <=> IsOpen(istream, CallJumps, p)
    BY <1>4, <1>5, <1>7
  <2>2. \A p \in DOMAIN istream : p \in DOMAIN istream' /\ istream'[p].op = istream[p].op
    BY <1>4, <1>5
  <2> QED BY <1>1, <2>1, <2>2, SameCalls DEF CompilerState
<1>9. /\ labels' \in Seq(CompilerLabel)
      /\ Len(labels') = n /\ DOMAIN labels' = 1..n
      /\ \A j \in 1..n : /\ labels'[j].offset = labels[j].offset
                         /\ j # n => labels'[j] = labels[j]
      /\ labels'[n].fixup_offset = here
  <2>1. labels[n] \in CompilerLabel BY <1>2
  <2> DEFINE new == [labels[n] EXCEPT !.fixup_offset = here]
  <2>2. here \in Offset BY <1>2 DEF Offset
  <2>3. new \in CompilerLabel /\ new.offset = labels[n].offset /\ new.fixup_offset = here
    BY <2>1, <2>2 DEF CompilerLabel
  <2>4. labels' = [labels EXCEPT ![n] = new] BY <1>1
  <2> HIDE DEF new, n
  <2> QED BY <1>2, <2>3, <2>4
<1>10. /\ IndInv'
       /\ DOMAIN label_stack' = 1..n
       /\ label_stack'[n].label_type = "else"
       /\ \A j \in 1..n : j # n => label_stack'[j] = label_stack[j]
       /\ label_stack[n].label_type = "if"
  <2>1. TopLabel.label_type = "if" BY <1>1, <1>2, TurnVerdict
  <2> QED BY <1>1, <1>2, <2>1, BlockStep, TurnVerdict
<1>11. Len(label_stack') = n
  <2>1. label_stack' \in Seq(Label) BY <1>10 DEF IndInv, TypeOK
  <2> QED BY <1>2, <1>10, <2>1, DomainLength
<1> HIDE DEF n, here, fixup
<1>12. FuncLabels'
  <2>1. n # 1
    <3>1. label_stack[n].label_type # "func" BY <1>10
    <3> QED BY <1>2, <3>1 DEF CompilerState, FuncLabels
  <2> QED BY <1>2, <1>10, <2>1 DEF FuncLabels, CompilerState
<1>13. InStep'
  <2>1. ASSUME NEW j \in 1..n
        PROVE  /\ labels'[j].offset # Invalid <=> label_stack'[j].label_type = "loop"
               /\ labels'[j].fixup_offset # Invalid
                     => label_stack'[j].label_type \in {"if", "else"}
    <3>1. /\ labels[j].offset # Invalid <=> label_stack[j].label_type = "loop"
          /\ labels[j].fixup_offset # Invalid => label_stack[j].label_type \in {"if", "else"}
      BY <1>2 DEF InStep, CompilerState
    <3>2. CASE j = n BY <1>9, <1>10, <3>1, <3>2
    <3>3. CASE j # n BY <1>9, <1>10, <3>1, <3>3
    <3> QED BY <3>2, <3>3
  <2>2. Len(labels') <= unit'.max_labels BY <1>9 DEF InStep, CompilerState, n
  <2> QED BY <1>2, <1>9, <1>11, <2>1, <2>2 DEF InStep
<1>14. BranchesPending'
  <2>1. \A j \in 1..n : labels'[j].fixup_offset = IF j = n THEN here ELSE labels[j].fixup_offset
    BY <1>9
  <2>2. \A q \in DOMAIN depth_fixups : fixup \notin depth_fixups[q] /\ here \notin depth_fixups[q]
    <3>1. \A q \in DOMAIN depth_fixups : fixup \notin depth_fixups[q]
      BY <1>2 DEF BranchesPending, CompilerState, fixup
    <3>2. \A q \in DOMAIN depth_fixups : here \notin depth_fixups[q]
      BY <1>2, PositionsInCode
    <3> QED BY <3>1, <3>2
  <2>3. \A j \in 1..n : labels[j].fixup_offset # here
    BY <1>2, PositionsInCode
  <2>4. \A j \in 1..n : j # n /\ labels[j].fixup_offset \in Nat => labels[j].fixup_offset # fixup
    <3>1. Invalid \notin Nat BY DEF Invalid
    <3> QED BY <1>2, <3>1 DEF BranchesPending, CompilerState, fixup
  <2>5. ASSUME NEW p \in Nat PROVE IsOpen(istream', Jumps, p) <=> (Remembered(p))'
    <3>1. IsOpen(istream', Jumps, p) <=> (Remembered(p) \/ p = here) /\ p # fixup
      BY <1>4, <1>5 DEF CompilerState, BranchesPending
    <3>2. Remembered(p) /\ p # fixup
            <=> \/ \E q \in DOMAIN depth_fixups : p \in depth_fixups[q]
                \/ \E j \in 1..n : j # n /\ labels[j].fixup_offset = p
      BY <1>2, <2>2, <2>4 DEF Remembered, fixup
    <3>3. (Remembered(p))'
            <=> \/ \E q \in DOMAIN depth_fixups : p \in depth_fixups[q]
                \/ \E j \in 1..n : labels'[j].fixup_offset = p
      BY <1>1, <1>9 DEF Remembered
    <3>4. (\E j \in 1..n : labels'[j].fixup_offset = p)
            <=> p = here \/ \E j \in 1..n : j # n /\ labels[j].fixup_offset = p
      BY <1>2, <2>1
    <3> QED BY <1>6, <3>1, <3>2, <3>3, <3>4
  <2>6. \A j \in 1..n : \A q \in DOMAIN depth_fixups :
          labels'[j].fixup_offset \notin depth_fixups[q]
    BY <1>2, <2>1, <2>2 DEF BranchesPending, CompilerState
  <2>7. \A j, k \in 1..n : (labels'[j].fixup_offset = labels'[k].fixup_offset /\ j # k)
                              => labels'[j].fixup_offset = Invalid
    BY <1>2, <2>1, <2>3 DEF BranchesPending, CompilerState
  <2>8. /\ \A q \in DOMAIN depth_fixups : q > n => depth_fixups[q] = {}
        /\ \A q, r \in DOMAIN depth_fixups : \A p \in Nat :
             p \in depth_fixups[q] /\ p \in depth_fixups[r] => q = r
    BY DEF BranchesPending, CompilerState, n
  <2>9. DOMAIN labels' = 1..n /\ Len(labels') = n /\ depth_fixups' = depth_fixups
    BY <1>1, <1>9
  <2> QED BY <2>5, <2>6, <2>7, <2>8, <2>9, Zenon DEF BranchesPending
<1>15. Shapes' BY <1>1, <1>5, <1>9 DEF Shapes, CompilerState, Funcs, DefinedFuncs
<1> QED BY <1>8, <1>10, <1>12, <1>13, <1>14, <1>15 DEF CompilerState

(* The top label goes when the branches to it, and its own, have been patched. *)
LEMMA PopBranches ==
    ASSUME CompilerState, labels # << >>, PopLabel, UNCHANGED unit,
           \A p \in Nat : IsOpen(istream', Jumps, p)
              <=> /\ IsOpen(istream, Jumps, p)
                  /\ p \notin depth_fixups[Len(labels)]
                  /\ p # labels[Len(labels)].fixup_offset
    PROVE  /\ BranchesPending'
           /\ labels' \in Seq(CompilerLabel)
           /\ Len(labels') = Len(labels) - 1
           /\ DOMAIN labels' = 1 .. Len(labels) - 1
           /\ \A i \in 1 .. Len(labels) - 1 : labels'[i] = labels[i]
           /\ depth_fixups' \in [1..unit.max_labels -> SUBSET Nat]
<1> DEFINE n == Len(labels)
<1>1. /\ labels \in Seq(CompilerLabel) /\ n \in Nat \ {0} /\ DOMAIN labels = 1..n
      /\ n \in DOMAIN labels /\ n \in DOMAIN depth_fixups
      /\ depth_fixups \in [1..unit.max_labels -> SUBSET Nat]
      /\ DOMAIN depth_fixups \subseteq Nat
  <2>1. /\ labels \in Seq(CompilerLabel) /\ n \in Nat \ {0} /\ DOMAIN labels = 1..n
        /\ depth_fixups \in [1..unit.max_labels -> SUBSET Nat]
        /\ n <= unit.max_labels /\ unit.max_labels \in Nat
    BY BothOpen DEF CompilerState, Shapes, InStep, Unit
  <2> HIDE DEF n
  <2>2. n \in 1..n /\ n \in 1..unit.max_labels BY <2>1
  <2> QED BY <2>1, <2>2
<1>2. /\ labels' = SubSeq(labels, 1, n - 1)
      /\ depth_fixups' = [q \in DOMAIN depth_fixups |-> IF q < n THEN depth_fixups[q] ELSE {}]
  BY DEF PopLabel
<1> HIDE DEF n
<1>3. /\ labels' \in Seq(CompilerLabel)
      /\ Len(labels') = n - 1
      /\ DOMAIN labels' = 1 .. n - 1
      /\ \A i \in 1 .. n - 1 : labels'[i] = labels[i]
  BY <1>1, <1>2
<1>4. /\ DOMAIN depth_fixups' = DOMAIN depth_fixups
      /\ depth_fixups' \in [1..unit.max_labels -> SUBSET Nat]
      /\ \A q \in DOMAIN depth_fixups :
            depth_fixups'[q] = IF q < n THEN depth_fixups[q] ELSE {}
  BY <1>1, <1>2
<1>5. /\ \A i \in 1..n : i \in 1 .. n - 1 <=> i # n
      /\ \A i \in 1 .. n - 1 : i \in 1..n
  BY <1>1
<1>6. ASSUME NEW p \in Nat PROVE IsOpen(istream', Jumps, p) <=> (Remembered(p))'
  <2>1. (Remembered(p))'
          <=> \/ \E q \in DOMAIN depth_fixups : q < n /\ p \in depth_fixups[q]
              \/ \E i \in 1 .. n - 1 : labels[i].fixup_offset = p
    BY <1>3, <1>4 DEF Remembered
  <2>2. IsOpen(istream', Jumps, p) <=> Remembered(p) /\ p \notin depth_fixups[n]
                                         /\ p # labels[n].fixup_offset
    BY DEF CompilerState, BranchesPending, n
  <2>3. (Remembered(p) /\ p \notin depth_fixups[n] /\ p # labels[n].fixup_offset)
           => (Remembered(p))'
    <3> SUFFICES ASSUME Remembered(p), p \notin depth_fixups[n], p # labels[n].fixup_offset
                 PROVE  (Remembered(p))'
      OBVIOUS
    <3>1. CASE \E q \in DOMAIN depth_fixups : p \in depth_fixups[q]
      <4>1. PICK q \in DOMAIN depth_fixups : p \in depth_fixups[q] BY <3>1
      <4>2. ~(q > n) BY <4>1 DEF CompilerState, BranchesPending, n
      <4>3. q # n BY <4>1
      <4>4. q < n BY <1>1, <4>2, <4>3
      <4> QED BY <2>1, <4>1, <4>4
    <3>2. CASE \E i \in DOMAIN labels : labels[i].fixup_offset = p
      <4>1. PICK i \in 1..n : labels[i].fixup_offset = p BY <1>1, <3>2
      <4>2. i \in 1 .. n - 1 BY <1>5, <4>1
      <4> QED BY <2>1, <4>1, <4>2
    <3> QED BY <3>1, <3>2 DEF Remembered
  <2>4. (Remembered(p))' => Remembered(p) /\ p \notin depth_fixups[n]
                              /\ p # labels[n].fixup_offset
    <3>1. CASE \E q \in DOMAIN depth_fixups : q < n /\ p \in depth_fixups[q]
      <4>1. PICK q \in DOMAIN depth_fixups : q < n /\ p \in depth_fixups[q] BY <3>1
      <4>2. q # n BY <1>1, <4>1
      <4> QED BY <1>1, <4>1, <4>2 DEF CompilerState, BranchesPending, Remembered
    <3>2. CASE \E i \in 1 .. n - 1 : labels[i].fixup_offset = p
      <4>1. PICK i \in 1 .. n - 1 : labels[i].fixup_offset = p BY <3>2
      <4>2. i \in 1..n /\ i # n BY <1>5, <4>1
      <4>3. p # Invalid BY DEF Invalid
      <4> QED BY <1>1, <4>1, <4>2, <4>3 DEF CompilerState, BranchesPending, Remembered
    <3> QED BY <2>1, <3>1, <3>2
  <2> QED BY <2>2, <2>3, <2>4
<1>7. \A q, r \in DOMAIN depth_fixups : \A p \in Nat :
         p \in depth_fixups'[q] /\ p \in depth_fixups'[r] => q = r
  BY <1>4 DEF CompilerState, BranchesPending
<1>8. \A i \in 1 .. n - 1 : \A q \in DOMAIN depth_fixups :
         labels[i].fixup_offset \notin depth_fixups'[q]
  BY <1>1, <1>4, <1>5 DEF CompilerState, BranchesPending
<1>9. \A i, j \in 1 .. n - 1 : (labels[i].fixup_offset = labels[j].fixup_offset /\ i # j)
                                  => labels[i].fixup_offset = Invalid
  BY <1>1, <1>5 DEF CompilerState, BranchesPending
<1>10. \A q \in DOMAIN depth_fixups : q > n - 1 => depth_fixups'[q] = {}
  <2>1. \A q \in DOMAIN depth_fixups : q > n - 1 => ~(q < n) BY <1>1
  <2> QED BY <1>4, <2>1
<1>11. BranchesPending'
  BY <1>3, <1>4, <1>6, <1>7, <1>8, <1>9, <1>10 DEF BranchesPending
<1> QED BY <1>3, <1>4, <1>11 DEF n

(* No call is among what the branches' lists remember. *)
LEMMA CallsApart ==
    ASSUME CompilerState, NEW p \in Nat, IsOpen(istream, CallJumps, p)
    PROVE  ~Remembered(p)
<1>1. ~IsOpen(istream, Jumps, p) BY JumpsApart DEF IsOpen
<1> QED BY <1>1 DEF CompilerState, BranchesPending

(* The label stacks after the top of both has gone. *)
LEMMA PopInStep ==
    ASSUME CompilerState, labels # << >>, UNCHANGED unit, current_func' # 0 \/ labels' = << >>,
           IndInv', DOMAIN label_stack' = 1 .. Len(label_stack) - 1,
           \A i \in DOMAIN label_stack' : label_stack'[i] = label_stack[i],
           labels' \in Seq(CompilerLabel), Len(labels') = Len(labels) - 1,
           \A i \in 1 .. Len(labels) - 1 : labels'[i] = labels[i]
    PROVE  FuncLabels' /\ InStep'
<1> DEFINE n == Len(labels)
<1>1. /\ n \in Nat \ {0} /\ Len(label_stack) = n
      /\ DOMAIN labels = 1..n /\ DOMAIN label_stack = 1..n
      /\ n <= unit.max_labels /\ unit.max_labels \in Nat
  BY BothOpen DEF CompilerState, InStep, Shapes, Unit
<1>2. label_stack' \in Seq(Label) BY DEF IndInv, TypeOK
<1> HIDE DEF n
<1>3. n - 1 \in Nat /\ n - 1 <= unit.max_labels BY <1>1
<1>4. Len(label_stack') = n - 1 BY <1>1, <1>2, <1>3, DomainLength
<1>5. \A i \in 1 .. n - 1 : i \in 1..n BY <1>1
<1>6. FuncLabels' BY <1>1, <1>5 DEF FuncLabels, CompilerState
<1>7. DOMAIN labels' = 1 .. n - 1 /\ Len(labels') = n - 1 BY DEF n
<1>8. \A i \in 1 .. n - 1 : labels'[i] = labels[i] /\ label_stack'[i] = label_stack[i]
  BY <1>1 DEF n
<1>9. \A i \in 1 .. n - 1 :
         /\ labels[i].offset # Invalid <=> label_stack[i].label_type = "loop"
         /\ labels[i].fixup_offset # Invalid => label_stack[i].label_type \in {"if", "else"}
  BY <1>1, <1>5 DEF InStep, CompilerState
<1> QED BY <1>3, <1>4, <1>6, <1>7, <1>8, <1>9 DEF InStep

LEMMA EndExprStep ==
    ASSUME CompilerState, labels # << >>, UNCHANGED <<unit, current_func>>, ~failed',
           OnEndExpr
    PROVE  CompilerState'
<1> DEFINE n == Len(labels)
           fixup == labels[n].fixup_offset
           isIf == TopLabel.label_type \in {"if", "else"}
           patched == IF isIf THEN EmitAt(istream, {fixup}, Len(istream)) ELSE istream
<1>1. /\ OnEnd /\ PopLabel /\ UNCHANGED <<func_fixups, func_offset>>
      /\ istream' = EmitAt(patched, depth_fixups[n], Len(patched))
  BY DEF OnEndExpr, Unless, FixupTopLabel
<1>2. /\ Len(istream) \in Nat /\ istream \in Code
      /\ DOMAIN labels = 1..n /\ n \in Nat \ {0}
      /\ HasLabel /\ Len(label_stack) = n /\ DOMAIN label_stack = 1..n
      /\ TopLabel = label_stack[n]
      /\ current_func # 0
  BY BothOpen DEF CompilerState, Shapes
<1>3. n \in 1..n /\ n \in DOMAIN labels BY <1>2
<1>4. /\ patched \in Code /\ Len(patched) = Len(istream)
      /\ DOMAIN patched = DOMAIN istream
      /\ \A p \in DOMAIN istream : patched[p].op = istream[p].op
      /\ \A p \in Nat :
            /\ IsOpen(patched, Jumps, p) <=> IsOpen(istream, Jumps, p) /\ p # fixup
            /\ IsOpen(patched, CallJumps, p) <=> IsOpen(istream, CallJumps, p) /\ (p = fixup => ~isIf)
  <2>1. CASE isIf
    <3>1. patched = EmitAt(istream, {fixup}, Len(istream)) BY <2>1
    <3> HIDE DEF patched, fixup
    <3> QED BY <1>2, <2>1, <3>1, PatchCode
  <2>2. CASE ~isIf
    <3>1. fixup = Invalid BY <1>2, <1>3, <2>2 DEF InStep, CompilerState
    <3>2. Invalid \notin Nat BY DEF Invalid
    <3> QED BY <1>2, <2>2, <3>1, <3>2
  <2> QED BY <2>1, <2>2
<1> HIDE DEF patched, fixup, n, isIf
<1>5. /\ istream' \in Code
      /\ DOMAIN istream' = DOMAIN istream
      /\ \A p \in DOMAIN istream : istream'[p].op = istream[p].op
      /\ \A p \in Nat :
            /\ IsOpen(istream', Jumps, p)
                 <=> IsOpen(istream, Jumps, p) /\ p # fixup /\ p \notin depth_fixups[n]
            /\ IsOpen(istream', CallJumps, p)
                 <=> IsOpen(istream, CallJumps, p) /\ (p = fixup => ~isIf)
                       /\ p \notin depth_fixups[n]
  <2>1. Len(patched) \in Nat BY <1>2, <1>4
  <2>2. /\ istream' \in Code
        /\ DOMAIN istream' = DOMAIN patched
        /\ \A p \in DOMAIN patched : istream'[p].op = patched[p].op
        /\ \A p \in Nat :
              /\ IsOpen(istream', Jumps, p)
                   <=> IsOpen(patched, Jumps, p) /\ p \notin depth_fixups[n]
              /\ IsOpen(istream', CallJumps, p)
                   <=> IsOpen(patched, CallJumps, p) /\ p \notin depth_fixups[n]
    BY <1>1, <1>4, <2>1, PatchCode
  <2> QED BY <1>4, <2>2
<1>6. /\ BranchesPending'
      /\ labels' \in Seq(CompilerLabel)
      /\ Len(labels') = n - 1
      /\ \A i \in 1 .. n - 1 : labels'[i] = labels[i]
      /\ depth_fixups' \in [1..unit.max_labels -> SUBSET Nat]
  BY <1>1, <1>5, PopBranches DEF n, fixup
<1>7. n \in DOMAIN depth_fixups
  <2>1. n <= unit.max_labels /\ unit.max_labels \in Nat /\ DOMAIN depth_fixups = 1..unit.max_labels
    BY DEF InStep, CompilerState, Shapes, Unit, n
  <2> QED BY <1>2, <2>1
<1>8. CallsPending'
  <2>1. ASSUME NEW p \in Nat
        PROVE  IsOpen(istream', CallJumps, p) <=> IsOpen(istream, CallJumps, p)
    <3>1. p \in depth_fixups[n] \/ p = fixup => Remembered(p)
      BY <1>3, <1>7 DEF Remembered, fixup
    <3> QED BY <1>5, <3>1, CallsApart
  <2>2. \A p \in DOMAIN istream : p \in DOMAIN istream' /\ istream'[p].op = istream[p].op
    BY <1>5
  <2> QED BY <1>1, <2>1, <2>2, SameCalls DEF CompilerState
<1>9. /\ IndInv'
      /\ DOMAIN label_stack' = 1 .. Len(label_stack) - 1
      /\ \A i \in DOMAIN label_stack' : label_stack'[i] = label_stack[i]
  <2>1. IndInv' BY <1>1, <1>2, BlockStep
  <2> QED BY <1>1, <1>2, <2>1, EndVerdict
<1>10. FuncLabels' /\ InStep' BY <1>2, <1>6, <1>9, PopInStep DEF n
<1>11. Shapes' BY <1>1, <1>5, <1>6 DEF Shapes, CompilerState, Funcs, DefinedFuncs
<1> QED BY <1>6, <1>8, <1>9, <1>10, <1>11 DEF CompilerState

-----------------------------------------------------------------------------
(* The functions.                                                          *)

(* Code that jumps nowhere leaves the placeholders there are. *)
LEMMA AppendNothingOpen ==
    ASSUME NEW s \in Code, NEW c, Settled(c)
    PROVE  /\ s \o c \in Code
           /\ \A p \in Nat : /\ IsOpen(s \o c, Jumps, p) <=> IsOpen(s, Jumps, p)
                             /\ IsOpen(s \o c, CallJumps, p) <=> IsOpen(s, CallJumps, p)
           /\ \A p \in DOMAIN s : p \in DOMAIN (s \o c) /\ (s \o c)[p].op = s[p].op
<1>1. c \in Code /\ Len(s) \in Nat BY CodeIsSeq DEF Settled
<1>2. ASSUME NEW p \in Nat
      PROVE  /\ ~(p > Len(s) /\ IsOpen(c, Jumps, p - Len(s)))
             /\ ~(p > Len(s) /\ IsOpen(c, CallJumps, p - Len(s)))
  <2>1. p > Len(s) => p - Len(s) \in Nat BY <1>1
  <2> QED BY <2>1 DEF Settled, IsOpen
<1> QED BY <1>1, <1>2, AppendCode

LEMMA EndFunctionStep ==
    ASSUME CompilerState, labels # << >>, UNCHANGED unit, ~failed', EndFunctionBody
    PROVE  CompilerState'
<1> DEFINE code == ReturnDropKeep(type_stack, label_stack) \o <<Control("return", << >>)>>
           patched == EmitAt(istream, depth_fixups[1], Len(istream))
<1>1. /\ EndFunction /\ PopLabel /\ UNCHANGED <<func_fixups, func_offset>>
      /\ istream' = EmitAt(istream, depth_fixups[Len(labels)], Len(istream)) \o code
      /\ current_func' = 0
  BY DEF EndFunctionBody, Unless, FixupTopLabel
<1>2. /\ Len(istream) \in Nat /\ istream \in Code
      /\ DOMAIN labels = 1..Len(labels) /\ Len(labels) \in Nat \ {0}
      /\ HasLabel /\ Len(label_stack) = Len(labels) /\ DOMAIN label_stack = 1..Len(labels)
      /\ TopLabel = label_stack[Len(labels)]
      /\ Len(label_stack) \in DOMAIN label_stack
  <2>1. Len(labels) \in Nat \ {0} BY BothOpen
  <2>2. Len(labels) \in 1..Len(labels) BY <2>1
  <2> QED BY <2>2, BothOpen DEF CompilerState, Shapes
<1>3. TopLabel.label_type = "func"
  <2>1. (TopLabel.label_type = "func") \in BOOLEAN OBVIOUS
  <2>2. CloseLabel(type_stack, TopLabel, TopLabel.label_type = "func") BY <1>1 DEF EndFunction
  <2> QED BY <1>2, <2>1, <2>2, CloseVerdict
<1>4. Len(labels) = 1 /\ Len(label_stack) = 1
  BY <1>2, <1>3 DEF FuncLabels, CompilerState
<1>5. /\ IndInv'
      /\ DOMAIN label_stack' = 1 .. Len(label_stack) - 1
      /\ \A i \in DOMAIN label_stack' : label_stack'[i] = label_stack[i]
  <2>1. IndInv' BY <1>1, <1>2, BlockStep
  <2>2. (TopLabel.label_type = "func") \in BOOLEAN OBVIOUS
  <2>3. CloseLabel(type_stack, TopLabel, TopLabel.label_type = "func") BY <1>1 DEF EndFunction
  <2> QED BY <1>2, <2>1, <2>2, <2>3, CloseVerdict
<1>6. Settled(code)
  <2>1. << >> \in Seq(Int \union StackType) OBVIOUS
  <2>2. "return" \in OpName \ (Jumps \union CallJumps) BY DEF OpName, Jumps, CallJumps
  <2> QED BY <2>1, <2>2, ControlSettled, ReturnSettled, AppendSettled
<1> HIDE DEF code
<1>7. istream' = patched \o code BY <1>1, <1>4
<1>8. labels[1].fixup_offset = Invalid
  BY <1>2, <1>3, <1>4 DEF InStep, CompilerState
<1>9. /\ patched \in Code
      /\ DOMAIN patched = DOMAIN istream
      /\ \A p \in DOMAIN istream : patched[p].op = istream[p].op
      /\ \A p \in Nat :
            /\ IsOpen(patched, Jumps, p) <=> IsOpen(istream, Jumps, p) /\ p \notin depth_fixups[1]
            /\ IsOpen(patched, CallJumps, p)
                 <=> IsOpen(istream, CallJumps, p) /\ p \notin depth_fixups[1]
  <2> HIDE DEF patched
  <2>1. patched = EmitAt(istream, depth_fixups[1], Len(istream)) BY DEF patched
  <2> QED BY <1>2, <2>1, PatchCode
<1> HIDE DEF patched
<1>10. /\ istream' \in Code
       /\ \A p \in DOMAIN istream : p \in DOMAIN istream' /\ istream'[p].op = istream[p].op
       /\ \A p \in Nat :
             /\ IsOpen(istream', Jumps, p) <=> IsOpen(istream, Jumps, p) /\ p \notin depth_fixups[1]
             /\ IsOpen(istream', CallJumps, p)
                  <=> IsOpen(istream, CallJumps, p) /\ p \notin depth_fixups[1]
  BY <1>6, <1>7, <1>9, AppendNothingOpen
<1>11. /\ BranchesPending'
       /\ labels' \in Seq(CompilerLabel)
       /\ Len(labels') = Len(labels) - 1
       /\ \A i \in 1 .. Len(labels) - 1 : labels'[i] = labels[i]
       /\ depth_fixups' \in [1..unit.max_labels -> SUBSET Nat]
  <2>1. \A p \in Nat : p # Invalid BY DEF Invalid
  <2>2. \A p \in Nat : IsOpen(istream', Jumps, p)
           <=> /\ IsOpen(istream, Jumps, p)
               /\ p \notin depth_fixups[Len(labels)]
               /\ p # labels[Len(labels)].fixup_offset
    BY <1>4, <1>8, <1>10, <2>1
  <2> QED BY <1>1, <2>2, PopBranches
<1>12. labels' = << >>
  <2>1. Len(labels') = 0 BY <1>4, <1>11
  <2> QED BY <1>11, <2>1
<1>13. 1 \in DOMAIN depth_fixups
  <2>1. Len(labels) <= unit.max_labels /\ unit.max_labels \in Nat
        /\ DOMAIN depth_fixups = 1..unit.max_labels
    BY DEF InStep, CompilerState, Shapes, Unit
  <2> QED BY <1>4, <2>1
<1>14. CallsPending'
  <2>1. ASSUME NEW p \in Nat
        PROVE  IsOpen(istream', CallJumps, p) <=> IsOpen(istream, CallJumps, p)
    <3>1. p \in depth_fixups[1] => Remembered(p) BY <1>13 DEF Remembered
    <3> QED BY <1>10, <3>1, CallsApart
  <2> QED BY <1>1, <1>10, <2>1, SameCalls DEF CompilerState
<1>15. FuncLabels' /\ InStep' BY <1>5, <1>11, <1>12, PopInStep
<1>16. Shapes' BY <1>1, <1>10, <1>11 DEF Shapes, CompilerState, Funcs, DefinedFuncs
<1> QED BY <1>5, <1>11, <1>14, <1>15, <1>16 DEF CompilerState

LEMMA BeginFunctionBodyStep ==
    ASSUME CompilerState, UNCHANGED unit, Len(label_stack') <= unit.max_labels,
           NEW f \in Funcs, BeginFunctionBody(f)
    PROVE  CompilerState'
<1> DEFINE locals == DefinedFuncs[f].locals
           code == IF locals = << >> THEN << >> ELSE <<Control("alloca", locals)>>
           patched == EmitAt(istream, func_fixups[f], Len(istream))
           first == [offset |-> Invalid, fixup_offset |-> Invalid]
<1>1. /\ BeginFunction(FuncTypeOf(f))
      /\ current_func = 0 /\ current_func' = f
      /\ func_offset[f] = Invalid
      /\ func_offset' = [func_offset EXCEPT ![f] = Len(istream)]
      /\ istream' = patched \o code
      /\ labels' = <<first>>
      /\ depth_fixups' = NoFixups
      /\ UNCHANGED func_fixups
  BY DEF BeginFunctionBody
<1>2. /\ Len(istream) \in Nat /\ istream \in Code
      /\ Funcs \subseteq Nat \ {0}
      /\ locals \in TypeVector
      /\ FuncTypeOf(f) \in FuncType
      /\ Len(istream) # Invalid
  <2>1. /\ Len(istream) \in Nat /\ istream \in Code
        /\ locals \in TypeVector /\ FuncTypeOf(f) \in FuncType
    BY CodeIsSeq, ModuleTypes DEF CompilerState, Shapes
  <2>2. Funcs \subseteq Nat \ {0}
    <3>1. unit.funcs \in Seq([params : TypeVector, results : TypeVector, locals : TypeVector])
      BY DEF CompilerState, Shapes, Unit
    <3> DEFINE R == [params : TypeVector, results : TypeVector, locals : TypeVector]
    <3> HIDE DEF R
    <3>2. DefinedFuncs \in Seq(R) BY <3>1 DEF R, DefinedFuncs
    <3> QED BY <3>2 DEF Funcs
  <2>3. Len(istream) # Invalid BY <2>1 DEF Invalid
  <2> QED BY <2>1, <2>2, <2>3
<1>3. Settled(code)
  <2>1. locals \in Seq(Int \union StackType) BY <1>2, ModuleTypes DEF TypeVector, CompilerState
  <2>2. "alloca" \in OpName \ (Jumps \union CallJumps) BY DEF OpName, Jumps, CallJumps
  <2>3. Settled(<<Control("alloca", locals)>>) BY <2>1, <2>2, ControlSettled
  <2> HIDE DEF locals
  <2> QED BY <2>3, NothingSettled
<1> HIDE DEF locals, code
<1>4. /\ istream' \in Code
      /\ \A p \in DOMAIN istream : p \in DOMAIN istream' /\ istream'[p].op = istream[p].op
      /\ \A p \in Nat :
            /\ IsOpen(istream', Jumps, p) <=> IsOpen(istream, Jumps, p) /\ p \notin func_fixups[f]
            /\ IsOpen(istream', CallJumps, p)
                 <=> IsOpen(istream, CallJumps, p) /\ p \notin func_fixups[f]
  <2> HIDE DEF patched
  <2>1. patched = EmitAt(istream, func_fixups[f], Len(istream)) BY DEF patched
  <2>2. /\ patched \in Code
        /\ DOMAIN patched = DOMAIN istream
        /\ \A p \in DOMAIN istream : patched[p].op = istream[p].op
        /\ \A p \in Nat :
              /\ IsOpen(patched, Jumps, p) <=> IsOpen(istream, Jumps, p) /\ p \notin func_fixups[f]
              /\ IsOpen(patched, CallJumps, p)
                   <=> IsOpen(istream, CallJumps, p) /\ p \notin func_fixups[f]
    BY <1>2, <2>1, PatchCode
  <2> QED BY <1>1, <1>3, <2>2, AppendNothingOpen
<1> HIDE DEF patched
<1>5. IndInv' BY <1>1, <1>2, BeginFunctionStep DEF CompilerState
<1>6. /\ Len(label_stack') = 1 /\ DOMAIN label_stack' = {1}
      /\ label_stack'[1].label_type = "func"
  BY <1>1 DEF BeginFunction, NewLabel
<1>7. /\ Len(labels') = 1 /\ DOMAIN labels' = {1} /\ labels'[1] = first
      /\ labels' \in Seq(CompilerLabel)
  <2>1. first \in CompilerLabel BY DEF CompilerLabel, Offset
  <2> HIDE DEF first
  <2> QED BY <1>1, <2>1
<1>8. first.offset = Invalid /\ first.fixup_offset = Invalid OBVIOUS
<1> HIDE DEF first
<1>9. FuncLabels' BY <1>6 DEF FuncLabels
<1>10. InStep' BY <1>1, <1>2, <1>6, <1>7, <1>8 DEF InStep
<1>11. \A p \in Nat : ~Remembered(p)
  <2>1. labels = << >> BY <1>1 DEF CompilerState, InStep
  <2>2. Len(labels) = 0 /\ DOMAIN labels = {} BY <2>1
  <2>3. DOMAIN depth_fixups \subseteq Nat \ {0}
    <3>1. DOMAIN depth_fixups = 1..unit.max_labels /\ unit.max_labels \in Nat
      BY DEF CompilerState, Shapes, Unit
    <3> QED BY <3>1
  <2>4. \A q \in DOMAIN depth_fixups : q > Len(labels) BY <2>2, <2>3
  <2>5. \A q \in DOMAIN depth_fixups : depth_fixups[q] = {}
    BY <2>4 DEF CompilerState, BranchesPending
  <2> QED BY <2>2, <2>5 DEF Remembered
<1>12. /\ depth_fixups' \in [1..unit.max_labels -> SUBSET Nat]
       /\ \A q \in DOMAIN depth_fixups' : depth_fixups'[q] = {}
  BY <1>1 DEF NoFixups
<1>13. \A p \in Nat : p # Invalid BY DEF Invalid
<1>14. BranchesPending'
  <2>1. \A p \in Nat : ~IsOpen(istream', Jumps, p)
    BY <1>4, <1>11 DEF CompilerState, BranchesPending
  <2>2. \A p \in Nat : ~(Remembered(p))'
    BY <1>7, <1>8, <1>12, <1>13 DEF Remembered
  <2> QED BY <1>7, <1>8, <1>12, <2>1, <2>2 DEF BranchesPending
<1>15. Funcs' = Funcs BY DEF Funcs, DefinedFuncs
<1>16. /\ func_offset' \in [Funcs -> Offset]
       /\ \A g \in Funcs : func_offset'[g] = IF g = f THEN Len(istream) ELSE func_offset[g]
  BY <1>1, <1>2 DEF CompilerState, Shapes, Offset
<1>17. CallsPending'
  <2>1. ASSUME NEW p \in Nat PROVE (Awaited(p))' <=> Awaited(p) /\ p \notin func_fixups[f]
    <3>1. (Awaited(p))' <=> \E g \in Funcs : g # f /\ func_offset[g] = Invalid /\ p \in func_fixups[g]
      BY <1>1, <1>2, <1>15, <1>16 DEF Awaited
    <3> QED BY <1>1, <3>1 DEF Awaited, CompilerState, CallsPending
  <2>2. \A p \in Nat : IsOpen(istream', CallJumps, p) <=> (Awaited(p))'
    BY <1>4, <2>1 DEF CompilerState, CallsPending
  <2>3. \A g \in Funcs : \A p \in func_fixups[g] :
           p \in DOMAIN istream' /\ istream'[p].op \in CallJumps
    BY <1>4 DEF CompilerState, CallsPending
  <2>4. \A g, h \in Funcs : \A p \in Nat :
           p \in func_fixups[g] /\ p \in func_fixups[h] => g = h
    BY DEF CompilerState, CallsPending
  <2> QED BY <1>1, <1>15, <2>2, <2>3, <2>4 DEF CallsPending
<1>18. Shapes'
  BY <1>1, <1>4, <1>7, <1>12, <1>15, <1>16 DEF Shapes, CompilerState
<1> QED BY <1>5, <1>9, <1>10, <1>14, <1>17, <1>18 DEF CompilerState

-----------------------------------------------------------------------------
(* Every step.                                                             *)

LEMMA CompilerStart ==
    ASSUME CompilerInit
    PROVE  CompilerInv
<1>1. /\ unit \in Units /\ unit \in Unit
      /\ type_stack = << >> /\ label_stack = << >>
      /\ istream = << >> /\ labels = << >> /\ current_func = 0
      /\ depth_fixups = NoFixups
      /\ func_fixups = [f \in Funcs |-> {}]
      /\ func_offset = [f \in Funcs |-> Invalid]
      /\ failed = FALSE /\ printed = FALSE
  BY CompilerAssumption DEF CompilerInit, Init
<1>2. /\ istream \in Code /\ DOMAIN istream = {}
      /\ Len(labels) = 0 /\ DOMAIN labels = {} /\ labels \in Seq(CompilerLabel)
      /\ Len(label_stack) = 0 /\ DOMAIN label_stack = {}
      /\ unit.max_labels \in Nat
  BY <1>1, NothingSettled DEF Settled, Unit
<1>3. IndInv /\ FuncLabels
  <2>1. type_stack \in TypeVector /\ label_stack \in Seq(Label)
    BY <1>1, Literals
  <2>2. TypeOK BY <1>1, <2>1 DEF TypeOK
  <2>3. LabelsNested BY <1>1, <1>2 DEF LabelsNested
  <2> QED BY <1>2, <2>2, <2>3 DEF IndInv, FuncLabels
<1>4. /\ depth_fixups \in [1..unit.max_labels -> SUBSET Nat]
      /\ \A q \in DOMAIN depth_fixups : depth_fixups[q] = {}
  BY <1>1 DEF NoFixups
<1>5. Shapes BY <1>1, <1>2, <1>4 DEF Shapes, Offset
<1>6. InStep BY <1>1, <1>2 DEF InStep
<1>7. BranchesPending BY <1>1, <1>2, <1>4 DEF BranchesPending, Remembered, IsOpen
<1>8. CallsPending BY <1>1, <1>2 DEF CallsPending, Awaited, IsOpen
<1> QED BY <1>1, <1>3, <1>5, <1>6, <1>7, <1>8 DEF CompilerInv, CompilerState

LEMMA BranchExprStep ==
    ASSUME CompilerState, labels # << >>, UNCHANGED <<unit, current_func>>, ~failed', Branch
    PROVE  CompilerState'
<1>1. unit.max_depth \in Nat BY DEF CompilerState, Shapes, Unit
<1>2. PICK depth \in 0..unit.max_depth :
         \/ OnBrExpr(depth) \/ OnBrIfExpr(depth)
         \/ \E other \in 0..unit.max_depth : OnBrTableExpr(<<depth, other>>)
  BY DEF Branch
<1>3. depth \in Nat /\ \A other \in 0..unit.max_depth : other \in Nat BY <1>1
<1> QED BY <1>2, <1>3, BrExprStep, BrIfExprStep, BrTableExprStep

LEMMA BlocksStep ==
    ASSUME CompilerState, labels # << >>, UNCHANGED <<unit, current_func>>, ~failed',
           Len(label_stack') <= unit.max_labels, Block
    PROVE  CompilerState'
BY BlockExprStep, IfExprStep, ElseExprStep, EndExprStep DEF Block

LEMMA CompilerStep ==
    ASSUME CompilerInv, CompilerNext
    PROVE  CompilerInv'
<1>1. UNCHANGED unit /\ Len(label_stack') <= unit.max_labels BY DEF CompilerNext
<1>2. ASSUME ~failed' PROVE CompilerState'
  <2>1. CASE ~failed /\ \E f \in Funcs : BeginFunctionBody(f)
    BY <1>1, <2>1, BeginFunctionBodyStep DEF CompilerInv
  <2>2. CASE ReadInstr
    <3>1. ~UnexpectedOpcode BY <1>2 DEF UnexpectedOpcode
    <3>2. /\ CompilerState /\ labels # << >>
          /\ Branch \/ Block \/ Call \/ Plain
          /\ UNCHANGED <<unit, current_func>>
      BY <1>1, <2>2, <3>1 DEF ReadInstr, CompilerInv
    <3> QED BY <1>1, <1>2, <3>2, BranchExprStep, BlocksStep, CallExprStep, PlainExprStep
  <2>3. CASE ReadLastEnd
    <3>1. ~UnexpectedOpcode BY <1>2 DEF UnexpectedOpcode
    <3>2. CompilerState /\ labels # << >> /\ EndFunctionBody
      BY <2>3, <3>1 DEF ReadLastEnd, CompilerInv
    <3> QED BY <1>1, <1>2, <3>2, EndFunctionStep
  <2> QED BY <2>1, <2>2, <2>3 DEF CompilerNext
<1> QED BY <1>1, <1>2 DEF CompilerInv

LEMMA CompilerStutter ==
    ASSUME CompilerInv, UNCHANGED compilerVars
    PROVE  CompilerInv'
<1>1. UNCHANGED <<unit, type_stack, label_stack, failed, printed, istream, labels,
                  depth_fixups, func_fixups, func_offset, current_func>>
  BY DEF compilerVars
<1>2. IndInv => IndInv' BY <1>1 DEF IndInv, TypeOK, LabelsNested
<1>3. FuncLabels => FuncLabels' BY <1>1 DEF FuncLabels
<1>4. Funcs' = Funcs BY <1>1 DEF Funcs, DefinedFuncs
<1>5. Shapes => Shapes' BY <1>1, <1>4 DEF Shapes
<1>6. InStep => InStep' BY <1>1 DEF InStep
<1>7. BranchesPending => BranchesPending' BY <1>1 DEF BranchesPending, Remembered
<1>8. CallsPending => CallsPending' BY <1>1, <1>4 DEF CallsPending, Awaited
<1> QED BY <1>1, <1>2, <1>3, <1>5, <1>6, <1>7, <1>8 DEF CompilerInv, CompilerState

(* The thread that runs the code leaves the compiler alone. *)
LEMMA MachineStep ==
    ASSUME CompilerInv, [MachineNext]_machineVars
    PROVE  CompilerInv'
<1>1. CASE Compile BY <1>1, CompilerStep DEF Compile
<1>2. CASE RunFunction BY <1>2, CompilerStutter DEF RunFunction
<1>3. CASE Execute BY <1>3, CompilerStutter DEF Execute
<1>4. CASE UNCHANGED machineVars BY <1>4, CompilerStutter DEF machineVars
<1> QED BY <1>1, <1>2, <1>3, <1>4 DEF MachineNext

LEMMA CompilerAlways == MachineSpec => []CompilerInv
<1>1. MachineInit => CompilerInv BY CompilerStart DEF MachineInit
<1> QED BY <1>1, MachineStep, PTL DEF MachineSpec

-----------------------------------------------------------------------------
(* What follows from the invariant.                                        *)

LEMMA InvLabels == ASSUME CompilerInv PROVE LabelStacksInStep
BY DEF CompilerInv, CompilerState, InStep, LabelStacksInStep

LEMMA InvBranches == ASSUME CompilerInv PROVE BranchFixupsExact
<1> SUFFICES ASSUME ~failed
             PROVE  /\ Unpatched(Jumps) = (UNION Range(depth_fixups)) \union IfFixups
                    /\ \A p, q \in DOMAIN depth_fixups :
                          p # q => depth_fixups[p] \intersect depth_fixups[q] = {}
                    /\ IfFixups \intersect UNION Range(depth_fixups) = {}
  BY DEF BranchFixupsExact
<1>1. CompilerState BY DEF CompilerInv
<1>2. \A p : p \in UNION Range(depth_fixups) <=> \E q \in DOMAIN depth_fixups : p \in depth_fixups[q]
  BY DEF Range
<1>3. \A p : p \in IfFixups <=> p # Invalid /\ \E i \in DOMAIN labels : labels[i].fixup_offset = p
  BY DEF IfFixups
<1>4. \A p : p \in Unpatched(Jumps) <=> IsOpen(istream, Jumps, p)
  BY DEF Unpatched, IsOpen
<1>5. /\ \A p \in DOMAIN istream : p \in Nat
      /\ \A q \in DOMAIN depth_fixups : \A p \in depth_fixups[q] : p \in Nat
      /\ \A i \in DOMAIN labels :
            labels[i].fixup_offset \in Nat \/ labels[i].fixup_offset = Invalid
      /\ Invalid \notin Nat
  BY <1>1, PositionsInCode, CodeIsSeq DEF CompilerState, Shapes, Invalid
<1>6. \A p \in Nat : IsOpen(istream, Jumps, p) <=> Remembered(p)
  BY <1>1 DEF CompilerState, BranchesPending
<1>7. \A p : p \in Unpatched(Jumps) <=> p \in (UNION Range(depth_fixups)) \union IfFixups
  <2> TAKE p
  <2> DEFINE listed == \E q \in DOMAIN depth_fixups : p \in depth_fixups[q]
             pending == \E i \in DOMAIN labels : labels[i].fixup_offset = p
  <2>1. p \in (UNION Range(depth_fixups)) \union IfFixups <=> listed \/ (p # Invalid /\ pending)
    <3>1. /\ p \in UNION Range(depth_fixups) <=> listed
          /\ p \in IfFixups <=> p # Invalid /\ pending
      BY <1>2, <1>3, Zenon
    <3> DEFINE A == UNION Range(depth_fixups)
               B == IfFixups
    <3>2. (p \in A <=> listed) /\ (p \in B <=> p # Invalid /\ pending) BY <3>1
    <3> HIDE DEF A, B, listed, pending
    <3>3. p \in A \union B <=> listed \/ (p # Invalid /\ pending) BY <3>2
    <3> QED BY <3>3 DEF A, B
  <2>2. Remembered(p) <=> listed \/ pending BY DEF Remembered
  <2>3. listed => p \in Nat BY <1>5
  <2>4. p # Invalid /\ pending => p \in Nat BY <1>5
  <2>5. IsOpen(istream, Jumps, p) => p \in Nat BY <1>5 DEF IsOpen
  <2> HIDE DEF listed, pending
  <2> QED BY <1>4, <1>5, <1>6, <2>1, <2>2, <2>3, <2>4, <2>5
<1>8. \A p, q \in DOMAIN depth_fixups :
         p # q => depth_fixups[p] \intersect depth_fixups[q] = {}
  BY <1>1, <1>5 DEF CompilerState, BranchesPending
<1>9. IfFixups \intersect UNION Range(depth_fixups) = {}
  BY <1>1, <1>2, <1>3 DEF CompilerState, BranchesPending
<1> QED BY <1>7, <1>8, <1>9

LEMMA InvCalls == ASSUME CompilerInv PROVE CallFixupsExact
<1> SUFFICES ASSUME ~failed
             PROVE  /\ Unpatched(CallJumps) =
                          UNION {func_fixups[f] : f \in {g \in Funcs : func_offset[g] = Invalid}}
                    /\ Compiled => Unpatched(Jumps \union CallJumps) = {}
  BY DEF CallFixupsExact
<1>1. CompilerState BY DEF CompilerInv
<1>2. /\ \A p \in DOMAIN istream : p \in Nat
      /\ \A f \in Funcs : \A p \in func_fixups[f] : p \in Nat
  BY <1>1, CodeIsSeq DEF CompilerState, Shapes
<1>3. \A p : p \in Unpatched(CallJumps) <=> p \in Nat /\ Awaited(p)
  BY <1>1, <1>2 DEF Unpatched, IsOpen, CompilerState, CallsPending
<1>4. \A p : p \in UNION {func_fixups[f] : f \in {g \in Funcs : func_offset[g] = Invalid}}
                <=> Awaited(p)
  BY DEF Awaited
<1>5. \A p : Awaited(p) => p \in Nat BY <1>2 DEF Awaited
<1>6. ASSUME Compiled PROVE Unpatched(Jumps \union CallJumps) = {}
  <2>1. \A p : ~Awaited(p) BY <1>6 DEF Compiled, Awaited
  <2>2. labels = << >> BY <1>1, <1>6 DEF Compiled, CompilerState, InStep
  <2>3. Len(labels) = 0 /\ DOMAIN labels = {} BY <2>2
  <2>4. \A q \in DOMAIN depth_fixups : q > 0
    <3>1. DOMAIN depth_fixups = 1..unit.max_labels /\ unit.max_labels \in Nat
      BY <1>1 DEF CompilerState, Shapes, Unit
    <3> QED BY <3>1
  <2>5. \A q \in DOMAIN depth_fixups : depth_fixups[q] = {}
    BY <1>1, <2>3, <2>4 DEF CompilerState, BranchesPending
  <2>6. \A p : ~Remembered(p) BY <2>3, <2>5 DEF Remembered
  <2>7. \A p \in Nat : ~IsOpen(istream, Jumps, p) /\ ~IsOpen(istream, CallJumps, p)
    BY <1>1, <2>1, <2>6 DEF CompilerState, BranchesPending, CallsPending
  <2> QED BY <1>2, <2>7 DEF Unpatched, IsOpen
<1> QED BY <1>3, <1>4, <1>5, <1>6

(* The compiler and the type checker never disagree about the labels that are
   open: a branch depth the type checker has accepted finds in the compiler's
   stack the label it means, with an offset exactly when it is a loop's. *)
THEOREM LabelStacksAlwaysInStep == MachineSpec => []LabelStacksInStep
<1>1. CompilerInv => LabelStacksInStep BY InvLabels
<1> QED BY <1>1, CompilerAlways, PTL

(* No forward branch is forgotten when its block ends, and none is patched for
   another block: depth_fixups_ and fixup_offset remember exactly the branches
   that still hold a placeholder, each once. *)
THEOREM BranchesAlwaysFixedUp == MachineSpec => []BranchFixupsExact
<1>1. CompilerInv => BranchFixupsExact BY InvBranches
<1> QED BY <1>1, CompilerAlways, PTL

(* A call holds a placeholder until its callee begins and no longer, and the
   code of a module that has been read holds none. *)
THEOREM CallsAlwaysFixedUp == MachineSpec => []CallFixupsExact
<1>1. CompilerInv => CallFixupsExact BY InvCalls
<1> QED BY <1>1, CompilerAlways, PTL

(* Driven by the compiler, the type checker keeps its labels nested in its
   operand stack until an error: what GetDropCount computes from them is never
   negative. *)
THEOREM CompilerLabelsAlwaysNested == MachineSpec => [](~failed => TypeOK /\ LabelsNested)
<1>1. CompilerInv => (~failed => TypeOK /\ LabelsNested)
  BY DEF CompilerInv, CompilerState, IndInv
<1> QED BY <1>1, CompilerAlways, PTL
=============================================================================
