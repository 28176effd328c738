----------------------------- MODULE ScilMethod -----------------------------
(***************************************************************************)
(* Translation of the body of one CIL method by the SCIL front end: the    *)
(* virtual execution stack of scil-evalstack.c, the labels and the         *)
(* instructions of scil-instructions.c and the loop of parse_method in     *)
(* scil-pnet.c that drives them, one action per iteration of that loop.    *)
(*                                                                         *)
(* A CIL stack location is a GCC variable: one per element type ("pool")   *)
(* and height.  The front end runs through the instructions once, in       *)
(* textual order, and keeps the list of the variables that are on the      *)
(* stack; at a forward branch it saves that list with the target's label.  *)
(*                                                                         *)
(* The program is not fixed: every step chooses the next instruction, so   *)
(* that TLC meets every valid program of CodeLength instructions.  What    *)
(* makes a program valid (ECMA 335, III.1.7) is the ghost state cil,       *)
(* expected and falls: the stack of CIL types a verifier has at pc.        *)
(***************************************************************************)
EXTENDS Naturals, Sequences

CONSTANTS
  MaxStack,     \* body.maxStack of the method
  CodeLength,   \* the number of its instructions
  ValueTypes,   \* the value types it uses
  Variables,    \* its parameters, local variables and static fields
  VarType,      \* [Variables -> Types]
  Literals,     \* the operands of its ldc instructions
  LitType,      \* the type instr_ldc_* gives a literal
  LitCil,       \* the CIL type of that literal ("i4" or "i8")
  ConvTypes,    \* the types its conv instructions convert to
  Signatures,   \* the signatures of the methods it calls
  SigParams,    \* [Signatures -> Seq(Types)]
  SigResult,    \* [Signatures -> Types \cup {"void"}]
  ReturnType,   \* the method's own return type, or "void"
  Precision,    \* TYPE_PRECISION of the types of stack variables
  Ops,          \* the operations the programs of this instance use
  NoArg         \* operand of an instruction that has none

IntTypes == {"bool", "int8", "uint8", "char", "int16", "uint16",
             "int32", "uint32", "int64", "uint64"}
FloatTypes == {"float32", "float64"}
Types == IntTypes \cup FloatTypes \cup {"pointer"} \cup ValueTypes

\* The element types of the typed stacks, and the value types, which share one.
PoolTypes == {"int8", "int16", "int32", "int64", "float64", "pointer"}
StackTypes == PoolTypes \cup ValueTypes

\* The types a CIL verifier tracks (ECMA 335, I.12.3.2.1).
CilTypes == {"i4", "i8", "F", "O"} \cup ValueTypes

ASSUME SizeAssumption ==
  /\ MaxStack \in Nat \ {0}
  /\ CodeLength \in Nat \ {0}

ASSUME TypeAssumption ==
  /\ \A v \in ValueTypes : v \notin IntTypes \cup FloatTypes \cup PoolTypes
                                    \cup {"i4", "i8", "F", "O", "void"}
  /\ VarType \in [Variables -> Types]
  /\ LitType \in [Literals -> Types]
  /\ LitCil \in [Literals -> {"i4", "i8"}]
  /\ ConvTypes \subseteq IntTypes \cup FloatTypes
  /\ \A g \in Signatures : SigParams[g] \in Seq(Types)
  /\ SigResult \in [Signatures -> Types \cup {"void"}]
  /\ ReturnType \in Types \cup {"void"}
  /\ Precision \in [StackTypes -> Nat]

-----------------------------------------------------------------------------
(* scil-evalstack.c *)

\* Faulty form of get_stack, for mutation: bool and uint8 are forgotten.
get_stack_NoBool(type) ==
  CASE type \in {"int32", "uint32"}          -> "int32"
    [] type \in {"int16", "char", "uint16"}  -> "int16"
    [] type \in {"int64", "uint64"}          -> "int64"
    [] type \in {"float32", "float64"}       -> "float64"
    [] OTHER                                 -> type

\* The typed stack a value of TYPE lives in, by its element type.
get_stack(type) ==
  CASE type \in {"int32", "uint32"}          -> "int32"
    [] type = "pointer"                      -> "pointer"
    [] type \in {"int8", "bool", "uint8"}    -> "int8"
    [] type \in {"int16", "char", "uint16"}  -> "int16"
    [] type \in {"int64", "uint64"}          -> "int64"
    [] type \in {"float32", "float64"}       -> "float64"
    [] OTHER                                 -> type

\* A stack variable is known by its type and its index in the typed stack; it
\* is declared when it is first asked for.
StackVars == [type : StackTypes, slot : Nat]

\* Faulty forms, for mutation: top_index is advanced too late or too early.
scil_get_stack_variable_Late(type, s) ==
  [type |-> get_stack(type), slot |-> IF s = <<>> THEN 0 ELSE Len(s) - 1]
scil_get_stack_variable_Early(type, s) ==
  [type |-> get_stack(type), slot |-> Len(s) + 1]

\* The variable that comes next on stack S for a value of TYPE.
scil_get_stack_variable(type, s) ==
  [type |-> get_stack(type), slot |-> Len(s)]

scil_stack_push(s, var) == Append(s, var)

\* Stack S after N calls of scil_stack_pop.
scil_stack_pop(s, n) == SubSeq(s, 1, Len(s) - n)

\* The N-th variable from the top of S.
FromTop(s, n) == s[Len(s) + 1 - n]

-----------------------------------------------------------------------------
VARIABLES
  stack,     \* the variables on the virtual stack, bottom first
  data,      \* SCIL_DECL_DATA of each label: none, passed (1) or a saved stack
  forced,    \* the labels with FORCED_LABEL set
  labels,    \* the labels in the statement list
  body,      \* the statements, by instruction: operation, operands, and the
             \* stack it found (in) and left (out)
  complete,  \* scil_complete_method_def has run
  cil,       \* ghost: types on the CIL stack after the last instruction
  expected,  \* ghost: types on the CIL stack at each label, once known
  falls      \* ghost: the last instruction may fall through to the next

vars == <<stack, data, forced, labels, body, complete, cil, expected, falls>>

Labels == 1..CodeLength
LabelData == [kind : {"none", "passed", "saved"}, stack : Seq(StackVars)]
CilEntry == [set : BOOLEAN, types : Seq(CilTypes)]
Args == Variables \cup Literals \cup Signatures \cup Types \cup {NoArg}
Statements == [op : Ops, arg : Args, target : 0..CodeLength,
               in : Seq(StackVars), out : Seq(StackVars)]

\* State types.
TypeOK ==
  /\ stack \in Seq(StackVars)
  /\ data \in [Labels -> LabelData]
  /\ forced \subseteq Labels
  /\ labels \subseteq Labels
  /\ body \in Seq(Statements)
  /\ complete \in BOOLEAN
  /\ cil \in Seq(CilTypes)
  /\ expected \in [Labels -> CilEntry]
  /\ falls \in BOOLEAN

\* scil_start_method_def and scil_init_stacks have run; no label exists yet.
Init ==
  /\ stack = <<>>
  /\ data = [l \in Labels |-> [kind |-> "none", stack |-> <<>>]]
  /\ forced = {}
  /\ labels = {}
  /\ body = <<>>
  /\ complete = FALSE
  /\ cil = <<>>
  /\ expected = [l \in Labels |-> [set |-> FALSE, types |-> <<>>]]
  /\ falls = TRUE

pc == Len(body) + 1

-----------------------------------------------------------------------------
(* The CIL verifier: what makes the next instruction a legal one.          *)

CilOf(type) ==
  CASE type \in IntTypes \ {"int64", "uint64"} -> "i4"
    [] type \in {"int64", "uint64"}            -> "i8"
    [] type \in FloatTypes                     -> "F"
    [] type = "pointer"                        -> "O"
    [] OTHER                                   -> type

CilSeq(types) == [i \in 1..Len(types) |-> CilOf(types[i])]

\* The CIL stack at pc: the one a branch brought along, else the one that falls
\* through; after an unconditional branch it is empty.
CilAt == IF expected[pc].set THEN expected[pc].types
         ELSE IF falls THEN cil ELSE <<>>

HasOnTop(s, types) ==
  /\ Len(types) <= Len(s)
  /\ \A i \in 1..Len(types) : s[Len(s) - Len(types) + i] = types[i]

\* Both ways to pc, by a branch and by falling through, agree.
PathsAgree == (expected[pc].set /\ falls) => cil = expected[pc].types

\* A branch to T with CIL stack S is legal, and what it makes known of T.
MayBranch(e, t, s) == e[t].set => e[t].types = s
Branched(e, t, s) == [e EXCEPT ![t] = [set |-> TRUE, types |-> s]]
CilLabelled == Branched(expected, pc, CilAt)

-----------------------------------------------------------------------------
(* scil-instructions.c *)

\* scil_set_label (pc): the stack with which the instruction at pc begins,
Entry == IF data[pc].kind = "saved" THEN data[pc].stack ELSE stack

\* and the label's data, which says from now on not to save a stack for it.
scil_set_label ==
  [data EXCEPT ![pc] = IF @.kind = "none"
                       THEN [kind |-> "passed", stack |-> <<>>] ELSE @]

\* instr_goto (t) with stack S on top of label data D.
instr_goto(d, t, s) ==
  [d EXCEPT ![t] = IF @.kind = "none"
                   THEN [kind |-> "saved", stack |-> s] ELSE @]

\* Faulty form, for mutation: only where a stack is saved.
set_forced_Ahead(t) == IF data[t].kind = "none" THEN forced \cup {t} ELSE forced

\* instr_goto (t): FORCED_LABEL keeps the label in the body.
set_forced(t) == forced \cup {t}

\* instr_push: a value of TYPE ("void" if there is none to push) on stack S.
instr_push(type, s) ==
  IF type = "void" THEN s
  ELSE scil_stack_push(s, scil_get_stack_variable(type, s))

CilPush(type, s) == IF type = "void" THEN s ELSE Append(s, type)

\* Faulty form, for mutation: the smaller type.
BiggerType_Smaller(op1, op2) ==
  IF Precision[op1.type] < Precision[op2.type] THEN op1.type ELSE op2.type

\* instr_binop: the bigger of the types of the two operands.
BiggerType(op1, op2) ==
  IF Precision[op1.type] < Precision[op2.type] THEN op2.type ELSE op1.type

\* Appends the statement of the instruction at pc, which leaves stack S, CIL
\* stack C, and may fall through if F.
Append1(op, arg, t, s, c, f) ==
  /\ op \in Ops
  /\ PathsAgree
  /\ Len(c) <= MaxStack
  /\ body' = Append(body, [op |-> op, arg |-> arg, target |-> t,
                           in |-> Entry, out |-> s])
  /\ stack' = s
  /\ cil' = c
  /\ falls' = f
  /\ labels' = labels \cup {pc}
  /\ UNCHANGED complete

\* An instruction that pops values of the CIL types POPS, pushes one value of
\* TYPE (CIL type C) unless that is "void", and does not branch.
Straight(op, arg, pops, type, c) ==
  /\ HasOnTop(CilAt, pops)
  /\ Append1(op, arg, 0,
             instr_push(type, scil_stack_pop(Entry, Len(pops))),
             CilPush(c, SubSeq(CilAt, 1, Len(CilAt) - Len(pops))), TRUE)
  /\ data' = scil_set_label
  /\ expected' = CilLabelled
  /\ UNCHANGED forced

scil_instr_push(v) ==
  Straight("push", v, <<>>, VarType[v], CilOf(VarType[v]))

scil_instr_push_integer(l) ==
  Straight("push_integer", l, <<>>, LitType[l], LitCil[l])

\* Also scil_instr_push_string: the address of a constant.
scil_instr_push_address(v) ==
  Straight("push_address", v, <<>>, "pointer", "O")

scil_instr_dup ==
  /\ Len(CilAt) > 0
  /\ LET c == FromTop(CilAt, 1)
         type == FromTop(Entry, 1).type
     IN  /\ Append1("dup", NoArg, 0, instr_push(type, Entry),
                    CilPush(c, CilAt), TRUE)
         /\ data' = scil_set_label
         /\ expected' = CilLabelled
         /\ UNCHANGED forced

scil_instr_pop ==
  \E c \in CilTypes : Straight("pop", NoArg, <<c>>, "void", "void")

scil_instr_pop_into(v) ==
  Straight("pop_into", v, <<CilOf(VarType[v])>>, "void", "void")

\* The field's type is all that matters of a field; its object is a reference
\* or a value type.
scil_instr_push_field(type) ==
  \E o \in {"O"} \cup ValueTypes :
    Straight("push_field", type, <<o>>, type, CilOf(type))

scil_instr_push_field_address(type) ==
  Straight("push_field_address", type, <<"O">>, "pointer", "O")

scil_instr_pop_into_field(type) ==
  Straight("pop_into_field", type, <<"O", CilOf(type)>>, "void", "void")

scil_instr_push_virtual_method ==
  Straight("push_virtual_method", NoArg, <<"O">>, "pointer", "O")

\* neg, not
instr_unop ==
  \E c \in {"i4", "i8", "F"} :
    /\ HasOnTop(CilAt, <<c>>)
    /\ Straight("unop", NoArg, <<c>>, FromTop(Entry, 1).type, c)

\* add, sub, mul, div, and, or, xor, shl, shr
instr_binop ==
  \E c \in {"i4", "i8", "F"} :
    /\ HasOnTop(CilAt, <<c, c>>)
    /\ Straight("binop", NoArg, <<c, c>>,
                BiggerType(FromTop(Entry, 2), FromTop(Entry, 1)), c)

\* div.un, rem.un, shr.un: the type of the operand on top decides.
instr_binop_un ==
  \E c \in {"i4", "i8"} :
    /\ HasOnTop(CilAt, <<c, c>>)
    /\ Straight("binop_un", NoArg, <<c, c>>, FromTop(Entry, 1).type, c)

\* append_compare, append_compare_un: ceq, cgt, clt, cgt.un, clt.un
append_compare(op) ==
  \E c \in {"i4", "i8", "F", "O"} :
    Straight(op, NoArg, <<c, c>>, "bool", "i4")

scil_instr_convert(type) ==
  \E c \in {"i4", "i8", "F"} :
    Straight("convert", type, <<c>>, type, CilOf(type))

\* scil_instr_call, scil_instr_callvirt: the parameters, last one on top.
scil_instr_call(g) ==
  Straight("call", g, CilSeq(SigParams[g]), SigResult[g],
           IF SigResult[g] = "void" THEN "void" ELSE CilOf(SigResult[g]))

\* The method's address is below its parameters.
scil_instr_call_indirect(g) ==
  Straight("call_indirect", g, <<"O">> \o CilSeq(SigParams[g]), SigResult[g],
           IF SigResult[g] = "void" THEN "void" ELSE CilOf(SigResult[g]))

\* The new object itself is not among the constructor's parameters.
scil_instr_newobj(g) ==
  Straight("newobj", g, CilSeq(SigParams[g]), "pointer", "O")

scil_instr_new_static_delegate ==
  Straight("new_static_delegate", NoArg, <<"O", "O">>, "pointer", "O")

\* Faulty form, for mutation: the stack is saved before the operands are popped.
PoppedStack_Unpopped(pops) == Entry

\* The stack a branch leaves to its target: what is left after its operands.
PoppedStack(pops) == scil_stack_pop(Entry, Len(pops))

\* An instruction that pops POPS and may go to T, ending with stack S: the goto
\* saves the stack as it is after the pops.
Jump(op, pops, t, left, cleft, f) ==
  LET s == PoppedStack(pops)
      c == SubSeq(CilAt, 1, Len(CilAt) - Len(pops))
  IN  /\ HasOnTop(CilAt, pops)
      /\ MayBranch(CilLabelled, t, c)
      /\ data' = instr_goto(scil_set_label, t, s)
      /\ forced' = set_forced(t)
      /\ expected' = Branched(CilLabelled, t, c)
      /\ Append1(op, NoArg, t, left, cleft, f)

\* Faulty form, for mutation: the stack is not cleared.
scil_instr_branch_NoClear(t) == Jump("branch", <<>>, t, Entry, <<>>, FALSE)

\* br: ECMA 335 requires an empty stack at the next instruction unless a
\* forward branch has already brought one.
scil_instr_branch(t) == Jump("branch", <<>>, t, <<>>, <<>>, FALSE)

\* brtrue, brfalse
scil_instr_branch_cond(op, t) ==
  \E c \in {"i4", "i8", "O"} :
    Jump(op, <<c>>, t, scil_stack_pop(Entry, 1),
         SubSeq(CilAt, 1, Len(CilAt) - 1), TRUE)

\* beq, bge, ... and bne.un, bge.un, ... : compare, then brtrue on its result.
instr_branch_compare(op, t) ==
  \E c \in {"i4", "i8", "F", "O"} :
    Jump(op, <<c, c>>, t,
         scil_stack_pop(instr_push("bool", scil_stack_pop(Entry, 2)), 1),
         SubSeq(CilAt, 1, Len(CilAt) - 2), TRUE)

\* ret: pops a result if there is anything on the stack.
scil_instr_ret ==
  /\ CilAt = IF ReturnType = "void" THEN <<>> ELSE <<CilOf(ReturnType)>>
  /\ Append1("ret", NoArg, 0,
             IF Entry = <<>> THEN Entry ELSE scil_stack_pop(Entry, 1),
             <<>>, FALSE)
  /\ data' = scil_set_label
  /\ expected' = CilLabelled
  /\ UNCHANGED forced

\* Removes the labels nobody refers to and hands the body to the middle end.
scil_complete_method_def ==
  /\ ~complete /\ pc > CodeLength /\ ~falls
  /\ complete' = TRUE
  /\ labels' = labels \cap forced
  /\ UNCHANGED <<stack, data, forced, body, cil, expected, falls>>

InstructionAt ==
  \/ \E v \in Variables :
       \/ scil_instr_push(v)
       \/ scil_instr_push_address(v)
       \/ scil_instr_pop_into(v)
  \/ \E l \in Literals : scil_instr_push_integer(l)
  \/ scil_instr_dup
  \/ scil_instr_pop
  \/ \E type \in Types :
       \/ scil_instr_push_field(type)
       \/ scil_instr_push_field_address(type)
       \/ scil_instr_pop_into_field(type)
  \/ \E type \in ConvTypes : scil_instr_convert(type)
  \/ scil_instr_push_virtual_method
  \/ instr_unop
  \/ instr_binop
  \/ instr_binop_un
  \/ \E op \in {"compare", "compare_un"} : append_compare(op)
  \/ \E g \in Signatures :
       \/ scil_instr_call(g)
       \/ scil_instr_call_indirect(g)
       \/ scil_instr_newobj(g)
  \/ scil_instr_new_static_delegate
  \/ \E t \in Labels :
       \/ scil_instr_branch(t)
       \/ \E op \in {"branch_true", "branch_false"} : scil_instr_branch_cond(op, t)
       \/ \E op \in {"branch_compare", "branch_compare_un"} : instr_branch_compare(op, t)
  \/ scil_instr_ret

\* One iteration of the loop of parse_method: scil_set_label (pc), then the
\* instruction's handler.
parse_instruction == ~complete /\ pc <= CodeLength /\ InstructionAt

Next == parse_instruction \/ scil_complete_method_def

Spec == Init /\ [][Next]_vars

-----------------------------------------------------------------------------
(* Properties *)

\* No two locations of S share a variable, and none has the one that a push of
\* whatever type would assign next.
Separate(s) ==
  \A i \in 1..Len(s) :
    /\ \A j \in 1..(i - 1) : s[i] # s[j]
    /\ \A type \in Types : scil_get_stack_variable(type, s) # s[i]

\* A push never overwrites a value that is still to be popped, on the current
\* stack or on any stack saved for a label, whatever paths these came along.
NoLiveVariableReused ==
  /\ Separate(stack)
  /\ \A l \in Labels : data[l].kind = "saved" => Separate(data[l].stack)

\* The virtual stack is as high as the CIL stack of a verifier, after every
\* instruction and in what is saved for every label, although the front end
\* saves a label's stack at the first branch only, replaces the stack that
\* falls through and clears it after br.  So scil_stack_pop, which does not
\* check, never pops from an empty stack in a valid method.
HeightsAgree ==
  /\ falls => Len(stack) = Len(cil)
  /\ ~falls => stack = <<>>
  /\ \A l \in Labels :
       data[l].kind = "saved" =>
         /\ expected[l].set
         /\ Len(data[l].stack) = Len(expected[l].types)

\* scil_get_stack_variable indexes the typed stacks, arrays of max_stack
\* elements, with top_index and without a check: no variable ever comes from
\* beyond their end in a method that keeps to its max_stack.
IndexInBounds ==
  /\ \A i \in 1..Len(stack) : stack[i].slot < MaxStack
  /\ \A l \in Labels : \A i \in 1..Len(data[l].stack) :
       data[l].stack[i].slot < MaxStack

\* scil_complete_method_def removes labels, but none that a goto of the body
\* refers to.
GotosHaveLabels ==
  complete => \A i \in 1..Len(body) : body[i].target # 0 => body[i].target \in labels

-----------------------------------------------------------------------------
(* The inductive invariant behind NoLiveVariableReused, HeightsAgree and     *)
(* IndexInBounds                                                             *)

\* The variable at height i comes from index i of its typed stack.
SlotsInOrder(s) == \A i \in 1..Len(s) : s[i].slot = i - 1

\* What every stack the front end works with satisfies, beside a CIL stack C.
GoodStack(s, c) ==
  /\ s \in Seq(StackVars)
  /\ c \in Seq(CilTypes)
  /\ Len(s) = Len(c)
  /\ Len(c) <= MaxStack
  /\ SlotsInOrder(s)

\* The current stack is good if it is going to be used.
CurrentStack ==
  /\ falls => GoodStack(stack, cil)
  /\ ~falls => stack = <<>>

\* A saved stack is good beside what the verifier expects at its label.
SavedAsExpected ==
  \A l \in Labels : data[l].kind = "saved" =>
    expected[l].set /\ GoodStack(data[l].stack, expected[l].types)

UnsavedEmpty ==
  \A l \in Labels : data[l].kind # "saved" => data[l].stack = <<>>

\* Ahead of pc, a stack is saved for exactly the labels that were branched to.
AheadSavedIffExpected ==
  \A l \in Labels : l > Len(body) =>
    data[l].kind = IF expected[l].set THEN "saved" ELSE "none"

\* An inductive invariant of the translation.
IndInv ==
  /\ TypeOK
  /\ CurrentStack
  /\ SavedAsExpected
  /\ UnsavedEmpty
  /\ AheadSavedIffExpected

=============================================================================
