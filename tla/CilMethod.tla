------------------------------ MODULE CilMethod ------------------------------
(***************************************************************************)
(* Translation of a method's CIL code in the front end gcc/cil.            *)
(*                                                                         *)
(* parse_instructions goes through the code once.  CIL's evaluation stack  *)
(* exists only while compiling: stack.c keeps a stack of TREES, a push     *)
(* evaluates nothing, and a tree is evaluated where a statement that uses  *)
(* it is appended to the function's body.  dup makes a SAVE_EXPR, and a    *)
(* reference that must not be null is used twice in a COND_EXPR.           *)
(*                                                                         *)
(* A tree is a record with TREE_CODE op, a number val (constant, variable, *)
(* field, function, label or SAVE_EXPR) and operands kids.  Its types, and *)
(* the conversions between them, are left out.                             *)
(***************************************************************************)
EXTENDS Integers, Sequences, FiniteSets, SequencesExt

CONSTANTS
  Instructions,  \* records [op, arg, n, returns] the method is made of
  MaxCode        \* bound: instructions in the method

ASSUME MaxCodeAssumption == MaxCode \in Nat \ {0}

VARIABLES
  code,     \* the instructions parsed so far
  heights,  \* ghost: the height of the stack before each of them
  stack,    \* top_item: trees, the last one on top
  body,     \* current_function_body: the statements
  saves,    \* how many SAVE_EXPRs there are
  odd,      \* ghost: see Reordered, Repeated, Early, Unset, Unordered and Branching
  compiled  \* compile_function has been called

vars == <<code, heights, stack, body, saves, odd, compiled>>

-----------------------------------------------------------------------------
(* Trees. *)

\* Functions of the run-time system; the functions of the program are 1, 2...
NullReference == -1
IndexOutOfRange == -2
NewObj == -3
NewArr == -4
NoReturn == {NullReference, IndexOutOfRange}

\* The field of an array object that holds its length.
MaxLength == 9

Statements == {"assign", "label", "goto", "if", "unless", "return"}

\* build (): effects is TREE_SIDE_EFFECTS; ids are the SAVE_EXPRs in the tree,
\* invariant is TREE_INVARIANT, as build and save_expr set it.  pure is ghost:
\* to evaluate the tree again has no effect.
Tree(op, val, kids) ==
  [op |-> op, val |-> val, kids |-> kids,
   effects |-> \/ op \in {"call", "vcall", "save"} \cup Statements
               \/ \E k \in DOMAIN kids : kids[k].effects,
   invariant |-> \/ op \in {"const", "save"}
                 \/ op \in {"minus", "eq"} /\ \A k \in DOMAIN kids : kids[k].invariant,
   pure |-> \/ op = "save"
            \/ /\ op \in {"call", "vcall"} => val \in NoReturn
               /\ \A k \in DOMAIN kids : kids[k].pure,
   ids |-> (IF op = "save" THEN {val} ELSE {}) \cup UNION {kids[k].ids : k \in DOMAIN kids}]

Const(c) == Tree("const", c, <<>>)
Var(v) == Tree("var", v, <<>>)
Null == Const(0)
Call(f, args) == Tree("call", f, args)

-----------------------------------------------------------------------------
(* The state of the translator as a record, and what its functions do to it. *)

Here == [stack |-> stack, body |-> body, saves |-> saves, odd |-> odd]

stack_push(s, t) == [s EXCEPT !.stack = Append(@, t)]

stack_pop(s) == [s EXCEPT !.stack = Front(@)]

\* stack_pop n times, the values kept.
Popped(s, n) == [s EXCEPT !.stack = SubSeq(@, 1, Len(@) - n)]
Args(s, n) == SubSeq(s.stack, Len(s.stack) - n + 1, Len(s.stack))

\* The n-th item from the top, which is the first.
stack_elem(s, n) == s.stack[Len(s.stack) + 1 - n]

Saved(s) == UNION {s.body[i].ids : i \in DOMAIN s.body}

\* Nothing that happens before it is evaluated changes the tree's value.
Settled(t, saved) == t.invariant /\ t.ids \subseteq saved

Odd(s, condition, kind) == [s EXCEPT !.odd = @ \cup IF condition THEN {kind} ELSE {}]

\* Ghost: a statement goes before the evaluation of what is still on the stack.
Reordered(s) ==
  Odd(s, \E i \in DOMAIN s.stack : ~Settled(s.stack[i], Saved(s)), "reordered")

\* append_to_statement_list drops what has no side effects.
append_to_statement_list(s, t) ==
  IF t.effects THEN Reordered([s EXCEPT !.body = Append(@, t)]) ELSE s

-----------------------------------------------------------------------------
(* Checks. *)

create_null_reference_check(ref) ==
  Tree("cond", 0, <<Tree("eq", 0, <<ref, Null>>),
                    Tree("compound", 0, <<Call(NullReference, <<>>), ref>>),
                    ref>>)

get_array_length(array) == Tree("load", MaxLength, <<create_null_reference_check(array)>>)

create_array_bounds_check(array, index) ==
  LET out == Tree("compound", 0, <<Call(IndexOutOfRange, <<>>), array>>)
      check == Tree("cond", 0, <<Tree("ge", 0, <<index, get_array_length(array)>>), out, array>>)
  IN  Tree("cond", 0, <<Tree("lt", 0, <<index, Const(0)>>), out, check>>)

create_array_elem_access(array, index) ==
  Tree("elem", 0, <<create_array_bounds_check(array, index), index>>)

\* Ghost: the checked reference is evaluated more than once.
Repeated(s, ref) == Odd(s, ~ref.pure, "repeated")

\* Ghost: the check is made before operands are evaluated that CIL evaluates
\* before it.
Early(s, operands) ==
  Odd(s, \E i \in DOMAIN operands :
           operands[i].effects /\ ~Settled(operands[i], Saved(s)), "early")

\* Ghost: a SAVE_EXPR has its first use in the arm that calls
\* index_out_of_range, and the other arm reads what that arm would have set.
Unset(s, array) == Odd(s, ~(array.ids \subseteq Saved(s)), "unset")

Checked(s, ref, operands) == Early(Repeated(s, ref), operands)
CheckedElem(s, array, index, operands) ==
  Unset(Checked(s, array, <<index>> \o operands), array)

-----------------------------------------------------------------------------
(* Calls. *)

\* Ghost: evaluation of the tree makes no call, except one that stops.
Callless(t, saved) == t.pure /\ t.ids \subseteq saved

\* Ghost: a reference to an object that the evaluation makes.  That changes
\* nothing another tree reads.
Fresh(t) == t.op = "save" /\ t.kids = <<Call(NewObj, <<>>)>>

\* Ghost: two arguments that must be evaluated in CIL's order, the front end
\* leaves their order to the target: one makes a call and the other reads or
\* calls, or both may stop the program.
Unordered(s, args) ==
  Odd(s, \E i, j \in DOMAIN args :
           /\ args[i] # args[j] \/ (i # j /\ args[i].op # "save")
           /\ ~Settled(args[i], Saved(s)) /\ ~Settled(args[j], Saved(s))
           /\ \/ ~Callless(args[i], Saved(s)) /\ ~Fresh(args[i]) /\ args[j].op # "var"
              \/ args[i].effects /\ args[j].effects,
      "unordered")

\* this_check replaces the first argument by a check of it.
create_function_call(f, args, this_check) ==
  Call(f, IF this_check THEN <<create_null_reference_check(Head(args))>> \o Tail(args) ELSE args)

\* Faulty form, for mutation: a void call is pushed too.
finish_function_call_Push(s, call, returns) == stack_push(s, call)

\* A value is pushed and evaluated later, a call without one is a statement.
finish_function_call(s, call, returns) ==
  IF returns THEN stack_push(s, call) ELSE append_to_statement_list(s, call)

make_method_call(s, f, n, returns, this_check) ==
  LET args == Args(s, n)
      u == Unordered(s, args)
      t == IF this_check THEN Checked(u, Head(args), Tail(args)) ELSE u
  IN  finish_function_call(Popped(t, n), create_function_call(f, args, this_check), returns)

\* The method's address in the vtable of obj_ref (or, for an interface, in the
\* table that stands before it).
create_virtual_method_ptr(f, obj_ref) == Tree("vtable", f, <<obj_ref>>)

\* make_intf_method_call differs only in how the address is computed.
make_virtual_method_call(s, f, n, returns) ==
  LET args == Args(s, n)
      call == create_function_call(f, args, TRUE)
      ptr == create_virtual_method_ptr(f, stack_elem(s, n))
      t == Checked(Unordered(s, args), Head(args), Tail(args))
  IN  finish_function_call(Popped(t, n),
                           Tree("vcall", f, <<ptr>> \o call.kids), returns)

\* fold and skip_simple_arithmetic leave an invariant tree as it is.
save_expr(s, t) == IF t.invariant THEN t ELSE Tree("save", s.saves + 1, <<t>>)

\* Faulty form, for mutation: the tree is shared without a SAVE_EXPR.
make_instr_dup_Unsaved(s) == stack_push(s, Last(s.stack))

make_instr_dup(s) ==
  LET t == save_expr(s, Last(s.stack))
      popped == [stack_pop(s) EXCEPT !.saves = IF t = Last(s.stack) THEN @ ELSE @ + 1]
  IN  stack_push(stack_push(popped, t), t)

make_instr_pop(s) == append_to_statement_list(stack_pop(s), Last(s.stack))

\* The arguments are taken off, the object is made, and its reference is
\* duplicated below them for the constructor.
make_new_object(s, f, n) ==
  LET args == Args(s, n)
      made == make_instr_dup(make_method_call(Popped(s, n), NewObj, 0, TRUE, FALSE))
  IN  make_method_call([made EXCEPT !.stack = @ \o args], f, n + 1, FALSE, TRUE)

make_new_array(s) == make_method_call(s, NewArr, 1, TRUE, FALSE)

-----------------------------------------------------------------------------
(* Expressions and assignments. *)

make_arithmetic_expr(s, op) == stack_push(Popped(s, 2), Tree(op, 0, Args(s, 2)))

make_assignment(s, lvalue) ==
  append_to_statement_list(stack_pop(s), Tree("assign", 0, <<lvalue, Last(s.stack)>>))

\* stack: object, value
make_field_assignment(s, f) ==
  LET ref == stack_elem(s, 2)  value == stack_elem(s, 1)
      lvalue == Tree("load", f, <<create_null_reference_check(ref)>>)
  IN  make_assignment(stack_push(Popped(Checked(s, ref, <<value>>), 2), value), lvalue)

make_static_field_assignment(s, f) == make_assignment(s, Tree("static", f, <<>>))

\* stack: array, index, value
make_array_elem_assignment(s) ==
  LET array == stack_elem(s, 3)  index == stack_elem(s, 2)  value == stack_elem(s, 1)
      t == CheckedElem(s, array, index, <<value>>)
  IN  make_assignment(stack_push(Popped(t, 3), value), create_array_elem_access(array, index))

-----------------------------------------------------------------------------
(* Labels, branches and return. *)

\* Faulty form, for mutation: only labels that a branch has named already.
make_label_Named(s) ==
  IF s.stack = <<>> /\ \E k \in DOMAIN s.body :
       s.body[k].op \in {"goto", "if", "unless"} /\ s.body[k].val = Len(code) + 1
  THEN append_to_statement_list(s, Tree("label", Len(code) + 1, <<>>)) ELSE s

\* The label of an instruction is its place in the code.
make_label(s) ==
  IF s.stack = <<>> THEN append_to_statement_list(s, Tree("label", Len(code) + 1, <<>>)) ELSE s

\* Ghost: values stay on the stack across a branch.
Branching(s) == Odd(s, s.stack # <<>>, "branching")

make_branch_on_true(s, l) ==
  append_to_statement_list(Branching(stack_pop(s)), Tree("if", l, <<Last(s.stack)>>))

make_branch_on_false(s, l) ==
  append_to_statement_list(Branching(stack_pop(s)), Tree("unless", l, <<Last(s.stack)>>))

make_branch_comparison(s, l) ==
  append_to_statement_list(Branching(Popped(s, 2)),
                           Tree("if", l, <<Tree("eq", 0, Args(s, 2))>>))

make_branch_unconditional(s, l) ==
  append_to_statement_list(Branching(s), Tree("goto", l, <<>>))

make_return_value(s) ==
  IF s.stack = <<>> THEN append_to_statement_list(s, Tree("return", 0, <<>>))
  ELSE append_to_statement_list(stack_pop(s), Tree("return", 0, <<Last(s.stack)>>))

-----------------------------------------------------------------------------
(* One step of parse_instructions: make_label, then the instruction. *)

Branches == {"brtrue", "brfalse", "beq", "br"}

\* An instruction of the CIL reader: a branch names an instruction, a call has
\* its number of arguments, with the object among them if it is callvirt.
ASSUME InstructionAssumption ==
  \A i \in Instructions :
    /\ i.n \in Nat /\ i.returns \in BOOLEAN
    /\ i.op \in {"callinst", "callvirt"} => i.n > 0
    /\ i.op \in Branches => i.arg \in Nat \ {0}

\* The operands an instruction takes off CIL's stack.
Operands(i) ==
  CASE i.op \in {"ldloc", "ldc", "ldsfld", "br", "ret"} -> 0
    [] i.op \in {"stloc", "stsfld", "dup", "pop", "ldfld", "ldlen", "newarr",
                 "brtrue", "brfalse"} -> 1
    [] i.op \in {"sub", "stfld", "ldelem", "beq"} -> 2
    [] i.op = "stelem" -> 3
    [] OTHER -> i.n

\* The values it leaves there.
Results(i) ==
  CASE i.op = "dup" -> 2
    [] i.op \in {"ldloc", "ldc", "ldsfld", "sub", "ldfld", "ldlen", "ldelem", "newarr", "newobj"} -> 1
    [] i.op \in {"call", "callinst", "callvirt"} /\ i.returns -> 1
    [] OTHER -> 0

Labelled == make_label(Here)

\* The method is verified code: no instruction finds too few operands.
Parse(i, s) ==
  /\ ~compiled /\ Len(code) < MaxCode /\ Len(stack) >= Operands(i)
  /\ code' = Append(code, i)
  /\ heights' = Append(heights, Len(stack))
  /\ stack' = s.stack /\ body' = s.body /\ saves' = s.saves /\ odd' = s.odd
  /\ UNCHANGED compiled

Is(i, op) == i.op = op /\ ~compiled /\ Len(stack) >= Operands(i)

ldloc(i) == Is(i, "ldloc") /\ Parse(i, stack_push(Labelled, Var(i.arg)))
stloc(i) == Is(i, "stloc") /\ Parse(i, make_assignment(Labelled, Var(i.arg)))
ldc(i) == Is(i, "ldc") /\ Parse(i, stack_push(Labelled, Const(i.arg)))
dup(i) == Is(i, "dup") /\ Parse(i, make_instr_dup(Labelled))
pop(i) == Is(i, "pop") /\ Parse(i, make_instr_pop(Labelled))
\* Every operator and comparison is made in the same way.
arithmetic(i) == Is(i, "sub") /\ Parse(i, make_arithmetic_expr(Labelled, "minus"))
instr_call(i) ==
  Is(i, "call") /\ Parse(i, make_method_call(Labelled, i.arg, i.n, i.returns, FALSE))
\* callvirt of a method that is not virtual, and of one that is.
instr_callvirt_static(i) ==
  Is(i, "callinst") /\ Parse(i, make_method_call(Labelled, i.arg, i.n, i.returns, TRUE))
instr_callvirt(i) ==
  Is(i, "callvirt") /\ Parse(i, make_virtual_method_call(Labelled, i.arg, i.n, i.returns))
instr_newobj(i) == Is(i, "newobj") /\ Parse(i, make_new_object(Labelled, i.arg, i.n))
instr_newarr(i) == Is(i, "newarr") /\ Parse(i, make_new_array(Labelled))
instr_ldfld(i) ==
  /\ Is(i, "ldfld")
  /\ LET ref == Last(stack)
     IN  Parse(i, stack_push(stack_pop(Checked(Labelled, ref, <<>>)),
                             Tree("load", i.arg, <<create_null_reference_check(ref)>>)))
instr_stfld(i) == Is(i, "stfld") /\ Parse(i, make_field_assignment(Labelled, i.arg))
instr_ldsfld(i) == Is(i, "ldsfld") /\ Parse(i, stack_push(Labelled, Tree("static", i.arg, <<>>)))
instr_stsfld(i) == Is(i, "stsfld") /\ Parse(i, make_static_field_assignment(Labelled, i.arg))
ldelem(i) ==
  /\ Is(i, "ldelem")
  /\ LET array == stack_elem(Here, 2)  index == stack_elem(Here, 1)
     IN  Parse(i, stack_push(Popped(CheckedElem(Labelled, array, index, <<>>), 2),
                             create_array_elem_access(array, index)))
stelem(i) == Is(i, "stelem") /\ Parse(i, make_array_elem_assignment(Labelled))
make_instr_ldlen(i) ==
  /\ Is(i, "ldlen")
  /\ Parse(i, stack_push(stack_pop(Checked(Labelled, Last(stack), <<>>)),
                         get_array_length(Last(stack))))
brtrue(i) == Is(i, "brtrue") /\ Parse(i, make_branch_on_true(Labelled, i.arg))
brfalse(i) == Is(i, "brfalse") /\ Parse(i, make_branch_on_false(Labelled, i.arg))
beq(i) == Is(i, "beq") /\ Parse(i, make_branch_comparison(Labelled, i.arg))
br(i) == Is(i, "br") /\ Parse(i, make_branch_unconditional(Labelled, i.arg))
ret(i) == Is(i, "ret") /\ Parse(i, make_return_value(Labelled))

\* ECMA 335's rules for the code as a whole: it does not run off its end, all
\* ways to an instruction bring a stack of the same height, an empty one after
\* an unconditional branch, and every ret finds the return value and no more.
Verified ==
  LET n == Len(code)  Ends(i) == code[i].op \in {"br", "ret"}
  IN  /\ n > 0 /\ Ends(n)
      /\ \A i \in 1..n :
           /\ code[i].op \in Branches =>
                code[i].arg <= n /\ heights[code[i].arg] = heights[i] - Operands(code[i])
           /\ code[i].op = "br" => heights[i] = 0
           /\ code[i].op = "ret" =>
                \A j \in 1..n : code[j].op = "ret" => heights[i] = heights[j] /\ heights[i] <= 1

\* compile_function: stack and labels are cleared, the body is handed on.
compile_function ==
  /\ ~compiled /\ Verified
  /\ compiled' = TRUE
  /\ stack' = <<>>
  /\ UNCHANGED <<code, heights, body, saves, odd>>

Init ==
  /\ code = <<>> /\ heights = <<>> /\ stack = <<>> /\ body = <<>>
  /\ saves = 0 /\ odd = {} /\ compiled = FALSE

Instruction(i) ==
  \/ ldloc(i) \/ stloc(i) \/ ldc(i) \/ dup(i) \/ pop(i) \/ arithmetic(i)
  \/ instr_call(i) \/ instr_callvirt_static(i) \/ instr_callvirt(i)
  \/ instr_newobj(i) \/ instr_newarr(i)
  \/ instr_ldfld(i) \/ instr_stfld(i) \/ instr_ldsfld(i) \/ instr_stsfld(i)
  \/ ldelem(i) \/ stelem(i) \/ make_instr_ldlen(i)
  \/ brtrue(i) \/ brfalse(i) \/ beq(i) \/ br(i) \/ ret(i)

Next == (\E i \in Instructions : Instruction(i)) \/ compile_function

Spec == Init /\ [][Next]_vars

-----------------------------------------------------------------------------
(* Properties. *)

\* CIL's stack after the k-th instruction.
HeightAfter(k) ==
  IF code[k].op = "ret" THEN IF heights[k] = 0 THEN 0 ELSE heights[k] - 1
  ELSE heights[k] - Operands(code[k]) + Results(code[k])

\* The types of the state; in particular the stack of trees is as high as
\* CIL's and holds no statements.
TypeOK ==
  /\ code \in Seq(Instructions) /\ Len(code) <= MaxCode
  /\ Len(heights) = Len(code)
  /\ saves \in Nat /\ compiled \in BOOLEAN
  /\ odd \subseteq {"reordered", "repeated", "early", "unset", "unordered", "branching"}
  /\ \A i \in DOMAIN stack : stack[i].ids \subseteq 1..saves /\ stack[i].op \notin Statements
  /\ ~compiled /\ code # <<>> => Len(stack) = HeightAfter(Len(code))

\* The statement of a label; there need not be one.
LabelAt(l) == {k \in DOMAIN body : body[k].op = "label" /\ body[k].val = l}

\* A label is made only where the stack is empty.  A method that leaves nothing
\* on the stack at its branches has all the labels these name.
BranchesHaveLabels ==
  (compiled /\ "branching" \notin odd) =>
    \A k \in DOMAIN body : body[k].op \in {"goto", "if", "unless"} => LabelAt(body[k].val) # {}

=============================================================================
