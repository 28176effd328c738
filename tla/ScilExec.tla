------------------------------ MODULE ScilExec ------------------------------
(***************************************************************************)
(* What the code ScilMethod generates does when it runs, beside what the   *)
(* CIL program does: after the translation, both machines execute the      *)
(* program instruction by instruction from the same arguments.             *)
(*                                                                         *)
(* The CIL machine has a stack of numbers, int32 arithmetic (ECMA 335,     *)
(* III.1.5) and its local variables.  The generated code has the stack     *)
(* variables of ScilMethod, each with the width of its type, and the same  *)
(* local variables.  Only integer operations are executed; a program of    *)
(* this instance uses no others.  The operation of an arithmetic           *)
(* instruction or a comparison is chosen, for both machines, when it is    *)
(* executed: add, sub, mul, div, div.un, rem.un, neg and not.  The bitwise *)
(* operations and the shifts are not executed, and rem is not translated.  *)
(***************************************************************************)
EXTENDS ScilMethod, Integers

CONSTANTS
  Size,       \* 2^w for each integer type of w bits, scaled down; Size["int32"] is CIL's
  LitVal,     \* [Literals -> Int], the operand of ldc
  Arguments   \* the values the variables may have at entry

VARIABLES
  ip,      \* the statement the generated code executes next; 0 before and
           \* after the execution
  cip,     \* the instruction the CIL machine executes next
  cstack,  \* the CIL stack, bottom first
  cvars,   \* the CIL machine's variables
  store,   \* the stack variables of the generated code
  gvars,   \* the local variables of the generated code
  truths   \* ghost: brtrue and brfalse have tested only 0 and 1 so far

execVars == <<ip, cip, cstack, cvars, store, gvars, truths>>
allVars == <<vars, execVars>>

CONSTANT Uninit  \* the content of a stack variable before it is assigned

\* The operations that are executed, and the types of the values they work on.
ExecOps == {"push", "push_integer", "dup", "pop", "pop_into", "unop", "binop", "binop_un",
            "compare", "compare_un", "convert", "call", "branch", "branch_true",
            "branch_false", "branch_compare", "branch_compare_un", "ret"}
Narrow == {"int8", "int16", "int32"}

ASSUME ExecAssumption ==
  /\ Size \in [IntTypes -> Nat \ {0}]
  /\ Size["bool"] = 2 /\ Size["int8"] >= 4 /\ \A t \in Narrow : Size[t] % 2 = 0
  /\ \A t, u \in Narrow : Precision[t] < Precision[u] <=> Size[t] < Size[u]
  /\ \A t \in Narrow : Size["int8"] <= Size[t] /\ Size[t] <= Size["int32"]
  /\ Ops \subseteq ExecOps
  /\ \A v \in Variables : VarType[v] \in Narrow
  /\ \A l \in Literals : LitType[l] \in Narrow /\ LitVal[l] \in Int
  /\ ConvTypes \subseteq Narrow
  /\ \A g \in Signatures : SigResult[g] \in Narrow
  /\ Arguments \subseteq Int
  /\ Uninit \notin Int

-----------------------------------------------------------------------------
(* Integers of a given width. *)

\* The types GCC converts to as signed ones.  scil_char_type is made signed.
GccSigned == {"int8", "int16", "int32", "char"}
\* The types that are signed in CIL.
CilSigned == {"int8", "int16", "int32"}

\* N as a value of a type of SIZE values.
Wrap(n, size, signed) ==
  LET m == n % size
  IN  IF signed /\ m >= size \div 2 THEN m - size ELSE m

\* CONVERT_EXPR to TYPE, as GCC does it,
Convert(type, n) == Wrap(n, Size[type], type \in GccSigned)
\* and as CIL does it when it stores to a variable of TYPE or for conv.*.
CilConvert(type, n) == Wrap(n, Size[type], type \in CilSigned)
Int32(n) == CilConvert("int32", n)

\* ldc.* carries a value of the type instr_ldc_* gives it.
ASSUME LiteralAssumption ==
  \A l \in Literals : Convert(LitType[l], LitVal[l]) = LitVal[l]

\* The unsigned type of the same precision (scil_hook_unsigned_type).
unsigned_type(type) ==
  CASE type = "int8" -> "uint8" [] type = "int16" -> "uint16" [] OTHER -> "uint32"

Abs(a) == IF a < 0 THEN -a ELSE a
\* Division that truncates towards zero.
Quotient(a, b) ==
  LET q == Abs(a) \div Abs(b) IN IF (a < 0) = (b < 0) THEN q ELSE -q

UnOps == {"neg", "not"}
BinOps == {"add", "sub", "mul", "div"}
BinOpsUn == {"div", "rem"}

Compute1(f, a) == IF f = "neg" THEN -a ELSE -a - 1

Compute(f, a, b) ==
  CASE f = "add" -> a + b
    [] f = "sub" -> a - b
    [] f = "mul" -> a * b
    [] f = "div" -> Quotient(a, b)
    [] f = "rem" -> a % b

\* A signed division has a result: CIL raises an exception where it has none,
\* and the machine traps.
Defined(f, a, b) == f = "div" => b # 0 /\ Int32(Quotient(a, b)) = Quotient(a, b)

Relations == {"eq", "gt", "lt", "ge", "le"}
RelationsUn == {"ne", "gt", "lt", "ge", "le"}

Holds(rel, a, b) ==
  CASE rel = "eq" -> a = b
    [] rel = "ne" -> a # b
    [] rel = "gt" -> a > b
    [] rel = "lt" -> a < b
    [] rel = "ge" -> a >= b
    [] rel = "le" -> a <= b

\* What CONVERT_EXPR to scil_bool_type, a byte with the precision of a bit, may
\* leave of N: its low byte where the conversion is done when the code runs, its
\* low bit where GCC folds it.
BoolConvert(n) == {n % Size["int8"], n % Size["bool"]}

-----------------------------------------------------------------------------
PoolVars == [type : Narrow, slot : 0..(MaxStack - 1)]

ExecInit ==
  /\ Init
  /\ ip = 0
  /\ cip = 0
  /\ cstack = <<>>
  /\ cvars = [v \in Variables |-> 0]
  /\ gvars = [v \in Variables |-> 0]
  /\ store = [p \in PoolVars |-> Uninit]
  /\ truths = TRUE

Translate == Next /\ UNCHANGED execVars

\* The compiled method is called with arguments its variables can hold.
Start ==
  /\ complete /\ ip = 0 /\ cstack = <<>>
  /\ store = [p \in PoolVars |-> Uninit]
  /\ \E a \in [Variables -> Arguments] :
       /\ \A v \in Variables : CilConvert(VarType[v], a[v]) = a[v]
       /\ cvars' = a
       /\ gvars' = a
  /\ ip' = 1
  /\ cip' = 1
  /\ UNCHANGED <<vars, cstack, store, truths>>

\* The instruction about to be executed, its statement and operands.
stmt == body[ip]
Var(n) == FromTop(stmt.in, n)       \* the n-th stack variable it reads
Val(n) == store[Var(n)]             \* and its content
CVal(n) == FromTop(cstack, n)
Dest == FromTop(stmt.out, 1)        \* the stack variable it assigns
CRest(n) == SubSeq(cstack, 1, Len(cstack) - n)

\* Both machines are at the same instruction, the generated code's variables
\* hold the CIL stack, and its locals are the CIL locals.
Agrees ==
  /\ ip = cip
  /\ ip # 0 => /\ Len(body[ip].in) = Len(cstack)
               /\ \A i \in 1..Len(cstack) : store[body[ip].in[i]] = cstack[i]
  /\ gvars = cvars

Continue == ip' = ip + 1 /\ cip' = cip + 1

\* Faulty form, for mutation: the value is stored unconverted.
Pushes_Unconverted(k, n, m) ==
  /\ cstack' = Append(CRest(k), n)
  /\ store' = [store EXCEPT ![Dest] = m]
  /\ Continue
  /\ UNCHANGED <<cvars, gvars>>

\* One instruction that pushes N in CIL after popping K, and assigns M converted
\* to the type of the stack variable in the generated code.
Pushes(k, n, m) ==
  /\ cstack' = Append(CRest(k), n)
  /\ store' = [store EXCEPT ![Dest] = Convert(Dest.type, m)]
  /\ Continue
  /\ UNCHANGED <<cvars, gvars>>

ExecPush ==
  /\ stmt.op = "push"
  /\ Pushes(0, cvars[stmt.arg], gvars[stmt.arg])

ExecPushInteger ==
  /\ stmt.op = "push_integer"
  /\ Pushes(0, LitVal[stmt.arg], Convert(LitType[stmt.arg], LitVal[stmt.arg]))

ExecDup == stmt.op = "dup" /\ Pushes(0, CVal(1), Val(1))

ExecPop ==
  /\ stmt.op = "pop"
  /\ cstack' = CRest(1)
  /\ Continue
  /\ UNCHANGED <<cvars, gvars, store>>

ExecPopInto ==
  /\ stmt.op = "pop_into"
  /\ cstack' = CRest(1)
  /\ cvars' = [cvars EXCEPT ![stmt.arg] = CilConvert(VarType[stmt.arg], CVal(1))]
  /\ gvars' = [gvars EXCEPT ![stmt.arg] = Convert(VarType[stmt.arg], Val(1))]
  /\ Continue
  /\ UNCHANGED store

\* neg, not, in the type of the operand.
ExecUnop ==
  /\ stmt.op = "unop"
  /\ \E f \in UnOps : Pushes(1, Int32(Compute1(f, CVal(1))), Compute1(f, Val(1)))

\* The operands are converted to the bigger type, and so is the result.
ExecBinop ==
  /\ stmt.op = "binop"
  /\ LET type == BiggerType(Var(2), Var(1)) IN
     \E f \in BinOps :
       /\ Defined(f, CVal(2), CVal(1))
       /\ Pushes(2, Int32(Compute(f, CVal(2), CVal(1))),
                 Convert(type, Compute(f, Convert(type, Val(2)), Convert(type, Val(1)))))

\* The operands of an unsigned operation, the N-th from the top: CIL's and, in
\* the generated code, converted to the unsigned type of the one on top.
CUnsigned(n) == CilConvert("uint32", CVal(n))
Unsigned(n) == Convert(unsigned_type(Var(1).type), Val(n))

\* A division by zero ends the execution.
ExecBinopUn ==
  /\ stmt.op = "binop_un"
  /\ CUnsigned(1) # 0 /\ Unsigned(1) # 0
  /\ \E f \in BinOpsUn :
       Pushes(2, Int32(Compute(f, CUnsigned(2), CUnsigned(1))),
              Compute(f, Unsigned(2), Unsigned(1)))

Truth(b) == IF b THEN 1 ELSE 0

\* The comparisons, in CIL and in the generated code.
CCompared(rel) == Holds(rel, CVal(2), CVal(1))
Compared(rel) ==
  LET type == BiggerType(Var(2), Var(1))
  IN  Holds(rel, Convert(type, Val(2)), Convert(type, Val(1)))
CComparedUn(rel) == Holds(rel, CUnsigned(2), CUnsigned(1))
ComparedUn(rel) == Holds(rel, Unsigned(2), Unsigned(1))

ExecCompare ==
  /\ stmt.op = "compare"
  /\ \E rel \in Relations : Pushes(2, Truth(CCompared(rel)), Truth(Compared(rel)))

ExecCompareUn ==
  /\ stmt.op = "compare_un"
  /\ \E rel \in RelationsUn : Pushes(2, Truth(CComparedUn(rel)), Truth(ComparedUn(rel)))

ExecConvert ==
  /\ stmt.op = "convert"
  /\ Pushes(1, CilConvert(stmt.arg, CVal(1)), Val(1))

\* A callee returns the same value to both, one its result type can hold.
ExecCall ==
  /\ stmt.op = "call"
  /\ \E r \in Arguments :
       LET type == SigResult[stmt.arg] IN
       /\ CilConvert(type, r) = r
       /\ Pushes(Len(SigParams[stmt.arg]), r, r)

\* A goto goes to the target's label, which must still be in the body.
Goto(taken, ctaken, k) ==
  /\ cstack' = CRest(k)
  /\ taken => stmt.target \in labels
  /\ ip' = IF taken THEN stmt.target ELSE ip + 1
  /\ cip' = IF ctaken THEN stmt.target ELSE cip + 1
  /\ UNCHANGED <<cvars, gvars>>

ExecBranch ==
  stmt.op = "branch" /\ Goto(TRUE, TRUE, 0) /\ UNCHANGED store
ExecBranchTrue ==
  /\ stmt.op = "branch_true"
  /\ \E b \in BoolConvert(Val(1)) : Goto(b # 0, CVal(1) # 0, 1)
  /\ UNCHANGED store
ExecBranchFalse ==
  /\ stmt.op = "branch_false"
  /\ \E b \in BoolConvert(Val(1)) : Goto(b = 0, CVal(1) = 0, 1)
  /\ UNCHANGED store

\* The result of the comparison goes through the stack variable of a bool, and
\* a conversion to bool that keeps 0 and 1.
CompareAndGoto(taken, ctaken) ==
  LET tmp == scil_get_stack_variable("bool", scil_stack_pop(stmt.in, 2))
  IN  /\ Goto(taken, ctaken, 2)
      /\ store' = [store EXCEPT ![tmp] = Truth(taken)]

ExecBranchCompare ==
  /\ stmt.op = "branch_compare"
  /\ \E rel \in Relations : CompareAndGoto(Compared(rel), CCompared(rel))

ExecBranchCompareUn ==
  /\ stmt.op = "branch_compare_un"
  /\ \E rel \in RelationsUn : CompareAndGoto(ComparedUn(rel), CComparedUn(rel))

ExecRet ==
  /\ stmt.op = "ret"
  /\ ip' = 0
  /\ cip' = 0
  /\ UNCHANGED <<cstack, cvars, gvars, store>>

\* If the instruction is brtrue or brfalse, it tests a truth value.
TestsATruth == stmt.op \in {"branch_true", "branch_false"} => CVal(1) \in {0, 1}

\* The machines are compared up to their first disagreement.
Execute ==
  /\ complete /\ ip # 0 /\ Agrees
  /\ \/ ExecPush \/ ExecPushInteger \/ ExecDup \/ ExecPop \/ ExecPopInto
     \/ ExecUnop \/ ExecBinop \/ ExecBinopUn \/ ExecCompare \/ ExecCompareUn
     \/ ExecConvert \/ ExecCall \/ ExecBranch \/ ExecBranchTrue \/ ExecBranchFalse
     \/ ExecBranchCompare \/ ExecBranchCompareUn \/ ExecRet
  /\ truths' = (truths /\ TestsATruth)
  /\ UNCHANGED vars

ExecNext == Translate \/ Start \/ Execute

ExecSpec == ExecInit /\ [][ExecNext]_allVars

-----------------------------------------------------------------------------
(* Properties *)

\* The stack with which statement I leaves for its successors.
Leaves(i) == IF body[i].op = "branch" THEN body[i].in ELSE body[i].out
Successors(i) ==
  (IF body[i].target = 0 THEN {} ELSE {body[i].target})
    \cup (IF body[i].op \in {"branch", "ret"} THEN {} ELSE {i + 1})

\* All paths to an instruction bring stack variables of the same types, not
\* merely of the same CIL types.
WellMerged ==
  \A i \in 1..Len(body) : \A j \in Successors(i) :
    \A n \in 1..Len(Leaves(i)) \cap 1..Len(body[j].in) :
      body[j].in[n].type = Leaves(i)[n].type

\* All arithmetic and all unsigned comparisons are done on stack variables of
\* CIL's own width.
WideArithmetic ==
  \A i \in 1..Len(body) :
    /\ body[i].op = "unop" => FromTop(body[i].in, 1).type = "int32"
    /\ body[i].op \in {"binop", "binop_un", "compare_un", "branch_compare_un"} =>
         \A n \in 1..2 : FromTop(body[i].in, n).type = "int32"

\* State types of the execution.
ExecTypeOK ==
  /\ ip \in 0..CodeLength /\ cip \in 0..CodeLength
  /\ cstack \in Seq(Int) /\ Len(cstack) <= MaxStack
  /\ cvars \in [Variables -> Int] /\ gvars \in [Variables -> Int]
  /\ \A p \in PoolVars :
       store[p] = Uninit \/ Convert(p.type, store[p]) = store[p]
  /\ truths \in BOOLEAN

\* A program whose paths bring the same types, whose arithmetic is wide and
\* whose brtrue and brfalse test 0 and 1 only runs as CIL says, along every path
\* and for all arguments: the saved stacks, the replaced and the cleared ones
\* name the variables that hold the values.  (For other values than 0 and 1,
\* brtrue and brfalse test what pop_convert leaves of them.)
ExecutionAgrees ==
  (complete /\ WellMerged /\ WideArithmetic /\ truths) => Agrees

\* instr_goto saves the stack of one path only, "because ECMA 335 explicitly
\* says that stacks must be the same regarding height and types of its elements
\* for all paths": so valid CIL needs no merging, and WellMerged no mention.
OneSavedStackIsEnough == (complete /\ WideArithmetic /\ truths) => Agrees

=============================================================================
