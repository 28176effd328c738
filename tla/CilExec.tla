------------------------------- MODULE CilExec -------------------------------
(***************************************************************************)
(* What the code made by CilMethod does, against what CIL says.            *)
(*                                                                         *)
(* CilRun executes the CIL code with a stack of values; TreeRun executes   *)
(* the statements of the body the way the gimplifier orders them: operands *)
(* from left to right, the function's address before its arguments, these  *)
(* from right to left where the target has PUSH_ARGS_REVERSED, the address *)
(* on the left of an assignment before the value, and a SAVE_EXPR where it *)
(* is met first.  Both log the calls, the stores to memory and the return. *)
(* Calls have the same effect in both: the k-th entry of the log, if a     *)
(* call, returns a value that depends on k and changes all of memory;      *)
(* newobj and newarr change none of it.                                    *)
(***************************************************************************)
EXTENDS CilMethod

CONSTANTS
  Locals,   \* numbers of the local variables and arguments
  Modulus,  \* values are 0..Modulus-1, 0 is null and false
  Length,   \* the length of every array
  Fuel      \* bound: instructions that are executed

ASSUME ExecAssumption == Modulus \in Nat \ {0} /\ Length \in Nat /\ Fuel \in Nat

Fit(n) == n % Modulus

\* A machine: variables, temporaries of SAVE_EXPRs, the SAVE_EXPRs whose first
\* place in the text has been passed, the log, why it has stopped, and the
\* target's PUSH_ARGS_REVERSED.
Machine(v, reversed) ==
  [var |-> v, tmp |-> <<>>, passed |-> {}, log |-> <<>>, halt |-> "no", reversed |-> reversed]

Halt(m, why) == [m EXCEPT !.halt = why]
Log(m, event) == [m EXCEPT !.log = Append(@, event)]
CallEvent(f, args) == [what |-> "call", at |-> f, args |-> args]
StoreEvent(ref, slot, v) == [what |-> "store", at |-> slot, args |-> <<ref, v>>]
Store(m, ref, slot, v) == Log(m, StoreEvent(ref, slot, v))

\* What the call logged last returns; newobj and newarr never return null.
Returned(m) ==
  IF Last(m.log).at \in {NewObj, NewArr} THEN 1 + (Len(m.log) % (Modulus - 1)) ELSE Fit(Len(m.log))

\* Memory at a field or element of ref; ref 0 stands for the static fields.
Memory(m, ref, slot) ==
  LET touched == {k \in DOMAIN m.log :
                    \/ m.log[k].what = "call" /\ m.log[k].at \notin {NewObj, NewArr}
                    \/ m.log[k].what = "store" /\ m.log[k].at = slot /\ m.log[k].args[1] = ref}
      last == CHOOSE k \in touched : \A j \in touched : j <= k
  IN  CASE touched = {} -> Fit(ref + slot)
        [] m.log[last].what = "store" -> m.log[last].args[2]
        [] OTHER -> Fit(last + ref + slot)

\* Elements lie behind the fields.
ElemSlot(index) == 20 + index

Field(m, ref, slot) == IF slot = MaxLength THEN Length ELSE Memory(m, ref, slot)

Apply(op, a, b) ==
  CASE op = "minus" -> Fit(a - b)
    [] op = "eq" -> IF a = b THEN 1 ELSE 0
    [] op = "lt" -> IF a < b THEN 1 ELSE 0
    [] op = "ge" -> IF a >= b THEN 1 ELSE 0

-----------------------------------------------------------------------------
(* Execution of trees. *)

\* A machine with the value of the tree, or one that has stopped.
Val(m, v) == [m |-> m, v |-> v]
Passing(m, t) == [m EXCEPT !.passed = @ \cup t.ids]

RECURSIVE Eval(_, _)
RECURSIVE EvalAll(_, _)

\* The values of trees, from left to right.
EvalAll(ts, m) ==
  IF ts = <<>> \/ m.halt # "no" THEN [m |-> m, v |-> <<>>]
  ELSE LET h == Eval(Head(ts), m)  r == EvalAll(Tail(ts), h.m)
       IN  [m |-> r.m, v |-> <<h.v>> \o r.v]

\* The values of a call's arguments, in the target's order.
EvalArgs(ts, m) ==
  IF m.reversed THEN LET e == EvalAll(Reverse(ts), m) IN [m |-> e.m, v |-> Reverse(e.v)]
  ELSE EvalAll(ts, m)

EvalCall(t, args, m) ==
  CASE m.halt # "no" -> Val(m, 0)
    [] t.val = NullReference -> Val(Halt(m, "null"), 0)
    [] t.val = IndexOutOfRange -> Val(Halt(m, "range"), 0)
    [] OTHER -> LET c == Log(m, CallEvent(t.val, args)) IN Val(c, Returned(c))

\* Reading through a null pointer.
Deref(m, ref, v) == IF m.halt = "no" /\ ref = 0 THEN Val(Halt(m, "fault"), 0) ELSE Val(m, v)

EvalSave(t, m) ==
  IF t.val \in m.passed
  THEN IF \E k \in DOMAIN m.tmp : m.tmp[k][1] = t.val
       THEN Val(m, (CHOOSE e \in ToSet(m.tmp) : e[1] = t.val)[2])
       ELSE Val(Halt(m, "uninitialised"), 0)
  ELSE LET e == Eval(t.kids[1], m)
           tmp == SelectSeq(e.m.tmp, LAMBDA x : x[1] # t.val) \o <<<<t.val, e.v>>>>
       IN  Val([Passing(e.m, t) EXCEPT !.tmp = tmp], e.v)

Eval(t, m) ==
  CASE m.halt # "no" -> Val(m, 0)
    [] t.op = "const" -> Val(m, t.val)
    [] t.op = "var" -> Val(m, m.var[t.val])
    [] t.op = "static" -> Val(m, Memory(m, 0, t.val))
    [] t.op = "save" -> EvalSave(t, m)
    [] t.op \in {"minus", "eq", "lt", "ge"} ->
         LET e == EvalAll(t.kids, m)
         IN  Val(e.m, IF e.m.halt = "no" THEN Apply(t.op, e.v[1], e.v[2]) ELSE 0)
    [] t.op = "compound" -> Eval(t.kids[2], Eval(t.kids[1], m).m)
    [] t.op = "cond" ->
         LET c == Eval(t.kids[1], m)
         IN  IF c.v # 0
             THEN LET e == Eval(t.kids[2], c.m) IN Val(Passing(e.m, t), e.v)
             ELSE Eval(t.kids[3], Passing(c.m, t.kids[2]))
    [] t.op = "load" -> LET e == Eval(t.kids[1], m) IN Deref(e.m, e.v, Field(e.m, e.v, t.val))
    [] t.op = "elem" ->
         LET e == EvalAll(t.kids, m)
         IN  IF e.m.halt # "no" THEN Val(e.m, 0)
             ELSE Deref(e.m, e.v[1], Memory(e.m, e.v[1], ElemSlot(e.v[2])))
    [] t.op = "vtable" -> LET e == Eval(t.kids[1], m) IN Deref(e.m, e.v, 0)
    [] t.op = "call" -> LET e == EvalArgs(t.kids, m) IN EvalCall(t, e.v, e.m)
    [] t.op = "vcall" ->
         LET e == EvalArgs(Tail(t.kids), Eval(Head(t.kids), m).m) IN EvalCall(t, e.v, e.m)

\* The machine after lvalue = tree.
Assign(lvalue, t, m) ==
  LET a == EvalAll(lvalue.kids, m)  e == Eval(t, a.m)
  IN  CASE e.m.halt # "no" -> e.m
        [] lvalue.op = "var" -> [e.m EXCEPT !.var[lvalue.val] = e.v]
        [] lvalue.op = "static" -> Store(e.m, 0, lvalue.val, e.v)
        [] lvalue.op = "load" -> Store(e.m, a.v[1], lvalue.val, e.v)
        [] lvalue.op = "elem" -> Store(e.m, a.v[1], ElemSlot(a.v[2]), e.v)

\* The text of the statements before the k-th has been passed.
AtStatement(m, k) == [m EXCEPT !.passed = UNION {body[j].ids : j \in 1..(k - 1)}]

RECURSIVE TreeRun(_, _, _)
Goto(l, m, fuel) ==
  IF LabelAt(l) = {} THEN Halt(m, "no label")
  ELSE TreeRun(CHOOSE k \in LabelAt(l) : TRUE, m, fuel)
TreeRun(k, n, fuel) ==
  LET m == AtStatement(n, k)  t == body[k]
      e == IF t.kids = <<>> THEN Val(m, 0) ELSE Eval(t.kids[1], m)
  IN  CASE n.halt # "no" \/ fuel = 0 -> n
        [] k > Len(body) -> Halt(n, "end")
        [] t.op = "label" -> TreeRun(k + 1, m, fuel)
        [] t.op = "goto" -> Goto(t.val, m, fuel - 1)
        [] t.op \in {"if", "unless"} ->
             IF e.m.halt = "no" /\ (e.v # 0) = (t.op = "if") THEN Goto(t.val, e.m, fuel - 1)
             ELSE TreeRun(k + 1, e.m, fuel - 1)
        [] t.op = "assign" -> TreeRun(k + 1, Assign(t.kids[1], t.kids[2], m), fuel - 1)
        [] t.op = "return" ->
             IF e.m.halt = "no" THEN Halt(Log(e.m, [what |-> "return", at |-> 0, args |-> <<e.v, 0>>]), "returned")
             ELSE e.m
        [] OTHER -> TreeRun(k + 1, Eval(t, m).m, fuel - 1)

-----------------------------------------------------------------------------
(* Execution of CIL. *)

\* The state after instruction i: s is the stack without its operands, a are
\* these, m the machine.  The result is a machine with a stack.
With(m, s) == [m |-> m, s |-> s]
Called(m, s, i, f, args) ==
  LET c == Log(m, CallEvent(f, args))
  IN  With(c, IF i.returns THEN Append(s, Returned(c)) ELSE s)

CilStep(i, s, a, m) ==
  CASE i.op = "ldloc" -> With(m, Append(s, m.var[i.arg]))
    [] i.op = "stloc" -> With([m EXCEPT !.var[i.arg] = a[1]], s)
    [] i.op = "ldc" -> With(m, Append(s, i.arg))
    [] i.op = "dup" -> With(m, s \o <<a[1], a[1]>>)
    [] i.op = "sub" -> With(m, Append(s, Apply("minus", a[1], a[2])))
    [] i.op = "ldsfld" -> With(m, Append(s, Memory(m, 0, i.arg)))
    [] i.op = "stsfld" -> With(Store(m, 0, i.arg, a[1]), s)
    [] i.op = "call" -> Called(m, s, i, i.arg, a)
    [] i.op = "newarr" -> Called(m, s, [i EXCEPT !.returns = TRUE], NewArr, a)
    [] i.op = "newobj" ->
         LET o == Log(m, CallEvent(NewObj, <<>>))
         IN  With(Log(o, CallEvent(i.arg, <<Returned(o)>> \o a)), Append(s, Returned(o)))
    [] i.op = "callvirt" /\ a[1] = 0 -> With(Halt(m, "virtual null"), s)
    [] i.op \in {"callinst", "ldfld", "stfld", "ldlen", "ldelem", "stelem"} /\ a[1] = 0 ->
         With(Halt(m, "null"), s)
    [] i.op \in {"ldelem", "stelem"} /\ a[2] >= Length -> With(Halt(m, "range"), s)
    [] i.op \in {"callvirt", "callinst"} -> Called(m, s, i, i.arg, a)
    [] i.op = "ldfld" -> With(m, Append(s, Memory(m, a[1], i.arg)))
    [] i.op = "ldlen" -> With(m, Append(s, Length))
    [] i.op = "stfld" -> With(Store(m, a[1], i.arg, a[2]), s)
    [] i.op = "ldelem" -> With(m, Append(s, Memory(m, a[1], ElemSlot(a[2]))))
    [] i.op = "stelem" -> With(Store(m, a[1], ElemSlot(a[2]), a[3]), s)
    [] i.op = "ret" ->
         With(Halt(Log(m, [what |-> "return", at |-> 0,
                           args |-> <<IF s = <<>> THEN 0 ELSE Last(s), 0>>]), "returned"), s)
    [] OTHER -> With(m, s)

Taken(i, a) ==
  CASE i.op = "br" -> TRUE
    [] i.op = "brtrue" -> a[1] # 0
    [] i.op = "brfalse" -> a[1] = 0
    [] i.op = "beq" -> a[1] = a[2]
    [] OTHER -> FALSE

RECURSIVE CilRun(_, _, _, _)
CilRun(pc, s, m, fuel) ==
  IF m.halt # "no" \/ fuel = 0 THEN m
  ELSE LET i == code[pc]
           a == SubSeq(s, Len(s) - Operands(i) + 1, Len(s))
           r == CilStep(i, SubSeq(s, 1, Len(s) - Operands(i)), a, m)
       IN  CilRun(IF Taken(i, a) THEN i.arg ELSE pc + 1, r.s, r.m, fuel - 1)

-----------------------------------------------------------------------------
(* Properties. *)

Inputs == [Locals -> 0..1]

Cil(v) == CilRun(1, <<>>, Machine(v, FALSE), Fuel)
\* Every statement comes from an instruction of its own.
Generated(v, reversed) == TreeRun(1, Machine(v, reversed), Fuel)

\* Two executions that do the same, as far as they have got.
SameExecution(c, g) ==
  IF c.halt = "no" THEN IsPrefix(c.log, g.log) \/ IsPrefix(g.log, c.log)
  ELSE g.halt = c.halt /\ g.log = c.log

\* Trees are evaluated late, but a method whose statements never overtake what
\* is on the stack, whose checked references are free of calls and checked
\* last, whose calls take no two arguments that depend on their order, and
\* whose branches leave nothing on the stack, makes the calls and stores of its
\* CIL code on every target, with the same values, in the same order, and
\* returns the same or stops for the same reason.
LateEvaluationAgrees ==
  (compiled /\ odd = {}) =>
    \A v \in Inputs, reversed \in BOOLEAN :
      LET c == Cil(v)
      IN  c.halt # "virtual null" => SameExecution(c, Generated(v, reversed))

=============================================================================
