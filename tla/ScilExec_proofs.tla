-------------------------- MODULE ScilExec_proofs --------------------------
(***************************************************************************)
(* Proofs about ScilMethod and then about ScilExec, for every method       *)
(* length, max_stack, set of value types, variables, literals, signatures  *)
(* and arguments, and every width of the integer types.                    *)
(*                                                                         *)
(* About the translation alone: every stack, current or saved for a label, *)
(* is one the verifier expects there, kept in typed slots in order.        *)
(*                                                                         *)
(* The translation knows one stack per statement and the execution follows *)
(* the gotos, so the argument has two halves.  Linked, kept by every       *)
(* instruction translated, says that the stack a statement leaves is as    *)
(* high as the one each of its successors was translated with; slots being *)
(* in order, WellMerged makes the two the same.  Running, kept by every    *)
(* instruction executed, says that each variable holds a value of its own  *)
(* width, so that the conversions on the way lose nothing.                 *)
(***************************************************************************)
EXTENDS ScilExec, TLAPS

-----------------------------------------------------------------------------
(* Sequences *)

\* Popping n of the Len(s) elements of a sequence.
LEMMA PopSeq ==
  ASSUME NEW S, NEW s \in Seq(S), NEW n \in Nat, n <= Len(s)
  PROVE  /\ SubSeq(s, 1, Len(s) - n) \in Seq(S)
         /\ Len(SubSeq(s, 1, Len(s) - n)) = Len(s) - n
         /\ \A i \in 1..(Len(s) - n) : SubSeq(s, 1, Len(s) - n)[i] = s[i]
  OBVIOUS

\* An element counted from the top is an element.
LEMMA TopElement ==
  ASSUME NEW S, NEW s \in Seq(S), NEW n \in Nat \ {0}, n <= Len(s)
  PROVE  FromTop(s, n) \in S
  BY DEF FromTop

\* get_stack maps every type to the type of a stack variable.
LEMMA GetStackType ==
  ASSUME NEW type \in Types
  PROVE  get_stack(type) \in StackTypes
  BY DEF get_stack, Types, StackTypes, PoolTypes, IntTypes, FloatTypes

\* The type of a stack variable is a type, and its own pool's type.
LEMMA StackTypeIsType == StackTypes \subseteq Types
  BY DEF StackTypes, PoolTypes, Types, IntTypes, FloatTypes

\* No type is called "void".
LEMMA VoidIsNoType == "void" \notin Types /\ "void" \notin CilTypes
  BY TypeAssumption DEF Types, CilTypes, IntTypes, FloatTypes, PoolTypes

\* CilOf yields a CIL type.
LEMMA CilOfType ==
  ASSUME NEW type \in Types
  PROVE  CilOf(type) \in CilTypes
  BY DEF CilOf, CilTypes, Types, IntTypes, FloatTypes

\* CilOf, element by element.
LEMMA CilSeqType ==
  ASSUME NEW t \in Seq(Types)
  PROVE  CilSeq(t) \in Seq(CilTypes) /\ Len(CilSeq(t)) = Len(t)
  BY CilOfType DEF CilSeq

-----------------------------------------------------------------------------
(* Stacks whose variables are in order *)

\* Popping keeps a stack good.
LEMMA PopGood ==
  ASSUME NEW s, NEW c, GoodStack(s, c), NEW n \in Nat, n <= Len(c)
  PROVE  GoodStack(scil_stack_pop(s, n), SubSeq(c, 1, Len(c) - n))
  BY PopSeq, SizeAssumption DEF GoodStack, scil_stack_pop, SlotsInOrder

\* instr_push keeps a stack good, if there is room for one more.
LEMMA PushGood ==
  ASSUME NEW s, NEW c, GoodStack(s, c),
         NEW type \in Types \cup {"void"}, NEW ctype \in CilTypes \cup {"void"},
         type = "void" <=> ctype = "void",
         Len(CilPush(ctype, c)) <= MaxStack
  PROVE  GoodStack(instr_push(type, s), CilPush(ctype, c))
  <1>1. CASE type = "void"
    BY <1>1 DEF instr_push, CilPush
  <1>2. CASE type # "void"
    <2>1. scil_get_stack_variable(type, s) \in StackVars
      BY <1>2, GetStackType DEF scil_get_stack_variable, StackVars, GoodStack
    <2>2. scil_get_stack_variable(type, s).slot = Len(s)
      BY DEF scil_get_stack_variable
    <2>3. instr_push(type, s) = Append(s, scil_get_stack_variable(type, s))
      BY <1>2 DEF instr_push, scil_stack_push
    <2>4. CilPush(ctype, c) = Append(c, ctype) /\ ctype \in CilTypes
      BY <1>2 DEF CilPush
    <2>5. SlotsInOrder(Append(s, scil_get_stack_variable(type, s)))
      BY <2>1, <2>2 DEF SlotsInOrder, GoodStack
    <2>. QED
      BY <2>1, <2>3, <2>4, <2>5 DEF GoodStack
  <1>. QED
    BY <1>1, <1>2

-----------------------------------------------------------------------------
(* One iteration of the loop *)

\* The instruction at pc begins with a good stack, whichever way it is reached.
LEMMA EntryGood ==
  ASSUME IndInv, pc <= CodeLength
  PROVE  /\ pc \in Labels
         /\ GoodStack(Entry, CilAt)
  <1>1. pc \in Labels
    BY DEF IndInv, TypeOK, pc, Labels
  <1>2. pc > Len(body)
    BY DEF IndInv, TypeOK, pc
  <1>3. CASE data[pc].kind = "saved"
    BY <1>1, <1>3 DEF IndInv, SavedAsExpected, Entry, CilAt
  <1>4. CASE data[pc].kind # "saved"
    <2>1. ~expected[pc].set
      BY <1>1, <1>2, <1>4 DEF IndInv, AheadSavedIffExpected
    <2>2. Entry = stack /\ CilAt = IF falls THEN cil ELSE <<>>
      BY <1>4, <2>1 DEF Entry, CilAt
    <2>3. GoodStack(<<>>, <<>>)
      BY SizeAssumption DEF GoodStack, SlotsInOrder
    <2>. QED
      BY <1>1, <2>2, <2>3 DEF IndInv, CurrentStack
  <1>. QED
    BY <1>1, <1>3, <1>4

\* The label of pc is passed: its data and what the verifier knows stay in step.
LEMMA LabelPassed ==
  ASSUME IndInv, pc <= CodeLength
  PROVE  LET d == scil_set_label
             e == CilLabelled
         IN  /\ d \in [Labels -> LabelData]
             /\ e \in [Labels -> CilEntry]
             /\ \A l \in Labels : d[l].kind = "saved" =>
                  e[l].set /\ GoodStack(d[l].stack, e[l].types)
             /\ \A l \in Labels : d[l].kind # "saved" => d[l].stack = <<>>
             /\ \A l \in Labels : l > Len(body) + 1 =>
                  d[l].kind = IF e[l].set THEN "saved" ELSE "none"
             /\ d[pc].kind # "none"
             /\ e[pc].set
  <1>. DEFINE d == scil_set_label
              e == CilLabelled
  <1>1. pc \in Labels /\ GoodStack(Entry, CilAt) /\ pc = Len(body) + 1
    BY EntryGood DEF pc
  <1>2. e = [expected EXCEPT ![pc] = [set |-> TRUE, types |-> CilAt]]
    BY DEF CilLabelled, Branched
  <1>3. e \in [Labels -> CilEntry] /\ e[pc].set
    BY <1>1, <1>2 DEF IndInv, TypeOK, CilEntry, GoodStack
  <1>4. [kind |-> "passed", stack |-> <<>>] \in LabelData
    BY DEF LabelData
  <1>5. d \in [Labels -> LabelData]
    BY <1>1, <1>4 DEF IndInv, TypeOK, scil_set_label
  <1>6. \A l \in Labels : l # pc => d[l] = data[l] /\ e[l] = expected[l]
    BY <1>1, <1>2 DEF scil_set_label, IndInv, TypeOK
  <1>7. data[pc].kind = "saved" => d[pc] = data[pc] /\ e[pc].types = expected[pc].types
    BY <1>1, <1>2 DEF scil_set_label, IndInv, TypeOK, SavedAsExpected, CilAt
  <1>8. data[pc].kind # "saved" => d[pc].kind = "passed" /\ d[pc].stack = <<>>
    BY <1>1, <1>4 DEF scil_set_label, IndInv, TypeOK, LabelData, UnsavedEmpty
  <1>9. \A l \in Labels : d[l].kind = "saved" =>
                  e[l].set /\ GoodStack(d[l].stack, e[l].types)
    BY <1>1, <1>3, <1>6, <1>7, <1>8 DEF IndInv, SavedAsExpected
  <1>10. \A l \in Labels : d[l].kind # "saved" => d[l].stack = <<>>
    BY <1>1, <1>6, <1>7, <1>8 DEF IndInv, UnsavedEmpty
  <1>11. \A l \in Labels : l > Len(body) + 1 =>
                  d[l].kind = IF e[l].set THEN "saved" ELSE "none"
    BY <1>1, <1>6 DEF IndInv, TypeOK, AheadSavedIffExpected, Labels
  <1>12. d[pc].kind # "none"
    BY <1>7, <1>8
  <1>. QED
    BY <1>3, <1>5, <1>9, <1>10, <1>11, <1>12

\* What Append1 does to everything but the labels' data.
LEMMA AppendGood ==
  ASSUME IndInv, pc <= CodeLength,
         NEW op, NEW arg \in Args, NEW t \in 0..CodeLength,
         NEW s \in Seq(StackVars), NEW c \in Seq(CilTypes), NEW f \in BOOLEAN,
         f => GoodStack(s, c), ~f => s = <<>>,
         Append1(op, arg, t, s, c, f)
  PROVE  /\ stack' \in Seq(StackVars) /\ cil' \in Seq(CilTypes)
         /\ labels' \subseteq Labels /\ body' \in Seq(Statements)
         /\ complete' \in BOOLEAN /\ falls' \in BOOLEAN
         /\ CurrentStack'
         /\ Len(body') = Len(body) + 1
  <1>1. pc \in Labels /\ GoodStack(Entry, CilAt)
    BY EntryGood
  <1>2. [op |-> op, arg |-> arg, target |-> t, in |-> Entry, out |-> s] \in Statements
    BY <1>1 DEF Append1, Statements, GoodStack
  <1>3. body' \in Seq(Statements) /\ Len(body') = Len(body) + 1
    BY <1>2 DEF Append1, IndInv, TypeOK
  <1>. QED
    BY <1>1, <1>3 DEF Append1, IndInv, TypeOK, CurrentStack

\* An instruction that only passes its own label.
LEMMA PassingStep ==
  ASSUME IndInv, pc <= CodeLength,
         NEW op, NEW arg \in Args,
         NEW s \in Seq(StackVars), NEW c \in Seq(CilTypes), NEW f \in BOOLEAN,
         f => GoodStack(s, c), ~f => s = <<>>,
         Append1(op, arg, 0, s, c, f),
         data' = scil_set_label, expected' = CilLabelled, UNCHANGED forced
  PROVE  IndInv'
  <1>1. 0 \in 0..CodeLength
    BY SizeAssumption
  <1>2. /\ stack' \in Seq(StackVars) /\ cil' \in Seq(CilTypes)
        /\ labels' \subseteq Labels /\ body' \in Seq(Statements)
        /\ complete' \in BOOLEAN /\ falls' \in BOOLEAN
        /\ CurrentStack'
        /\ Len(body') = Len(body) + 1
    BY <1>1, AppendGood
  <1>3. TypeOK'
    BY <1>2, LabelPassed DEF TypeOK, IndInv
  <1>4. SavedAsExpected' /\ UnsavedEmpty' /\ AheadSavedIffExpected'
    BY <1>2, LabelPassed DEF SavedAsExpected, UnsavedEmpty, AheadSavedIffExpected
  <1>. QED
    BY <1>2, <1>3, <1>4 DEF IndInv

\* Every instruction that does not branch.
LEMMA StraightStep ==
  ASSUME IndInv, pc <= CodeLength,
         NEW op, NEW arg \in Args, NEW pops \in Seq(CilTypes),
         NEW type \in Types \cup {"void"}, NEW c \in CilTypes \cup {"void"},
         type = "void" <=> c = "void",
         Straight(op, arg, pops, type, c)
  PROVE  IndInv'
  <1>. DEFINE s0 == scil_stack_pop(Entry, Len(pops))
              c0 == SubSeq(CilAt, 1, Len(CilAt) - Len(pops))
  <1>1. GoodStack(Entry, CilAt)
    BY EntryGood
  <1>2. Len(pops) \in Nat /\ Len(pops) <= Len(CilAt)
    BY DEF Straight, HasOnTop
  <1>3. GoodStack(s0, c0)
    BY <1>1, <1>2, PopGood
  <1>4. Append1(op, arg, 0, instr_push(type, s0), CilPush(c, c0), TRUE)
    BY DEF Straight
  <1>5. Len(CilPush(c, c0)) <= MaxStack
    BY <1>4 DEF Append1
  <1>6. GoodStack(instr_push(type, s0), CilPush(c, c0))
    BY <1>3, <1>5, PushGood
  <1>7. data' = scil_set_label /\ expected' = CilLabelled /\ UNCHANGED forced
    BY DEF Straight
  <1>8. instr_push(type, s0) \in Seq(StackVars) /\ CilPush(c, c0) \in Seq(CilTypes)
    BY <1>6 DEF GoodStack
  <1>. HIDE DEF s0, c0
  <1>. QED
    BY <1>4, <1>6, <1>7, <1>8, PassingStep

\* The two kinds of them, those with a result and those without.
LEMMA PushingStep ==
  ASSUME IndInv, pc <= CodeLength,
         NEW op, NEW arg \in Args, NEW pops \in Seq(CilTypes),
         NEW type \in Types, NEW c \in CilTypes,
         Straight(op, arg, pops, type, c)
  PROVE  IndInv'
  <1>1. type # "void" /\ c # "void"
    BY VoidIsNoType
  <1>. QED
    BY <1>1, StraightStep

LEMMA PoppingStep ==
  ASSUME IndInv, pc <= CodeLength,
         NEW op, NEW arg \in Args, NEW pops \in Seq(CilTypes),
         Straight(op, arg, pops, "void", "void")
  PROVE  IndInv'
  BY StraightStep

\* Every branch: T gets the popped stack unless something is known of it.
LEMMA JumpStep ==
  ASSUME IndInv, pc <= CodeLength,
         NEW op, NEW pops \in Seq(CilTypes), NEW t \in Labels,
         NEW s \in Seq(StackVars), NEW c \in Seq(CilTypes), NEW f \in BOOLEAN,
         f => GoodStack(s, c), ~f => s = <<>>,
         Jump(op, pops, t, s, c, f)
  PROVE  IndInv'
  <1>. DEFINE s0 == scil_stack_pop(Entry, Len(pops))
              c0 == SubSeq(CilAt, 1, Len(CilAt) - Len(pops))
              d == scil_set_label
              e == CilLabelled
  <1>1. GoodStack(Entry, CilAt)
    BY EntryGood
  <1>2. Len(pops) \in Nat /\ Len(pops) <= Len(CilAt)
    BY DEF Jump, HasOnTop
  <1>3. GoodStack(s0, c0)
    BY <1>1, <1>2, PopGood
  <1>4. /\ MayBranch(e, t, c0)
        /\ data' = instr_goto(d, t, s0)
        /\ forced' = forced \cup {t}
        /\ expected' = Branched(e, t, c0)
        /\ Append1(op, NoArg, t, s, c, f)
    BY DEF Jump, PoppedStack, set_forced
  <1>5. NoArg \in Args /\ t \in 0..CodeLength
    BY DEF Args, Labels
  <1>6. /\ stack' \in Seq(StackVars) /\ cil' \in Seq(CilTypes)
        /\ labels' \subseteq Labels /\ body' \in Seq(Statements)
        /\ complete' \in BOOLEAN /\ falls' \in BOOLEAN
        /\ CurrentStack'
        /\ Len(body') = Len(body) + 1
    BY <1>4, <1>5, AppendGood
  <1>7. /\ d \in [Labels -> LabelData]
        /\ e \in [Labels -> CilEntry]
        /\ \A l \in Labels : d[l].kind = "saved" =>
             e[l].set /\ GoodStack(d[l].stack, e[l].types)
        /\ \A l \in Labels : d[l].kind # "saved" => d[l].stack = <<>>
        /\ \A l \in Labels : l > Len(body) + 1 =>
             d[l].kind = IF e[l].set THEN "saved" ELSE "none"
    BY LabelPassed
  <1>8. /\ s0 \in Seq(StackVars) /\ c0 \in Seq(CilTypes)
        /\ [kind |-> "saved", stack |-> s0] \in LabelData
        /\ [set |-> TRUE, types |-> c0] \in CilEntry
    BY <1>3 DEF GoodStack, LabelData, CilEntry
  <1>. HIDE DEF s0, c0, d, e
  <1>9. data' \in [Labels -> LabelData] /\ expected' \in [Labels -> CilEntry]
    BY <1>4, <1>7, <1>8 DEF instr_goto, Branched
  <1>10. TypeOK'
    BY <1>4, <1>6, <1>9 DEF TypeOK, IndInv
  <1>11. \A l \in Labels : l # t => data'[l] = d[l] /\ expected'[l] = e[l]
    BY <1>4, <1>7 DEF instr_goto, Branched
  <1>12. expected'[t].set /\ expected'[t].types = c0
    BY <1>4, <1>7 DEF Branched
  <1>13. CASE d[t].kind = "none"
    <2>1. data'[t] = [kind |-> "saved", stack |-> s0]
      BY <1>4, <1>7, <1>13 DEF instr_goto
    <2>2. SavedAsExpected'
      BY <1>3, <1>7, <1>11, <1>12, <2>1 DEF SavedAsExpected
    <2>3. UnsavedEmpty'
      BY <1>7, <1>11, <2>1 DEF UnsavedEmpty
    <2>4. data'[t].kind = "saved"
      BY <2>1
    <2>5. AheadSavedIffExpected'
      BY <1>6, <1>7, <1>11, <1>12, <2>4 DEF AheadSavedIffExpected
    <2>. QED
      BY <1>6, <1>10, <2>2, <2>3, <2>5 DEF IndInv
  <1>14. CASE d[t].kind # "none"
    <2>1. data'[t] = d[t]
      BY <1>4, <1>7, <1>14 DEF instr_goto
    <2>2. e[t].set => e[t].types = expected'[t].types
      BY <1>4, <1>12 DEF MayBranch
    <2>3. t > Len(body) + 1 => d[t].kind = "saved"
      <3>. SUFFICES ASSUME t > Len(body) + 1 PROVE d[t].kind = "saved"
        OBVIOUS
      <3>. QED
        BY <1>7, <1>14
    <2>4. SavedAsExpected'
      BY <1>7, <1>11, <1>12, <2>1, <2>2 DEF SavedAsExpected
    <2>5. UnsavedEmpty'
      BY <1>7, <1>11, <2>1 DEF UnsavedEmpty
    <2>6. AheadSavedIffExpected'
      BY <1>6, <1>7, <1>11, <1>12, <2>1, <2>3 DEF AheadSavedIffExpected
    <2>. QED
      BY <1>6, <1>10, <2>4, <2>5, <2>6 DEF IndInv
  <1>. QED
    BY <1>13, <1>14

-----------------------------------------------------------------------------
(* The invariant *)

\* The operands of the instructions and the types their results have.
LEMMA OperandTypes ==
  /\ \A v \in Variables : VarType[v] \in Types /\ CilOf(VarType[v]) \in CilTypes
  /\ \A l \in Literals : LitType[l] \in Types /\ LitCil[l] \in CilTypes
  /\ \A g \in Signatures :
       /\ CilSeq(SigParams[g]) \in Seq(CilTypes)
       /\ SigResult[g] \in Types \cup {"void"}
       /\ SigResult[g] # "void" => CilOf(SigResult[g]) \in CilTypes
  /\ Variables \subseteq Args /\ Literals \subseteq Args
  /\ Signatures \subseteq Args /\ Types \subseteq Args /\ NoArg \in Args
  /\ ConvTypes \subseteq Types
  /\ "pointer" \in Types /\ "bool" \in Types
  /\ {"i4", "i8", "F", "O"} \subseteq CilTypes
  /\ ValueTypes \subseteq CilTypes
  <1>1. {"i4", "i8", "F", "O"} \subseteq CilTypes /\ ValueTypes \subseteq CilTypes
    BY DEF CilTypes
  <1>2. \A v \in Variables : VarType[v] \in Types /\ CilOf(VarType[v]) \in CilTypes
    BY TypeAssumption, CilOfType
  <1>3. \A l \in Literals : LitType[l] \in Types /\ LitCil[l] \in CilTypes
    BY TypeAssumption, <1>1
  <1>4. \A g \in Signatures :
          /\ CilSeq(SigParams[g]) \in Seq(CilTypes)
          /\ SigResult[g] \in Types \cup {"void"}
          /\ SigResult[g] # "void" => CilOf(SigResult[g]) \in CilTypes
    BY TypeAssumption, CilOfType, CilSeqType
  <1>5. ConvTypes \subseteq Types
    BY TypeAssumption DEF Types
  <1>6. "pointer" \in Types /\ "bool" \in Types
    BY DEF Types, IntTypes
  <1>. QED
    BY <1>1, <1>2, <1>3, <1>4, <1>5, <1>6 DEF Args

\* The variable on top of the stack of an instruction that pops one value or
\* two has a type.
LEMMA TopTypes ==
  ASSUME IndInv, pc <= CodeLength, NEW n \in Nat \ {0}, n <= Len(CilAt)
  PROVE  /\ FromTop(Entry, n).type \in StackTypes
         /\ FromTop(Entry, n).type \in Types
         /\ FromTop(CilAt, n) \in CilTypes
  <1>1. GoodStack(Entry, CilAt)
    BY EntryGood
  <1>2. FromTop(Entry, n) \in StackVars /\ FromTop(CilAt, n) \in CilTypes
    BY <1>1, TopElement DEF GoodStack
  <1>. QED
    BY <1>2, StackTypeIsType DEF StackVars

\* Init establishes the invariant.
LEMMA InitInv == Init => IndInv
  <1>. SUFFICES ASSUME Init PROVE IndInv
    OBVIOUS
  <1>1. GoodStack(<<>>, <<>>)
    BY SizeAssumption DEF GoodStack, SlotsInOrder
  <1>2. /\ [kind |-> "none", stack |-> <<>>] \in LabelData
        /\ [set |-> FALSE, types |-> <<>>] \in CilEntry
    BY DEF LabelData, CilEntry
  <1>3. data \in [Labels -> LabelData] /\ expected \in [Labels -> CilEntry]
    BY <1>2 DEF Init
  <1>4. TypeOK
    <2>1. stack = <<>> /\ body = <<>> /\ cil = <<>> /\ forced = {} /\ labels = {}
      BY DEF Init
    <2>2. complete \in BOOLEAN /\ falls \in BOOLEAN
      BY DEF Init
    <2>. QED
      BY <1>3, <2>1, <2>2 DEF TypeOK
  <1>5. CurrentStack
    BY <1>1 DEF Init, CurrentStack
  <1>6. SavedAsExpected /\ UnsavedEmpty /\ AheadSavedIffExpected
    BY DEF Init, SavedAsExpected, UnsavedEmpty, AheadSavedIffExpected
  <1>. QED
    BY <1>4, <1>5, <1>6 DEF IndInv

\* Every instruction keeps it.
LEMMA InstructionInv ==
  ASSUME IndInv, pc <= CodeLength, InstructionAt
  PROVE  IndInv'
  <1>0. GoodStack(Entry, CilAt) /\ Len(CilAt) \in Nat
    BY EntryGood DEF GoodStack
  <1>1. ASSUME NEW v \in Variables, scil_instr_push(v) PROVE IndInv'
    <2>1. Straight("push", v, <<>>, VarType[v], CilOf(VarType[v]))
      BY <1>1 DEF scil_instr_push
    <2>2. /\ v \in Args /\ <<>> \in Seq(CilTypes)
          /\ VarType[v] \in Types /\ CilOf(VarType[v]) \in CilTypes
      BY OperandTypes
    <2>. QED
      BY <2>1, <2>2, PushingStep
  <1>2. ASSUME NEW v \in Variables, scil_instr_push_address(v) PROVE IndInv'
    <2>1. Straight("push_address", v, <<>>, "pointer", "O")
      BY <1>2 DEF scil_instr_push_address
    <2>2. /\ v \in Args /\ <<>> \in Seq(CilTypes)
          /\ "pointer" \in Types /\ "O" \in CilTypes
      BY OperandTypes
    <2>. QED
      BY <2>1, <2>2, PushingStep
  <1>3. ASSUME NEW v \in Variables, scil_instr_pop_into(v) PROVE IndInv'
    <2>1. Straight("pop_into", v, <<CilOf(VarType[v])>>, "void", "void")
      BY <1>3 DEF scil_instr_pop_into
    <2>2. /\ v \in Args /\ <<CilOf(VarType[v])>> \in Seq(CilTypes)
      BY OperandTypes
    <2>. QED
      BY <2>1, <2>2, PoppingStep
  <1>4. ASSUME NEW l \in Literals, scil_instr_push_integer(l) PROVE IndInv'
    <2>1. Straight("push_integer", l, <<>>, LitType[l], LitCil[l])
      BY <1>4 DEF scil_instr_push_integer
    <2>2. /\ l \in Args /\ <<>> \in Seq(CilTypes)
          /\ LitType[l] \in Types /\ LitCil[l] \in CilTypes
      BY OperandTypes
    <2>. QED
      BY <2>1, <2>2, PushingStep
  <1>5. CASE scil_instr_dup
    <2>. DEFINE type == FromTop(Entry, 1).type
                c == FromTop(CilAt, 1)
    <2>1. Len(CilAt) >= 1
      BY <1>0, <1>5 DEF scil_instr_dup
    <2>2. type \in Types /\ c \in CilTypes
      BY <1>0, <2>1, TopTypes
    <2>3. /\ Append1("dup", NoArg, 0, instr_push(type, Entry), CilPush(c, CilAt), TRUE)
          /\ data' = scil_set_label /\ expected' = CilLabelled /\ UNCHANGED forced
      BY <1>5 DEF scil_instr_dup
    <2>4. Len(CilPush(c, CilAt)) <= MaxStack
      BY <2>3 DEF Append1
    <2>. HIDE DEF type, c
    <2>5. GoodStack(instr_push(type, Entry), CilPush(c, CilAt))
      BY <1>0, <2>2, <2>4, PushGood, VoidIsNoType
    <2>6. /\ instr_push(type, Entry) \in Seq(StackVars)
          /\ CilPush(c, CilAt) \in Seq(CilTypes)
      BY <2>5 DEF GoodStack
    <2>. QED
      BY <2>3, <2>5, <2>6, OperandTypes, PassingStep
  <1>6. CASE scil_instr_pop
    <2>1. PICK c \in CilTypes :
            Straight("pop", NoArg, <<c>>, "void", "void")
      BY <1>6 DEF scil_instr_pop
    <2>2. /\ NoArg \in Args /\ <<c>> \in Seq(CilTypes)
      BY OperandTypes
    <2>. QED
      BY <2>1, <2>2, PoppingStep
  <1>7. ASSUME NEW type \in Types, scil_instr_push_field(type) PROVE IndInv'
    <2>1. PICK o \in {"O"} \cup ValueTypes :
            Straight("push_field", type, <<o>>, type, CilOf(type))
      BY <1>7 DEF scil_instr_push_field
    <2>2. /\ type \in Args /\ <<o>> \in Seq(CilTypes)
          /\ type \in Types /\ CilOf(type) \in CilTypes
      BY OperandTypes, CilOfType
    <2>. QED
      BY <2>1, <2>2, PushingStep
  <1>8. ASSUME NEW type \in Types, scil_instr_push_field_address(type) PROVE IndInv'
    <2>1. Straight("push_field_address", type, <<"O">>, "pointer", "O")
      BY <1>8 DEF scil_instr_push_field_address
    <2>2. /\ type \in Args /\ <<"O">> \in Seq(CilTypes)
          /\ "pointer" \in Types /\ "O" \in CilTypes
      BY OperandTypes
    <2>. QED
      BY <2>1, <2>2, PushingStep
  <1>9. ASSUME NEW type \in Types, scil_instr_pop_into_field(type) PROVE IndInv'
    <2>1. Straight("pop_into_field", type, <<"O", CilOf(type)>>, "void", "void")
      BY <1>9 DEF scil_instr_pop_into_field
    <2>2. /\ type \in Args /\ <<"O", CilOf(type)>> \in Seq(CilTypes)
      BY OperandTypes, CilOfType
    <2>. QED
      BY <2>1, <2>2, PoppingStep
  <1>10. ASSUME NEW type \in ConvTypes, scil_instr_convert(type) PROVE IndInv'
    <2>1. PICK c \in {"i4", "i8", "F"} :
            Straight("convert", type, <<c>>, type, CilOf(type))
      BY <1>10 DEF scil_instr_convert
    <2>2. /\ type \in Args /\ <<c>> \in Seq(CilTypes)
          /\ type \in Types /\ CilOf(type) \in CilTypes
      BY OperandTypes, CilOfType
    <2>. QED
      BY <2>1, <2>2, PushingStep
  <1>11. CASE scil_instr_push_virtual_method
    <2>1. Straight("push_virtual_method", NoArg, <<"O">>, "pointer", "O")
      BY <1>11 DEF scil_instr_push_virtual_method
    <2>2. /\ NoArg \in Args /\ <<"O">> \in Seq(CilTypes)
          /\ "pointer" \in Types /\ "O" \in CilTypes
      BY OperandTypes
    <2>. QED
      BY <2>1, <2>2, PushingStep
  <1>12. CASE instr_unop
    <2>1. PICK c \in {"i4", "i8", "F"} :
            /\ HasOnTop(CilAt, <<c>>)
            /\ Straight("unop", NoArg, <<c>>, FromTop(Entry, 1).type, c)
      BY <1>12 DEF instr_unop
    <2>2. FromTop(Entry, 1).type \in Types
      BY <1>0, <2>1, TopTypes DEF HasOnTop
    <2>3. NoArg \in Args /\ <<c>> \in Seq(CilTypes) /\ c \in CilTypes
      BY OperandTypes
    <2>. QED
      BY <2>1, <2>2, <2>3, PushingStep
  <1>13. CASE instr_binop
    <2>. DEFINE type == BiggerType(FromTop(Entry, 2), FromTop(Entry, 1))
    <2>1. PICK c \in {"i4", "i8", "F"} :
            /\ HasOnTop(CilAt, <<c, c>>)
            /\ Straight("binop", NoArg, <<c, c>>, type, c)
      BY <1>13 DEF instr_binop
    <2>2. FromTop(Entry, 1).type \in Types /\ FromTop(Entry, 2).type \in Types
      BY <1>0, <2>1, TopTypes DEF HasOnTop
    <2>3. type \in Types
      BY <2>2 DEF BiggerType
    <2>4. NoArg \in Args /\ <<c, c>> \in Seq(CilTypes) /\ c \in CilTypes
      BY OperandTypes
    <2>. HIDE DEF type
    <2>. QED
      BY <2>1, <2>3, <2>4, PushingStep
  <1>14. CASE instr_binop_un
    <2>1. PICK c \in {"i4", "i8"} :
            /\ HasOnTop(CilAt, <<c, c>>)
            /\ Straight("binop_un", NoArg, <<c, c>>, FromTop(Entry, 1).type, c)
      BY <1>14 DEF instr_binop_un
    <2>2. FromTop(Entry, 1).type \in Types
      BY <1>0, <2>1, TopTypes DEF HasOnTop
    <2>3. NoArg \in Args /\ <<c, c>> \in Seq(CilTypes) /\ c \in CilTypes
      BY OperandTypes
    <2>. QED
      BY <2>1, <2>2, <2>3, PushingStep
  <1>15. ASSUME NEW op, append_compare(op) PROVE IndInv'
    <2>1. PICK c \in {"i4", "i8", "F", "O"} :
            Straight(op, NoArg, <<c, c>>, "bool", "i4")
      BY <1>15 DEF append_compare
    <2>2. /\ NoArg \in Args /\ <<c, c>> \in Seq(CilTypes)
          /\ "bool" \in Types /\ "i4" \in CilTypes
      BY OperandTypes
    <2>. QED
      BY <2>1, <2>2, PushingStep
  <1>16. ASSUME NEW g \in Signatures, scil_instr_call(g) PROVE IndInv'
    <2>. DEFINE r == SigResult[g]
                c == IF r = "void" THEN "void" ELSE CilOf(r)
                pops == CilSeq(SigParams[g])
    <2>1. Straight("call", g, pops, r, c)
      BY <1>16 DEF scil_instr_call
    <2>2. g \in Args /\ pops \in Seq(CilTypes) /\ r \in Types \cup {"void"}
      BY OperandTypes
    <2>3. c \in CilTypes \cup {"void"} /\ (r = "void" <=> c = "void")
      BY OperandTypes, VoidIsNoType
    <2>. HIDE DEF r, c, pops
    <2>. QED
      BY <2>1, <2>2, <2>3, StraightStep
  <1>17. ASSUME NEW g \in Signatures, scil_instr_call_indirect(g) PROVE IndInv'
    <2>. DEFINE r == SigResult[g]
                c == IF r = "void" THEN "void" ELSE CilOf(r)
                pops == <<"O">> \o CilSeq(SigParams[g])
    <2>1. Straight("call_indirect", g, pops, r, c)
      BY <1>17 DEF scil_instr_call_indirect
    <2>2. g \in Args /\ pops \in Seq(CilTypes) /\ r \in Types \cup {"void"}
      BY OperandTypes
    <2>3. c \in CilTypes \cup {"void"} /\ (r = "void" <=> c = "void")
      BY OperandTypes, VoidIsNoType
    <2>. HIDE DEF r, c, pops
    <2>. QED
      BY <2>1, <2>2, <2>3, StraightStep
  <1>18. ASSUME NEW g \in Signatures, scil_instr_newobj(g) PROVE IndInv'
    <2>1. Straight("newobj", g, CilSeq(SigParams[g]), "pointer", "O")
      BY <1>18 DEF scil_instr_newobj
    <2>2. /\ g \in Args /\ CilSeq(SigParams[g]) \in Seq(CilTypes)
          /\ "pointer" \in Types /\ "O" \in CilTypes
      BY OperandTypes
    <2>. QED
      BY <2>1, <2>2, PushingStep
  <1>19. CASE scil_instr_new_static_delegate
    <2>1. Straight("new_static_delegate", NoArg, <<"O", "O">>, "pointer", "O")
      BY <1>19 DEF scil_instr_new_static_delegate
    <2>2. /\ NoArg \in Args /\ <<"O", "O">> \in Seq(CilTypes)
          /\ "pointer" \in Types /\ "O" \in CilTypes
      BY OperandTypes
    <2>. QED
      BY <2>1, <2>2, PushingStep
  <1>20. ASSUME NEW t \in Labels, scil_instr_branch(t) PROVE IndInv'
    <2>1. Jump("branch", <<>>, t, <<>>, <<>>, FALSE)
      BY <1>20 DEF scil_instr_branch
    <2>2. <<>> \in Seq(CilTypes) /\ <<>> \in Seq(StackVars)
      OBVIOUS
    <2>. QED
      BY <2>1, <2>2, JumpStep
  <1>21. ASSUME NEW t \in Labels, NEW op, scil_instr_branch_cond(op, t) PROVE IndInv'
    <2>1. PICK c \in {"i4", "i8", "O"} :
            Jump(op, <<c>>, t, scil_stack_pop(Entry, 1),
                 SubSeq(CilAt, 1, Len(CilAt) - 1), TRUE)
      BY <1>21 DEF scil_instr_branch_cond
    <2>2. Len(CilAt) >= 1
      BY <2>1 DEF Jump, HasOnTop
    <2>3. GoodStack(scil_stack_pop(Entry, 1), SubSeq(CilAt, 1, Len(CilAt) - 1))
      BY <1>0, <2>2, PopGood
    <2>4. /\ scil_stack_pop(Entry, 1) \in Seq(StackVars)
          /\ SubSeq(CilAt, 1, Len(CilAt) - 1) \in Seq(CilTypes)
      BY <2>3 DEF GoodStack
    <2>5. <<c>> \in Seq(CilTypes)
      BY OperandTypes
    <2>. QED
      BY <2>1, <2>3, <2>4, <2>5, JumpStep
  <1>22. ASSUME NEW t \in Labels, NEW op, instr_branch_compare(op, t) PROVE IndInv'
    <2>. DEFINE s2 == scil_stack_pop(Entry, 2)
                c2 == SubSeq(CilAt, 1, Len(CilAt) - 2)
                s1 == instr_push("bool", s2)
    <2>1. PICK c \in {"i4", "i8", "F", "O"} :
            Jump(op, <<c, c>>, t, scil_stack_pop(s1, 1), c2, TRUE)
      BY <1>22 DEF instr_branch_compare
    <2>2. Len(CilAt) >= 2
      BY <2>1 DEF Jump, HasOnTop
    <2>3. GoodStack(s2, c2)
      BY <1>0, <2>2, PopGood
    <2>4. c2 \in Seq(CilTypes) /\ Len(c2) = Len(CilAt) - 2 /\ Len(CilAt) <= MaxStack
      BY <1>0, <2>2, PopSeq DEF GoodStack
    <2>. HIDE DEF s2, c2
    <2>5. CilPush("i4", c2) = Append(c2, "i4")
      BY DEF CilPush
    <2>6. Len(Append(c2, "i4")) = Len(c2) + 1 /\ Append(c2, "i4") \in Seq(CilTypes)
      BY <2>4, OperandTypes
    <2>7. Len(CilPush("i4", c2)) <= MaxStack
      BY <1>0, <2>2, <2>4, <2>5, <2>6, SizeAssumption
    <2>8. GoodStack(s1, CilPush("i4", c2))
      <3>1. "bool" \in Types \cup {"void"} /\ "i4" \in CilTypes \cup {"void"}
        BY OperandTypes
      <3>. QED
        BY <2>3, <2>7, <3>1, PushGood
    <2>. HIDE DEF s1
    <2>9. SubSeq(Append(c2, "i4"), 1, Len(Append(c2, "i4")) - 1) = c2
      BY <2>4, OperandTypes
    <2>10. GoodStack(scil_stack_pop(s1, 1), c2)
      <3>1. GoodStack(s1, Append(c2, "i4"))
        BY <2>5, <2>8
      <3>2. 1 \in Nat /\ 1 <= Len(Append(c2, "i4"))
        BY <2>4, <2>6
      <3>3. GoodStack(scil_stack_pop(s1, 1),
                      SubSeq(Append(c2, "i4"), 1, Len(Append(c2, "i4")) - 1))
        BY <3>1, <3>2, PopGood
      <3>. QED
        BY <3>3, <2>9
    <2>11. scil_stack_pop(s1, 1) \in Seq(StackVars) /\ <<c, c>> \in Seq(CilTypes)
      BY <2>10, OperandTypes DEF GoodStack
    <2>. QED
      BY <2>1, <2>4, <2>10, <2>11, JumpStep
  <1>23. CASE scil_instr_ret
    <2>. DEFINE s == IF Entry = <<>> THEN Entry ELSE scil_stack_pop(Entry, 1)
    <2>1. Len(CilAt) <= 1
      BY <1>23 DEF scil_instr_ret
    <2>2. s = <<>>
      BY <1>0, <2>1 DEF GoodStack, scil_stack_pop
    <2>3. /\ Append1("ret", NoArg, 0, s, <<>>, FALSE)
          /\ data' = scil_set_label /\ expected' = CilLabelled /\ UNCHANGED forced
      BY <1>23 DEF scil_instr_ret
    <2>. HIDE DEF s
    <2>4. s \in Seq(StackVars) /\ <<>> \in Seq(CilTypes) /\ NoArg \in Args
      BY <2>2, OperandTypes
    <2>. QED
      BY <2>2, <2>3, <2>4, PassingStep
  <1>. QED
    BY <1>1, <1>2, <1>3, <1>4, <1>5, <1>6, <1>7, <1>8, <1>9, <1>10, <1>11, <1>12,
       <1>13, <1>14, <1>15, <1>16, <1>17, <1>18, <1>19, <1>20, <1>21, <1>22, <1>23
       DEF InstructionAt

\* The end of the method keeps it, and so does every step.
LEMMA NextInv == IndInv /\ [Next]_vars => IndInv'
  <1>. SUFFICES ASSUME IndInv, [Next]_vars PROVE IndInv'
    OBVIOUS
  <1>1. CASE parse_instruction
    BY <1>1, InstructionInv DEF parse_instruction
  <1>2. CASE scil_complete_method_def
    <2>1. UNCHANGED <<stack, data, forced, body, cil, expected, falls>>
      BY <1>2 DEF scil_complete_method_def
    <2>2. TypeOK'
      BY <1>2 DEF scil_complete_method_def, IndInv, TypeOK
    <2>3. CurrentStack' /\ SavedAsExpected' /\ UnsavedEmpty' /\ AheadSavedIffExpected'
      BY <2>1 DEF IndInv, CurrentStack, SavedAsExpected, UnsavedEmpty,
                  AheadSavedIffExpected
    <2>. QED
      BY <2>2, <2>3 DEF IndInv
  <1>3. CASE UNCHANGED vars
    BY <1>3 DEF vars, IndInv, TypeOK, CurrentStack, SavedAsExpected, UnsavedEmpty,
                AheadSavedIffExpected
  <1>. QED
    BY <1>1, <1>2, <1>3 DEF Next

-----------------------------------------------------------------------------
(* Theorems *)

\* The invariant holds in every state of the translation of every method.
THEOREM Invariance == Spec => []IndInv
  BY InitInv, NextInv, PTL DEF Spec

\* The state of the translation keeps its types.
THEOREM TypeCorrect == Spec => []TypeOK
  <1>1. IndInv => TypeOK
    BY DEF IndInv
  <1>. QED
    BY <1>1, Invariance, PTL

\* No push of scil-instructions.c assigns a variable that is on the stack, in
\* any method, whatever stacks its branches saved.
THEOREM NoReuse == Spec => []NoLiveVariableReused
  <1>1. ASSUME NEW s \in Seq(StackVars), SlotsInOrder(s) PROVE Separate(s)
    <2>1. ASSUME NEW i \in 1..Len(s), NEW j \in 1..(i - 1) PROVE s[i] # s[j]
      <3>1. i \in Nat /\ j \in 1..Len(s) /\ j # i
        OBVIOUS
      <3>2. s[i].slot = i - 1 /\ s[j].slot = j - 1
        BY <1>1, <3>1 DEF SlotsInOrder
      <3>. QED
        BY <3>1, <3>2
    <2>2. ASSUME NEW i \in 1..Len(s), NEW type \in Types
          PROVE  scil_get_stack_variable(type, s) # s[i]
      <3>1. s[i].slot = i - 1
        BY <1>1 DEF SlotsInOrder
      <3>2. scil_get_stack_variable(type, s).slot = Len(s)
        BY DEF scil_get_stack_variable
      <3>3. i - 1 # Len(s)
        OBVIOUS
      <3>. QED
        BY <3>1, <3>2, <3>3
    <2>. QED
      BY <2>1, <2>2 DEF Separate
  <1>2. IndInv => NoLiveVariableReused
    <2>. SUFFICES ASSUME IndInv PROVE NoLiveVariableReused
      OBVIOUS
    <2>1. SlotsInOrder(<<>>)
      BY DEF SlotsInOrder
    <2>2. stack \in Seq(StackVars) /\ SlotsInOrder(stack)
      BY <2>1 DEF IndInv, TypeOK, CurrentStack, GoodStack
    <2>3. \A l \in Labels : data[l].kind = "saved" =>
            data[l].stack \in Seq(StackVars) /\ SlotsInOrder(data[l].stack)
      BY DEF IndInv, SavedAsExpected, GoodStack
    <2>. QED
      BY <1>1, <2>2, <2>3 DEF NoLiveVariableReused
  <1>. QED
    BY <1>2, Invariance, PTL

\* The virtual stack is always as high as the verifier's.
THEOREM SameHeights == Spec => []HeightsAgree
  <1>1. IndInv => HeightsAgree
    BY DEF HeightsAgree, IndInv, CurrentStack, SavedAsExpected, GoodStack
  <1>. QED
    BY <1>1, Invariance, PTL

\* No typed stack is indexed beyond the max_stack elements it has.
THEOREM NoOverrun == Spec => []IndexInBounds
  <1>1. ASSUME NEW s, NEW c, GoodStack(s, c)
        PROVE  \A i \in 1..Len(s) : s[i].slot < MaxStack
    BY <1>1, SizeAssumption DEF GoodStack, SlotsInOrder
  <1>2. IndInv => IndexInBounds
    <2>. SUFFICES ASSUME IndInv PROVE IndexInBounds
      OBVIOUS
    <2>1. \A i \in 1..Len(stack) : stack[i].slot < MaxStack
      <3>1. CASE falls
        BY <3>1, <1>1 DEF IndInv, CurrentStack
      <3>2. CASE ~falls
        BY <3>2 DEF IndInv, CurrentStack
      <3>. QED
        BY <3>1, <3>2
    <2>2. ASSUME NEW l \in Labels
          PROVE  \A i \in 1..Len(data[l].stack) : data[l].stack[i].slot < MaxStack
      <3>1. CASE data[l].kind = "saved"
        BY <3>1, <1>1 DEF IndInv, SavedAsExpected
      <3>2. CASE data[l].kind # "saved"
        BY <3>2 DEF IndInv, UnsavedEmpty
      <3>. QED
        BY <3>1, <3>2
    <2>. QED
      BY <2>1, <2>2 DEF IndexInBounds
  <1>. QED
    BY <1>2, Invariance, PTL

\* An instruction appends one statement and its own label; a branch names its
\* target and forces that label.
LEMMA InstructionTarget ==
  ASSUME InstructionAt
  PROVE  \E st :
           /\ body' = Append(body, st)
           /\ labels' = labels \cup {pc}
           /\ complete' = complete
           /\ \/ st.target = 0 /\ forced' = forced
              \/ st.target \in Labels /\ forced' = forced \cup {st.target}
  <1>. DEFINE Goal == \E st :
           /\ body' = Append(body, st)
           /\ labels' = labels \cup {pc}
           /\ complete' = complete
           /\ \/ st.target = 0 /\ forced' = forced
              \/ st.target \in Labels /\ forced' = forced \cup {st.target}
  <1>. SUFFICES Goal
    OBVIOUS
  <1>0. ASSUME NEW op, NEW arg, NEW t, NEW s, NEW c, NEW f,
               Append1(op, arg, t, s, c, f),
               \/ t = 0 /\ forced' = forced
               \/ t \in Labels /\ forced' = forced \cup {t}
        PROVE  Goal
    <2>. DEFINE st == [op |-> op, arg |-> arg, target |-> t, in |-> Entry, out |-> s]
    <2>1. st.target = t
      OBVIOUS
    <2>2. /\ body' = Append(body, st)
          /\ labels' = labels \cup {pc}
          /\ complete' = complete
      BY <1>0 DEF Append1
    <2>. HIDE DEF st
    <2>. QED
      BY <1>0, <2>1, <2>2
  <1>. HIDE DEF Goal
  <1>1. ASSUME NEW op, NEW arg, NEW pops, NEW type, NEW c,
               Straight(op, arg, pops, type, c)
        PROVE  Goal
    BY <1>0, <1>1 DEF Straight
  <1>2. ASSUME NEW op, NEW pops, NEW t \in Labels, NEW s, NEW c, NEW f,
               Jump(op, pops, t, s, c, f)
        PROVE  Goal
    BY <1>0, <1>2 DEF Jump, set_forced
  <1>3. CASE \E t \in Labels :
               \/ scil_instr_branch(t)
               \/ \E op \in {"branch_true", "branch_false"} :
                    scil_instr_branch_cond(op, t)
               \/ \E op \in {"branch_compare", "branch_compare_un"} :
                    instr_branch_compare(op, t)
    BY <1>2, <1>3 DEF scil_instr_branch, scil_instr_branch_cond, instr_branch_compare
  <1>4. CASE scil_instr_dup \/ scil_instr_ret
    BY <1>0, <1>4 DEF scil_instr_dup, scil_instr_ret
  <1>5. CASE \E v \in Variables :
               \/ scil_instr_push(v)
               \/ scil_instr_push_address(v)
               \/ scil_instr_pop_into(v)
    BY <1>1, <1>5 DEF scil_instr_push, scil_instr_push_address, scil_instr_pop_into
  <1>6. CASE \E l \in Literals : scil_instr_push_integer(l)
    BY <1>1, <1>6 DEF scil_instr_push_integer
  <1>7. CASE \E type \in Types :
               \/ scil_instr_push_field(type)
               \/ scil_instr_push_field_address(type)
               \/ scil_instr_pop_into_field(type)
    BY <1>1, <1>7 DEF scil_instr_push_field, scil_instr_push_field_address,
                      scil_instr_pop_into_field
  <1>8. CASE (\E type \in ConvTypes : scil_instr_convert(type))
               \/ scil_instr_pop \/ scil_instr_push_virtual_method
               \/ scil_instr_new_static_delegate
    BY <1>1, <1>8 DEF scil_instr_convert, scil_instr_pop,
                      scil_instr_push_virtual_method, scil_instr_new_static_delegate
  <1>9. CASE instr_unop \/ instr_binop \/ instr_binop_un
    BY <1>1, <1>9 DEF instr_unop, instr_binop, instr_binop_un
  <1>10. CASE \E op \in {"compare", "compare_un"} : append_compare(op)
    BY <1>1, <1>10 DEF append_compare
  <1>11. CASE \E g \in Signatures :
                \/ scil_instr_call(g)
                \/ scil_instr_call_indirect(g)
                \/ scil_instr_newobj(g)
    BY <1>1, <1>11 DEF scil_instr_call, scil_instr_call_indirect, scil_instr_newobj
  <1>. QED
    BY <1>3, <1>4, <1>5, <1>6, <1>7, <1>8, <1>9, <1>10, <1>11 DEF InstructionAt

\* Every goto so far has its target forced; before scil_complete_method_def every
\* instruction translated has its label, afterwards every forced one has.
Targets ==
  /\ Len(body) <= CodeLength
  /\ \A i \in 1..Len(body) : body[i].target # 0 => body[i].target \in forced
  /\ ~complete => labels = 1..Len(body)
  /\ complete => labels = forced

\* Every step keeps that.
LEMMA TargetsStep == IndInv /\ Targets /\ [Next]_vars => Targets'
  <1>. SUFFICES ASSUME IndInv, Targets, [Next]_vars PROVE Targets'
    OBVIOUS
  <1>. USE SizeAssumption
  <1>0. body \in Seq(Statements) /\ forced \subseteq 1..CodeLength /\ complete \in BOOLEAN
    BY DEF IndInv, TypeOK, Labels
  <1>1. CASE parse_instruction
    <2>1. ~complete /\ Len(body) + 1 <= CodeLength /\ InstructionAt
      BY <1>1 DEF parse_instruction, pc
    <2>2. PICK st : /\ body' = Append(body, st)
                    /\ labels' = labels \cup {pc}
                    /\ complete' = complete
                    /\ \/ st.target = 0 /\ forced' = forced
                       \/ st.target \in Labels /\ forced' = forced \cup {st.target}
      BY <2>1, InstructionTarget
    <2>3. body' \in Seq(Statements)
      BY NextInv DEF IndInv, TypeOK
    <2>4. Len(body') = Len(body) + 1 /\ Len(body) \in Nat
      BY <1>0, <2>2, <2>3
    <2>5. ASSUME NEW i \in 1..Len(body'), body'[i].target # 0
          PROVE  body'[i].target \in forced'
      <3>1. CASE i = Len(body) + 1
        <4>1. body'[i] = st
          BY <3>1, <1>0, <2>2
        <4>. QED
          BY <4>1, <2>2, <2>5
      <3>2. CASE i # Len(body) + 1
        <4>1. i \in 1..Len(body) /\ body'[i] = body[i]
          BY <3>2, <1>0, <2>2, <2>4
        <4>. QED
          BY <4>1, <2>2, <2>5 DEF Targets
      <3>. QED
        BY <3>1, <3>2
    <2>6. labels' = 1..Len(body')
      BY <2>1, <2>2, <2>4 DEF Targets, pc
    <2>. QED
      BY <2>1, <2>2, <2>4, <2>5, <2>6 DEF Targets
  <1>2. CASE scil_complete_method_def
    <2>1. Len(body) = CodeLength
      BY <1>0, <1>2 DEF scil_complete_method_def, pc, Targets
    <2>2. labels' = forced
      BY <1>0, <1>2, <2>1 DEF scil_complete_method_def, Targets
    <2>. QED
      BY <1>2, <2>2 DEF scil_complete_method_def, Targets
  <1>3. CASE UNCHANGED vars
    BY <1>3 DEF vars, Targets
  <1>. QED
    BY <1>1, <1>2, <1>3 DEF Next

\* scil_complete_method_def leaves every goto of every method its label.
THEOREM GotosKeepLabels == Spec => []GotosHaveLabels
  <1>1. Init => Targets
    BY SizeAssumption DEF Init, Targets
  <1>2. Targets => GotosHaveLabels
    BY DEF Targets, GotosHaveLabels
  <1>. QED
    BY <1>1, <1>2, TargetsStep, Invariance, PTL DEF Spec

-----------------------------------------------------------------------------
(* The shape of the generated code *)

\* The operations that branch.
Branching == {"branch", "branch_true", "branch_false", "branch_compare",
              "branch_compare_un"}
\* The operations that push.
Pushing == {"push", "push_integer", "dup", "unop", "binop", "binop_un", "compare",
            "compare_un", "convert", "call"}

\* How many stack variables a statement pops,
Pops(st) ==
  CASE st.op \in {"pop", "pop_into", "unop", "convert", "branch_true", "branch_false"} -> 1
    [] st.op \in {"binop", "binop_un", "compare", "compare_un", "branch_compare",
                  "branch_compare_un"} -> 2
    [] st.op = "call" -> Len(SigParams[st.arg])
    [] OTHER          -> 0

\* and the type of the one it pushes.
Result(st) ==
  CASE st.op = "push"                -> VarType[st.arg]
    [] st.op = "push_integer"        -> LitType[st.arg]
    [] st.op \in {"dup", "unop", "binop_un"} -> FromTop(st.in, 1).type
    [] st.op = "binop"   -> BiggerType(FromTop(st.in, 2), FromTop(st.in, 1))
    [] st.op \in {"compare", "compare_un"} -> "bool"
    [] st.op = "convert" -> st.arg
    [] st.op = "call"    -> SigResult[st.arg]
    [] OTHER             -> "void"

\* The stack with which statement ST leaves for its successors.
LeftBy(st) == instr_push(Result(st), scil_stack_pop(st.in, Pops(st)))

\* The operand of an instruction is what the instruction takes.
GoodArg(st) ==
  /\ st.op \in {"push", "pop_into"} => st.arg \in Variables
  /\ st.op = "push_integer" => st.arg \in Literals
  /\ st.op = "convert" => st.arg \in ConvTypes
  /\ st.op = "call" => st.arg \in Signatures

\* The variables of S are integers of at most 32 bits.
NarrowStack(s) == \A i \in 1..Len(s) : s[i].type \in Narrow

\* A stack the generated code works with.
ExecStack(s) ==
  /\ s \in Seq(StackVars) /\ Len(s) <= MaxStack
  /\ SlotsInOrder(s) /\ NarrowStack(s)

\* What a statement is like: its operand, the stack it finds and the one it leaves,
\* and its target.
Shape(st) ==
  /\ st.op \in ExecOps
  /\ GoodArg(st)
  /\ ExecStack(st.in)
  /\ Pops(st) <= Len(st.in)
  /\ st.op = "dup" => Len(st.in) >= 1
  /\ st.op \notin {"branch", "ret"} => st.out = LeftBy(st) /\ ExecStack(st.out)
  /\ st.op \in {"branch", "ret"} => Len(st.out) = 0
  /\ IF st.op \in Branching THEN st.target \in Labels ELSE st.target = 0

\* A statement that may fall through to the next.
Falling(st) == st.op \notin {"branch", "ret"}

\* The code so far: every statement has its shape, and the stacks along its edges
\* have the height the verifier expects.
Linked ==
  /\ Len(body) <= CodeLength
  /\ \A i \in 1..Len(body) :
       /\ Shape(body[i])
       /\ expected[i].set /\ Len(expected[i].types) = Len(body[i].in)
       /\ body[i].target # 0 =>
            /\ expected[body[i].target].set
            /\ Len(expected[body[i].target].types) = Len(LeftBy(body[i]))
       /\ i > 1 /\ Falling(body[i - 1]) => Len(body[i].in) = Len(body[i - 1].out)
  /\ Len(body) > 0 =>
       /\ falls = Falling(body[Len(body)])
       /\ stack = body[Len(body)].out
       /\ Len(body[1].in) = 0
  /\ Len(body) = 0 => falls /\ Len(stack) = 0
  /\ complete => Len(body) = CodeLength /\ ~falls

\* Every stack variable is an integer of at most 32 bits.
Narrowed ==
  /\ NarrowStack(stack)
  /\ \A l \in Labels : NarrowStack(data[l].stack)

\* N is a value of TYPE.
Fits(type, n) == n \in Int /\ Convert(type, n) = n

\* The machines' own state.
Running ==
  /\ ip \in 0..CodeLength /\ cip \in 0..CodeLength
  /\ ~complete => ip = 0 /\ cip = 0 /\ gvars = cvars
  /\ cstack \in Seq(Int) /\ Len(cstack) <= MaxStack
  /\ cvars \in [Variables -> Int] /\ gvars \in [Variables -> Int]
  /\ \A v \in Variables : Fits(VarType[v], cvars[v])
  /\ store \in [PoolVars -> Int \cup {Uninit}]
  /\ \A p \in PoolVars : store[p] # Uninit => Fits(p.type, store[p])
  /\ truths \in BOOLEAN

\* The inductive invariant, beside that of the translation.
ExecInv == Linked /\ Narrowed /\ Running /\ ExecutionAgrees

-----------------------------------------------------------------------------
(* Numbers of a given width *)

\* The remainder of an integer lies below the divisor.
LEMMA RemainderRange ==
  ASSUME NEW n \in Int, NEW k \in Nat \ {0}
  PROVE  n % k \in Nat /\ n % k < k
  OBVIOUS

\* A number below the divisor is its own remainder.
LEMMA SmallRemainder ==
  ASSUME NEW k \in Nat \ {0}, NEW n \in 0..(k - 1)
  PROVE  n % k = n
  OBVIOUS

\* A negative number above minus the divisor has the remainder one divisor up.
LEMMA NegativeRemainder ==
  ASSUME NEW k \in Nat \ {0}, NEW n \in Int, -k <= n, n < 0
  PROVE  n % k = n + k
  OBVIOUS

\* An even number is twice its half.
LEMMA Halves ==
  ASSUME NEW k \in Nat \ {0}, k % 2 = 0
  PROVE  k \div 2 \in Nat /\ k = (k \div 2) + (k \div 2)
  OBVIOUS

\* Wrap yields a number of the width,
LEMMA WrapSigned ==
  ASSUME NEW n \in Int, NEW k \in Nat \ {0}, k % 2 = 0
  PROVE  /\ Wrap(n, k, TRUE) \in Int
         /\ -(k \div 2) <= Wrap(n, k, TRUE) /\ Wrap(n, k, TRUE) < k \div 2
  <1>. DEFINE m == n % k
              h == k \div 2
  <1>1. m \in Nat /\ m < k
    BY RemainderRange
  <1>2. h \in Nat /\ k = h + h
    BY Halves
  <1>. DEFINE w == Wrap(n, k, TRUE)
  <1>3. w = IF m >= h THEN m - k ELSE m
    BY DEF Wrap
  <1>. HIDE DEF m, h, w
  <1>4. w \in Int /\ -h <= w /\ w < h
    BY ONLY <1>1, <1>2, <1>3, k \in Nat
  <1>. QED
    BY <1>4 DEF h, w

\* a natural number if the width is unsigned,
LEMMA WrapUnsigned ==
  ASSUME NEW n \in Int, NEW k \in Nat \ {0}
  PROVE  Wrap(n, k, FALSE) \in Nat
  BY RemainderRange DEF Wrap

\* and leaves such a number alone.
LEMMA WrapSame ==
  ASSUME NEW k \in Nat \ {0}, k % 2 = 0,
         NEW n \in Int, -(k \div 2) <= n, n < k \div 2
  PROVE  Wrap(n, k, TRUE) = n
  <1>. DEFINE m == n % k
              h == k \div 2
  <1>1. h \in Nat /\ k = h + h /\ -h <= n /\ n < h
    BY Halves
  <1>2. Wrap(n, k, TRUE) = IF m >= h THEN m - k ELSE m
    BY DEF Wrap
  <1>. HIDE DEF h
  <1>3. CASE n >= 0
    <2>1. n \in 0..(k - 1)
      BY <1>1, <1>3
    <2>2. m = n
      BY <2>1, SmallRemainder
    <2>. HIDE DEF m
    <2>3. ~(m >= h)
      BY <2>2, <1>1
    <2>. QED
      BY <1>2, <2>2, <2>3
  <1>4. CASE n < 0
    <2>1. -k <= n
      BY <1>1
    <2>2. m = n + k
      BY <2>1, <1>4, NegativeRemainder
    <2>. HIDE DEF m
    <2>3. m >= h /\ m - k = n
      BY <2>2, <1>1
    <2>. QED
      BY <1>2, <2>3
  <1>5. n >= 0 \/ n < 0
    BY ONLY n \in Int
  <1>. QED
    BY ONLY <1>3, <1>4, <1>5

\* The types of the stack variables.
LEMMA NarrowTypes ==
  ASSUME NEW type \in Narrow
  PROVE  /\ Size[type] \in Nat \ {0} /\ Size[type] % 2 = 0
         /\ type \in GccSigned /\ type \in CilSigned /\ type \in IntTypes
         /\ type \in StackTypes /\ type \in Types /\ type # "void"
         /\ get_stack(type) = type
         /\ 4 <= Size[type]
  <1>1. type \in IntTypes /\ type \in GccSigned /\ type \in CilSigned
    BY DEF Narrow, IntTypes, GccSigned, CilSigned
  <1>2. Size[type] \in Nat \ {0} /\ Size["int8"] \in Nat
    BY <1>1, ExecAssumption DEF IntTypes
  <1>3. Size[type] % 2 = 0 /\ Size["int8"] >= 4 /\ Size["int8"] <= Size[type]
    BY ExecAssumption
  <1>4. type \in StackTypes /\ type \in Types /\ type # "void"
    BY DEF Narrow, StackTypes, PoolTypes, Types, IntTypes
  <1>5. get_stack(type) = type
    BY DEF Narrow, get_stack
  <1>. QED
    BY <1>1, <1>2, <1>3, <1>4, <1>5

\* Conversion to the type of a stack variable is CIL's conversion, yields a value
\* that fits, and
LEMMA ConvertFits ==
  ASSUME NEW type \in Narrow, NEW n \in Int
  PROVE  /\ Convert(type, n) = CilConvert(type, n)
         /\ Fits(type, Convert(type, n))
  <1>. DEFINE k == Size[type]
              w == Wrap(n, k, TRUE)
  <1>1. k \in Nat \ {0} /\ k % 2 = 0 /\ type \in GccSigned /\ type \in CilSigned
    BY NarrowTypes
  <1>2. \A x : Convert(type, x) = Wrap(x, k, TRUE) /\ CilConvert(type, x) = Wrap(x, k, TRUE)
    BY <1>1 DEF Convert, CilConvert
  <1>. HIDE DEF k
  <1>3. w \in Int /\ -(k \div 2) <= w /\ w < k \div 2
    BY <1>1, WrapSigned
  <1>. HIDE DEF w
  <1>4. Wrap(w, k, TRUE) = w
    BY <1>1, <1>3, WrapSame
  <1>. QED
    BY <1>2, <1>3, <1>4 DEF Fits, w

\* the values that fit are those of the type's range.
LEMMA FitsRange ==
  ASSUME NEW type \in Narrow, NEW n \in Int
  PROVE  Fits(type, n) <=> -(Size[type] \div 2) <= n /\ n < Size[type] \div 2
  <1>. DEFINE k == Size[type]
  <1>1. k \in Nat \ {0} /\ k % 2 = 0 /\ type \in GccSigned
    BY NarrowTypes
  <1>2. Convert(type, n) = Wrap(n, k, TRUE)
    BY <1>1 DEF Convert
  <1>. HIDE DEF k
  <1>3. ASSUME Fits(type, n) PROVE -(k \div 2) <= n /\ n < k \div 2
    BY <1>1, <1>2, <1>3, WrapSigned DEF Fits
  <1>4. ASSUME -(k \div 2) <= n, n < k \div 2 PROVE Fits(type, n)
    BY <1>1, <1>2, <1>4, WrapSame DEF Fits
  <1>. QED
    BY <1>3, <1>4 DEF k

\* A value that fits a type fits the bigger ones.
LEMMA FitsBigger ==
  ASSUME NEW t \in Narrow, NEW u \in Narrow, Size[t] <= Size[u], NEW n, Fits(t, n)
  PROVE  Fits(u, n)
  <1>. DEFINE a == Size[t]
              b == Size[u]
  <1>1. a \in Nat \ {0} /\ a % 2 = 0 /\ b \in Nat \ {0} /\ b % 2 = 0 /\ a <= b
    BY NarrowTypes
  <1>2. n \in Int /\ -(a \div 2) <= n /\ n < a \div 2
    BY FitsRange DEF Fits
  <1>3. Fits(u, n) <=> -(b \div 2) <= n /\ n < b \div 2
    BY <1>2, FitsRange
  <1>4. a \div 2 \in Nat /\ a = (a \div 2) + (a \div 2)
        /\ b \div 2 \in Nat /\ b = (b \div 2) + (b \div 2)
    BY <1>1, Halves
  <1>. HIDE DEF a, b
  <1>. QED
    BY <1>1, <1>2, <1>3, <1>4

\* The truth values fit every stack variable.
LEMMA TruthFits ==
  ASSUME NEW type \in Narrow, NEW b
  PROVE  Fits(type, Truth(b))
  <1>. DEFINE k == Size[type]
  <1>1. k \in Nat \ {0} /\ k % 2 = 0 /\ 4 <= k
    BY NarrowTypes
  <1>2. k \div 2 \in Nat /\ k = (k \div 2) + (k \div 2)
    BY <1>1, Halves
  <1>3. Truth(b) \in 0..1
    BY DEF Truth
  <1>4. Fits(type, Truth(b)) <=> -(k \div 2) <= Truth(b) /\ Truth(b) < k \div 2
    BY <1>3, FitsRange
  <1>. HIDE DEF k
  <1>. QED
    BY <1>1, <1>2, <1>3, <1>4

\* Comparing two values after their conversion to the bigger of their types is
\* comparing them.
LEMMA BiggerCompares ==
  ASSUME NEW v, NEW w, v.type \in Narrow, w.type \in Narrow,
         NEW a, NEW b, Fits(v.type, a), Fits(w.type, b)
  PROVE  LET type == BiggerType(v, w)
         IN  /\ type \in Narrow
             /\ Convert(type, a) = a /\ Convert(type, b) = b
  <1>. DEFINE t == v.type
              u == w.type
  <1>1. Precision[t] < Precision[u] <=> Size[t] < Size[u]
    BY ExecAssumption
  <1>2. Size[t] \in Nat /\ Size[u] \in Nat
    BY NarrowTypes
  <1>3. CASE Precision[t] < Precision[u]
    <2>1. BiggerType(v, w) = u
      BY <1>3 DEF BiggerType
    <2>2. Size[t] <= Size[u]
      BY <1>1, <1>2, <1>3
    <2>3. Fits(u, a)
      BY <2>2, FitsBigger
    <2>. QED
      BY <2>1, <2>3 DEF Fits
  <1>4. CASE ~(Precision[t] < Precision[u])
    <2>1. BiggerType(v, w) = t
      BY <1>4 DEF BiggerType
    <2>2. Size[u] <= Size[t]
      BY <1>1, <1>2, <1>4
    <2>3. Fits(t, b)
      BY <2>2, FitsBigger
    <2>. QED
      BY <2>1, <2>3 DEF Fits
  <1>. QED
    BY <1>3, <1>4

-----------------------------------------------------------------------------
(* What an instruction adds to the code *)

\* The next instruction's edges: it passes its label, and a branch makes the
\* stack it leaves known at its target.
Edges(st) ==
  \/ /\ st.target = 0
     /\ expected' = CilLabelled
     /\ data' = scil_set_label
  \/ \E c, s :
       /\ st.target \in Labels
       /\ MayBranch(CilLabelled, st.target, c)
       /\ expected' = Branched(CilLabelled, st.target, c)
       /\ data' = instr_goto(scil_set_label, st.target, s)
       /\ NarrowStack(s)
       /\ Len(c) = Len(LeftBy(st))

\* The statement ST is added to the code.
Added(st) ==
  /\ body' = Append(body, st)
  /\ st.in = Entry
  /\ stack' = st.out
  /\ complete' = complete
  /\ PathsAgree
  /\ Shape(st)
  /\ falls' = Falling(st)
  /\ Edges(st)

\* The instruction at pc begins with narrow stack variables.
LEMMA EntryNarrow ==
  ASSUME IndInv, Narrowed, pc <= CodeLength
  PROVE  ExecStack(Entry) /\ Len(Entry) = Len(CilAt)
  <1>1. pc \in Labels /\ GoodStack(Entry, CilAt)
    BY EntryGood
  <1>2. NarrowStack(Entry)
    BY <1>1 DEF Entry, Narrowed
  <1>. QED
    BY <1>1, <1>2 DEF GoodStack, ExecStack

\* Popping keeps a stack narrow, and its order.
LEMMA PopExec ==
  ASSUME NEW s, ExecStack(s), NEW n \in Nat, n <= Len(s)
  PROVE  /\ ExecStack(scil_stack_pop(s, n))
         /\ Len(scil_stack_pop(s, n)) = Len(s) - n
         /\ \A i \in 1..(Len(s) - n) : scil_stack_pop(s, n)[i] = s[i]
  <1>1. s \in Seq(StackVars) /\ Len(s) \in Nat
    BY DEF ExecStack
  <1>2. /\ scil_stack_pop(s, n) \in Seq(StackVars)
        /\ Len(scil_stack_pop(s, n)) = Len(s) - n
        /\ \A i \in 1..(Len(s) - n) : scil_stack_pop(s, n)[i] = s[i]
    BY <1>1, PopSeq DEF scil_stack_pop
  <1>. DEFINE r == scil_stack_pop(s, n)
  <1>. HIDE DEF r
  <1>3. r \in Seq(StackVars) /\ Len(r) = Len(s) - n /\ \A i \in 1..(Len(s) - n) : r[i] = s[i]
    BY <1>2 DEF r
  <1>4. Len(r) <= MaxStack
    BY <1>1, <1>3, SizeAssumption DEF ExecStack
  <1>5. SlotsInOrder(r)
    BY <1>1, <1>3 DEF ExecStack, SlotsInOrder
  <1>6. NarrowStack(r)
    BY <1>1, <1>3 DEF ExecStack, NarrowStack
  <1>. QED
    BY <1>2, <1>3, <1>4, <1>5, <1>6 DEF ExecStack, r

\* Pushing a narrow value keeps the stack narrow.
LEMMA PushNarrow ==
  ASSUME NEW s \in Seq(StackVars), NarrowStack(s), NEW type \in Narrow \cup {"bool", "void"}
  PROVE  NarrowStack(instr_push(type, s))
  <1>1. CASE type = "void"
    BY <1>1 DEF instr_push
  <1>2. CASE type # "void"
    <2>. DEFINE x == scil_get_stack_variable(type, s)
    <2>1. get_stack(type) \in Narrow
      BY <1>2 DEF get_stack, Narrow
    <2>2. x.type \in Narrow
      BY <2>1 DEF scil_get_stack_variable
    <2>3. instr_push(type, s) = Append(s, x)
      BY <1>2 DEF instr_push, scil_stack_push
    <2>. HIDE DEF x
    <2>. QED
      BY <2>2, <2>3 DEF NarrowStack
  <1>. QED
    BY <1>1, <1>2

\* The stack left by a statement, for one with a result and for one without.
LEMMA LeftWithout ==
  ASSUME NEW st, Result(st) = "void"
  PROVE  LeftBy(st) = scil_stack_pop(st.in, Pops(st))
  BY DEF LeftBy, instr_push

\* One appended statement, given its edges.
LEMMA AppendShape ==
  ASSUME IndInv, IndInv', Narrowed, pc <= CodeLength,
         NEW op, NEW arg, NEW t, NEW s, NEW c, NEW f, Append1(op, arg, t, s, c, f),
         NEW st, st = [op |-> op, arg |-> arg, target |-> t, in |-> Entry, out |-> s],
         op \in ExecOps, GoodArg(st),
         Pops(st) \in Nat, Pops(st) <= Len(Entry),
         op = "dup" => Len(Entry) >= 1,
         Result(st) \in Narrow \cup {"bool", "void"},
         f = (op \notin {"branch", "ret"}),
         f => s = LeftBy(st),
         IF op \in Branching THEN t \in Labels ELSE t = 0,
         Edges(st)
  PROVE  \E x : Added(x)
  <1>1. st.op = op /\ st.arg = arg /\ st.target = t /\ st.in = Entry /\ st.out = s
    OBVIOUS
  <1>2. /\ body' = Append(body, st) /\ stack' = s /\ falls' = f /\ PathsAgree
        /\ complete' = complete
    BY DEF Append1
  <1>3. ExecStack(Entry)
    BY EntryNarrow
  <1>4. CurrentStack'
    BY DEF IndInv
  <1>5. ASSUME op \in {"branch", "ret"} PROVE Len(st.out) = 0
    BY <1>1, <1>2, <1>4, <1>5 DEF CurrentStack
  <1>6. ASSUME op \notin {"branch", "ret"} PROVE st.out = LeftBy(st) /\ ExecStack(st.out)
    <2>1. s = LeftBy(st) /\ falls' = TRUE
      BY <1>2, <1>6
    <2>2. GoodStack(stack', cil')
      BY <1>4, <2>1 DEF CurrentStack
    <2>3. s \in Seq(StackVars) /\ Len(s) <= MaxStack /\ SlotsInOrder(s)
      BY <1>2, <2>2 DEF GoodStack
    <2>4. ExecStack(scil_stack_pop(Entry, Pops(st)))
      BY <1>3, PopExec
    <2>5. NarrowStack(instr_push(Result(st), scil_stack_pop(Entry, Pops(st))))
      BY <2>4, PushNarrow DEF ExecStack
    <2>6. NarrowStack(s)
      BY <1>1, <2>1, <2>5 DEF LeftBy
    <2>. QED
      BY <1>1, <2>1, <2>3, <2>6 DEF ExecStack
  <1>7. Shape(st)
    BY <1>1, <1>3, <1>5, <1>6 DEF Shape
  <1>8. falls' = Falling(st)
    BY <1>1, <1>2 DEF Falling
  <1>. QED
    BY <1>1, <1>2, <1>7, <1>8 DEF Added

\* An instruction that does not branch.
LEMMA StraightShape ==
  ASSUME IndInv, IndInv', Narrowed, pc <= CodeLength,
         NEW op, NEW arg, NEW pops \in Seq(CilTypes), NEW type, NEW c,
         Straight(op, arg, pops, type, c),
         op \in ExecOps, op \notin Branching \cup {"ret", "dup"},
         NEW st, st.op = op, st.arg = arg, st.in = Entry,
         st = [op |-> op, arg |-> arg, target |-> 0, in |-> Entry,
               out |-> instr_push(type, scil_stack_pop(Entry, Len(pops)))],
         GoodArg(st), Pops(st) = Len(pops), Result(st) = type,
         type \in Narrow \cup {"bool", "void"}
  PROVE  \E x : Added(x)
  <1>. DEFINE s == instr_push(type, scil_stack_pop(Entry, Len(pops)))
              c1 == CilPush(c, SubSeq(CilAt, 1, Len(CilAt) - Len(pops)))
  <1>1. Append1(op, arg, 0, s, c1, TRUE) /\ Len(pops) <= Len(CilAt)
        /\ data' = scil_set_label /\ expected' = CilLabelled
    BY DEF Straight, HasOnTop
  <1>2. Len(Entry) = Len(CilAt) /\ Len(pops) \in Nat
    BY EntryNarrow
  <1>3. s = LeftBy(st) /\ st.target = 0
    BY DEF LeftBy
  <1>4. Edges(st)
    BY <1>1, <1>3 DEF Edges
  <1>5. TRUE = (op \notin {"branch", "ret"})
    BY DEF Branching
  <1>6. Pops(st) \in Nat /\ Pops(st) <= Len(Entry)
    BY <1>1, <1>2
  <1>7. op = "dup" => Len(Entry) >= 1
    OBVIOUS
  <1>8. IF op \in Branching THEN 0 \in Labels ELSE 0 = 0
    OBVIOUS
  <1>9. st = [op |-> op, arg |-> arg, target |-> 0, in |-> Entry, out |-> s]
    OBVIOUS
  <1>. HIDE DEF s, c1
  <1>. QED
    BY <1>1, <1>3, <1>4, <1>5, <1>6, <1>7, <1>8, <1>9, AppendShape

\* A branch.
LEMMA JumpShape ==
  ASSUME IndInv, IndInv', Narrowed, pc <= CodeLength,
         NEW op \in Branching, NEW pops \in Seq(CilTypes), NEW t \in Labels,
         NEW left, NEW cleft, NEW f, Jump(op, pops, t, left, cleft, f),
         NEW st, st.op = op, st.in = Entry,
         st = [op |-> op, arg |-> NoArg, target |-> t, in |-> Entry, out |-> left],
         Pops(st) = Len(pops), f = (op # "branch"),
         op # "branch" => left = scil_stack_pop(Entry, Len(pops))
  PROVE  \E x : Added(x)
  <1>. DEFINE s == scil_stack_pop(Entry, Len(pops))
              c == SubSeq(CilAt, 1, Len(CilAt) - Len(pops))
  <1>1. /\ Append1(op, NoArg, t, left, cleft, f) /\ Len(pops) <= Len(CilAt)
        /\ data' = instr_goto(scil_set_label, t, s)
        /\ expected' = Branched(CilLabelled, t, c)
        /\ MayBranch(CilLabelled, t, c)
    BY DEF Jump, HasOnTop, PoppedStack
  <1>2. Len(Entry) = Len(CilAt) /\ Len(pops) \in Nat /\ ExecStack(Entry) /\ GoodStack(Entry, CilAt)
    BY EntryNarrow, EntryGood
  <1>3. Result(st) = "void" /\ st.target = t
    BY DEF Result, Branching
  <1>4. LeftBy(st) = s
    BY <1>3, LeftWithout
  <1>5. NarrowStack(s) /\ Len(s) = Len(Entry) - Len(pops)
    BY <1>1, <1>2, PopExec DEF ExecStack
  <1>6. Len(c) = Len(CilAt) - Len(pops)
    BY <1>1, <1>2, PopSeq DEF GoodStack
  <1>. HIDE DEF s, c
  <1>7. Edges(st)
    BY <1>1, <1>2, <1>3, <1>4, <1>5, <1>6 DEF Edges
  <1>8. op \in ExecOps /\ GoodArg(st) /\ op # "dup" /\ op # "ret"
    BY DEF Branching, ExecOps, GoodArg
  <1>9. f = (op \notin {"branch", "ret"}) /\ (f => left = LeftBy(st))
    BY <1>4, <1>8 DEF s
  <1>10. Pops(st) \in Nat /\ Pops(st) <= Len(Entry)
    BY <1>1, <1>2
  <1>11. IF op \in Branching THEN t \in Labels ELSE t = 0
    OBVIOUS
  <1>. QED
    BY <1>1, <1>3, <1>7, <1>8, <1>9, <1>10, <1>11, AppendShape

\* An operation that is not executed does not occur.
LEMMA OnlyExecOps ==
  /\ \A op, arg, t, s, c, f : Append1(op, arg, t, s, c, f) => op \in ExecOps
  /\ \A op, arg, pops, type, c : Straight(op, arg, pops, type, c) => op \in ExecOps
  <1>1. \A op, arg, t, s, c, f : Append1(op, arg, t, s, c, f) => op \in ExecOps
    BY ExecAssumption DEF Append1
  <1>. QED
    BY <1>1 DEF Straight

\* A stack variable of the entry stack is narrow.
LEMMA TopNarrow ==
  ASSUME NEW s, ExecStack(s), NEW n \in Nat \ {0}, n <= Len(s)
  PROVE  /\ FromTop(s, n) \in StackVars
         /\ FromTop(s, n).type \in Narrow
         /\ FromTop(s, n).slot = Len(s) - n
  <1>1. s \in Seq(StackVars) /\ Len(s) \in Nat
    BY DEF ExecStack
  <1>2. Len(s) + 1 - n \in 1..Len(s)
    BY <1>1
  <1>. QED
    BY <1>1, <1>2 DEF ExecStack, FromTop, NarrowStack, SlotsInOrder

\* Every instruction adds a statement of its shape.
LEMMA InstructionShape ==
  ASSUME IndInv, IndInv', Narrowed, pc <= CodeLength, InstructionAt
  PROVE  \E x : Added(x)
  <1>. DEFINE Goal == \E x : Added(x)
  <1>. SUFFICES Goal
    OBVIOUS
  <1>. HIDE DEF Goal
  <1>0. ExecStack(Entry) /\ Len(Entry) = Len(CilAt) /\ Len(Entry) \in Nat
    BY EntryNarrow DEF ExecStack
  <1>s. ASSUME NEW op, NEW arg, NEW pops \in Seq(CilTypes), NEW type, NEW c,
               Straight(op, arg, pops, type, c),
               op \in ExecOps, op \notin Branching \cup {"ret", "dup"},
               \A st : st.op = op /\ st.arg = arg /\ st.in = Entry =>
                         GoodArg(st) /\ Pops(st) = Len(pops) /\ Result(st) = type,
               type \in Narrow \cup {"bool", "void"}
        PROVE  Goal
    <2>. DEFINE st == [op |-> op, arg |-> arg, target |-> 0, in |-> Entry,
                       out |-> instr_push(type, scil_stack_pop(Entry, Len(pops)))]
    <2>1. st.op = op /\ st.arg = arg /\ st.in = Entry
      OBVIOUS
    <2>2. st = [op |-> op, arg |-> arg, target |-> 0, in |-> Entry,
                out |-> instr_push(type, scil_stack_pop(Entry, Len(pops)))]
      OBVIOUS
    <2>. HIDE DEF st
    <2>3. GoodArg(st) /\ Pops(st) = Len(pops) /\ Result(st) = type
      BY <1>s, <2>1
    <2>. QED
      BY <1>s, <2>1, <2>2, <2>3, StraightShape DEF Goal
  <1>j. ASSUME NEW op \in Branching, NEW pops \in Seq(CilTypes), NEW t \in Labels,
               NEW left, NEW cleft, NEW f, Jump(op, pops, t, left, cleft, f),
               \A st : st.op = op => Pops(st) = Len(pops),
               f = (op # "branch"),
               op # "branch" => left = scil_stack_pop(Entry, Len(pops))
        PROVE  Goal
    <2>. DEFINE st == [op |-> op, arg |-> NoArg, target |-> t, in |-> Entry, out |-> left]
    <2>1. st.op = op /\ st.in = Entry
      OBVIOUS
    <2>2. st = [op |-> op, arg |-> NoArg, target |-> t, in |-> Entry, out |-> left]
      OBVIOUS
    <2>. HIDE DEF st
    <2>3. Pops(st) = Len(pops)
      BY <1>j, <2>1
    <2>. QED
      BY <1>j, <2>1, <2>2, <2>3, JumpShape DEF Goal
  <1>1. ASSUME NEW v \in Variables, scil_instr_push(v) PROVE Goal
    <2>1. Straight("push", v, <<>>, VarType[v], CilOf(VarType[v]))
      BY <1>1 DEF scil_instr_push
    <2>2. VarType[v] \in Narrow
      BY ExecAssumption
    <2>3. \A st : st.op = "push" /\ st.arg = v /\ st.in = Entry =>
                    GoodArg(st) /\ Pops(st) = Len(<<>>) /\ Result(st) = VarType[v]
      BY DEF GoodArg, Pops, Result
    <2>4. "push" \in ExecOps /\ "push" \notin Branching \cup {"ret", "dup"}
          /\ <<>> \in Seq(CilTypes)
      BY DEF ExecOps, Branching
    <2>. QED
      BY <2>1, <2>2, <2>3, <2>4, <1>s
  <1>2. ASSUME NEW v \in Variables, scil_instr_push_address(v) PROVE Goal
    BY <1>2, OnlyExecOps DEF scil_instr_push_address, ExecOps
  <1>3. ASSUME NEW v \in Variables, scil_instr_pop_into(v) PROVE Goal
    <2>. DEFINE pops == <<CilOf(VarType[v])>>
    <2>1. Straight("pop_into", v, pops, "void", "void")
      BY <1>3 DEF scil_instr_pop_into
    <2>2. pops \in Seq(CilTypes) /\ Len(pops) = 1
      BY OperandTypes
    <2>. HIDE DEF pops
    <2>3. \A st : st.op = "pop_into" /\ st.arg = v /\ st.in = Entry =>
                    GoodArg(st) /\ Pops(st) = Len(pops) /\ Result(st) = "void"
      BY <2>2 DEF GoodArg, Pops, Result
    <2>4. "pop_into" \in ExecOps /\ "pop_into" \notin Branching \cup {"ret", "dup"}
      BY DEF ExecOps, Branching
    <2>. QED
      BY <2>1, <2>2, <2>3, <2>4, <1>s
  <1>4. ASSUME NEW l \in Literals, scil_instr_push_integer(l) PROVE Goal
    <2>1. Straight("push_integer", l, <<>>, LitType[l], LitCil[l])
      BY <1>4 DEF scil_instr_push_integer
    <2>2. LitType[l] \in Narrow
      BY ExecAssumption
    <2>3. \A st : st.op = "push_integer" /\ st.arg = l /\ st.in = Entry =>
                    GoodArg(st) /\ Pops(st) = Len(<<>>) /\ Result(st) = LitType[l]
      BY DEF GoodArg, Pops, Result
    <2>4. "push_integer" \in ExecOps /\ "push_integer" \notin Branching \cup {"ret", "dup"}
          /\ <<>> \in Seq(CilTypes)
      BY DEF ExecOps, Branching
    <2>. QED
      BY <2>1, <2>2, <2>3, <2>4, <1>s
  <1>5. CASE scil_instr_dup
    <2>. DEFINE type == FromTop(Entry, 1).type
                c == CilPush(FromTop(CilAt, 1), CilAt)
                s == instr_push(type, Entry)
                st == [op |-> "dup", arg |-> NoArg, target |-> 0, in |-> Entry, out |-> s]
    <2>1. /\ Len(CilAt) > 0 /\ Append1("dup", NoArg, 0, s, c, TRUE)
          /\ data' = scil_set_label /\ expected' = CilLabelled
      BY <1>5 DEF scil_instr_dup
    <2>2. Len(Entry) >= 1
      BY <1>0, <2>1
    <2>3. type \in Narrow
      BY <1>0, <2>2, TopNarrow
    <2>4. st.op = "dup" /\ st.target = 0 /\ st.in = Entry
      OBVIOUS
    <2>5. st = [op |-> "dup", arg |-> NoArg, target |-> 0, in |-> Entry, out |-> s]
      OBVIOUS
    <2>6. Entry \in Seq(StackVars)
      BY <1>0 DEF ExecStack
    <2>7. scil_stack_pop(Entry, 0) = Entry
      BY <2>6 DEF scil_stack_pop
    <2>. HIDE DEF st
    <2>8. GoodArg(st) /\ Pops(st) = 0 /\ Result(st) = type
      BY <2>4 DEF GoodArg, Pops, Result
    <2>9. s = LeftBy(st)
      BY <2>4, <2>7, <2>8 DEF LeftBy
    <2>10. Edges(st)
      BY <2>1, <2>4 DEF Edges
    <2>11. "dup" \in ExecOps /\ "dup" \notin Branching
      BY DEF ExecOps, Branching
    <2>12. Pops(st) \in Nat /\ Pops(st) <= Len(Entry)
      BY <1>0, <2>8
    <2>13. TRUE = ("dup" \notin {"branch", "ret"})
      OBVIOUS
    <2>14. IF "dup" \in Branching THEN 0 \in Labels ELSE 0 = 0
      BY <2>11
    <2>15. Result(st) \in Narrow \cup {"bool", "void"}
      BY <2>3, <2>8
    <2>. HIDE DEF s, c, type
    <2>. QED
      BY <2>1, <2>2, <2>5, <2>8, <2>9, <2>10, <2>11, <2>12, <2>13, <2>14, <2>15,
         AppendShape DEF Goal
  <1>6. CASE scil_instr_pop
    <2>1. PICK c \in CilTypes : Straight("pop", NoArg, <<c>>, "void", "void")
      BY <1>6 DEF scil_instr_pop
    <2>2. <<c>> \in Seq(CilTypes)
      OBVIOUS
    <2>3. \A st : st.op = "pop" /\ st.arg = NoArg /\ st.in = Entry =>
                    GoodArg(st) /\ Pops(st) = Len(<<c>>) /\ Result(st) = "void"
      BY DEF GoodArg, Pops, Result
    <2>4. "pop" \in ExecOps /\ "pop" \notin Branching \cup {"ret", "dup"}
      BY DEF ExecOps, Branching
    <2>. QED
      BY <2>1, <2>2, <2>3, <2>4, <1>s
  <1>7. ASSUME NEW type \in Types,
               \/ scil_instr_push_field(type)
               \/ scil_instr_push_field_address(type)
               \/ scil_instr_pop_into_field(type)
        PROVE  Goal
    <2>1. ~scil_instr_push_field(type)
      <3>1. ASSUME NEW o, Straight("push_field", type, <<o>>, type, CilOf(type)) PROVE FALSE
        BY <3>1, OnlyExecOps DEF ExecOps
      <3>. QED
        BY <3>1 DEF scil_instr_push_field
    <2>2. ~scil_instr_push_field_address(type) /\ ~scil_instr_pop_into_field(type)
      BY OnlyExecOps DEF scil_instr_push_field_address, scil_instr_pop_into_field, ExecOps
    <2>. QED
      BY <1>7, <2>1, <2>2
  <1>8. ASSUME NEW type \in ConvTypes, scil_instr_convert(type) PROVE Goal
    <2>1. PICK c \in {"i4", "i8", "F"} :
            Straight("convert", type, <<c>>, type, CilOf(type))
      BY <1>8 DEF scil_instr_convert
    <2>2. <<c>> \in Seq(CilTypes) /\ type \in Narrow
      BY OperandTypes, ExecAssumption
    <2>3. \A st : st.op = "convert" /\ st.arg = type /\ st.in = Entry =>
                    GoodArg(st) /\ Pops(st) = Len(<<c>>) /\ Result(st) = type
      BY DEF GoodArg, Pops, Result
    <2>4. "convert" \in ExecOps /\ "convert" \notin Branching \cup {"ret", "dup"}
      BY DEF ExecOps, Branching
    <2>. QED
      BY <2>1, <2>2, <2>3, <2>4, <1>s
  <1>9. CASE scil_instr_push_virtual_method \/ scil_instr_new_static_delegate
    BY <1>9, OnlyExecOps DEF scil_instr_push_virtual_method, scil_instr_new_static_delegate,
       ExecOps
  <1>19. CASE instr_unop
    <2>. DEFINE type == FromTop(Entry, 1).type
    <2>1. PICK c \in {"i4", "i8", "F"} :
            HasOnTop(CilAt, <<c>>) /\ Straight("unop", NoArg, <<c>>, type, c)
      BY <1>19 DEF instr_unop
    <2>2. <<c>> \in Seq(CilTypes) /\ Len(<<c>>) = 1
      BY OperandTypes
    <2>3. Len(Entry) >= 1
      BY <1>0, <2>1, <2>2 DEF HasOnTop
    <2>4. type \in Narrow
      BY <1>0, <2>3, TopNarrow
    <2>6. \A st : st.op = "unop" /\ st.arg = NoArg /\ st.in = Entry =>
                    GoodArg(st) /\ Pops(st) = Len(<<c>>) /\ Result(st) = type
      BY <2>2 DEF GoodArg, Pops, Result
    <2>7. "unop" \in ExecOps /\ "unop" \notin Branching \cup {"ret", "dup"}
      BY DEF ExecOps, Branching
    <2>. HIDE DEF type
    <2>. QED
      BY <2>1, <2>2, <2>4, <2>6, <2>7, <1>s
  <1>10. CASE instr_binop
    <2>. DEFINE type == BiggerType(FromTop(Entry, 2), FromTop(Entry, 1))
    <2>1. PICK c \in {"i4", "i8", "F"} :
            HasOnTop(CilAt, <<c, c>>) /\ Straight("binop", NoArg, <<c, c>>, type, c)
      BY <1>10 DEF instr_binop
    <2>2. <<c, c>> \in Seq(CilTypes) /\ Len(<<c, c>>) = 2
      BY OperandTypes
    <2>3. Len(Entry) >= 2
      BY <1>0, <2>1, <2>2 DEF HasOnTop
    <2>4. FromTop(Entry, 2).type \in Narrow /\ FromTop(Entry, 1).type \in Narrow
      BY <1>0, <2>3, TopNarrow
    <2>5. type \in Narrow
      BY <2>4 DEF BiggerType
    <2>6. \A st : st.op = "binop" /\ st.arg = NoArg /\ st.in = Entry =>
                    GoodArg(st) /\ Pops(st) = Len(<<c, c>>) /\ Result(st) = type
      BY <2>2 DEF GoodArg, Pops, Result
    <2>7. "binop" \in ExecOps /\ "binop" \notin Branching \cup {"ret", "dup"}
      BY DEF ExecOps, Branching
    <2>. HIDE DEF type
    <2>. QED
      BY <2>1, <2>2, <2>5, <2>6, <2>7, <1>s
  <1>11. CASE instr_binop_un
    <2>. DEFINE type == FromTop(Entry, 1).type
    <2>1. PICK c \in {"i4", "i8"} :
            HasOnTop(CilAt, <<c, c>>) /\ Straight("binop_un", NoArg, <<c, c>>, type, c)
      BY <1>11 DEF instr_binop_un
    <2>2. <<c, c>> \in Seq(CilTypes) /\ Len(<<c, c>>) = 2
      BY OperandTypes
    <2>3. Len(Entry) >= 2
      BY <1>0, <2>1, <2>2 DEF HasOnTop
    <2>4. type \in Narrow
      BY <1>0, <2>3, TopNarrow
    <2>6. \A st : st.op = "binop_un" /\ st.arg = NoArg /\ st.in = Entry =>
                    GoodArg(st) /\ Pops(st) = Len(<<c, c>>) /\ Result(st) = type
      BY <2>2 DEF GoodArg, Pops, Result
    <2>7. "binop_un" \in ExecOps /\ "binop_un" \notin Branching \cup {"ret", "dup"}
      BY DEF ExecOps, Branching
    <2>. HIDE DEF type
    <2>. QED
      BY <2>1, <2>2, <2>4, <2>6, <2>7, <1>s
  <1>12. ASSUME NEW op \in {"compare", "compare_un"}, append_compare(op) PROVE Goal
    <2>1. PICK c \in {"i4", "i8", "F", "O"} : Straight(op, NoArg, <<c, c>>, "bool", "i4")
      BY <1>12 DEF append_compare
    <2>3. <<c, c>> \in Seq(CilTypes) /\ Len(<<c, c>>) = 2
      BY OperandTypes
    <2>6. \A st : st.op = op /\ st.arg = NoArg /\ st.in = Entry =>
                    GoodArg(st) /\ Pops(st) = Len(<<c, c>>) /\ Result(st) = "bool"
      BY <2>3 DEF GoodArg, Pops, Result
    <2>7. op \in ExecOps /\ op \notin Branching \cup {"ret", "dup"}
      BY DEF ExecOps, Branching
    <2>. QED
      BY <2>1, <2>3, <2>6, <2>7, <1>s
  <1>13. ASSUME NEW g \in Signatures, scil_instr_call(g) PROVE Goal
    <2>. DEFINE pops == CilSeq(SigParams[g])
                c == IF SigResult[g] = "void" THEN "void" ELSE CilOf(SigResult[g])
    <2>1. Straight("call", g, pops, SigResult[g], c)
      BY <1>13 DEF scil_instr_call
    <2>2. pops \in Seq(CilTypes) /\ Len(pops) = Len(SigParams[g]) /\ SigResult[g] \in Narrow
      BY TypeAssumption, CilSeqType, ExecAssumption
    <2>. HIDE DEF pops, c
    <2>3. \A st : st.op = "call" /\ st.arg = g /\ st.in = Entry =>
                    GoodArg(st) /\ Pops(st) = Len(pops) /\ Result(st) = SigResult[g]
      BY <2>2 DEF GoodArg, Pops, Result
    <2>4. "call" \in ExecOps /\ "call" \notin Branching \cup {"ret", "dup"}
      BY DEF ExecOps, Branching
    <2>. QED
      BY <2>1, <2>2, <2>3, <2>4, <1>s
  <1>14. ASSUME NEW g \in Signatures, scil_instr_call_indirect(g) \/ scil_instr_newobj(g)
         PROVE  Goal
    BY <1>14, OnlyExecOps DEF scil_instr_call_indirect, scil_instr_newobj, ExecOps
  <1>15. ASSUME NEW t \in Labels, scil_instr_branch(t) PROVE Goal
    <2>1. Jump("branch", <<>>, t, <<>>, <<>>, FALSE)
      BY <1>15 DEF scil_instr_branch
    <2>2. \A st : st.op = "branch" => Pops(st) = Len(<<>>)
      BY DEF Pops
    <2>3. "branch" \in Branching /\ <<>> \in Seq(CilTypes) /\ FALSE = ("branch" # "branch")
      BY DEF Branching
    <2>. QED
      BY <2>1, <2>2, <2>3, <1>j
  <1>16. ASSUME NEW t \in Labels, NEW op \in {"branch_true", "branch_false"},
                scil_instr_branch_cond(op, t)
         PROVE  Goal
    <2>. DEFINE cleft == SubSeq(CilAt, 1, Len(CilAt) - 1)
    <2>1. PICK c \in {"i4", "i8", "O"} :
            Jump(op, <<c>>, t, scil_stack_pop(Entry, 1), cleft, TRUE)
      BY <1>16 DEF scil_instr_branch_cond
    <2>2. \A st : st.op = op => Pops(st) = Len(<<c>>)
      BY DEF Pops
    <2>3. op \in Branching /\ <<c>> \in Seq(CilTypes) /\ TRUE = (op # "branch")
          /\ Len(<<c>>) = 1
      BY OperandTypes DEF Branching
    <2>. HIDE DEF cleft
    <2>. QED
      BY <2>1, <2>2, <2>3, <1>j
  <1>17. ASSUME NEW t \in Labels, NEW op \in {"branch_compare", "branch_compare_un"},
                instr_branch_compare(op, t)
         PROVE  Goal
    <2>. DEFINE cleft == SubSeq(CilAt, 1, Len(CilAt) - 2)
                s == scil_stack_pop(Entry, 2)
                left == scil_stack_pop(instr_push("bool", s), 1)
    <2>1. PICK c \in {"i4", "i8", "F", "O"} :
            Jump(op, <<c, c>>, t, left, cleft, TRUE)
      BY <1>17 DEF instr_branch_compare
    <2>2. \A st : st.op = op => Pops(st) = Len(<<c, c>>)
      BY DEF Pops
    <2>3. op \in Branching /\ <<c, c>> \in Seq(CilTypes)
          /\ TRUE = (op # "branch") /\ Len(<<c, c>>) = 2
      BY OperandTypes DEF Branching
    <2>4. 2 <= Len(Entry)
      BY <2>1, <2>3, <1>0 DEF Jump, HasOnTop
    <2>5. s \in Seq(StackVars)
      BY <1>0, <2>4, PopExec DEF ExecStack
    <2>6. instr_push("bool", s) = Append(s, scil_get_stack_variable("bool", s))
      BY DEF instr_push, scil_stack_push
    <2>7. scil_get_stack_variable("bool", s) \in StackVars
      BY <2>5 DEF scil_get_stack_variable, StackVars, get_stack, StackTypes, PoolTypes
    <2>. HIDE DEF cleft, s
    <2>8. left = s
      BY <2>5, <2>6, <2>7 DEF scil_stack_pop
    <2>. HIDE DEF left
    <2>9. left = scil_stack_pop(Entry, Len(<<c, c>>))
      BY <2>3, <2>8 DEF s
    <2>. QED
      BY <2>1, <2>2, <2>3, <2>9, <1>j
  <1>18. CASE scil_instr_ret
    <2>. DEFINE s == IF Entry = <<>> THEN Entry ELSE scil_stack_pop(Entry, 1)
                st == [op |-> "ret", arg |-> NoArg, target |-> 0, in |-> Entry, out |-> s]
    <2>1. /\ Append1("ret", NoArg, 0, s, <<>>, FALSE)
          /\ data' = scil_set_label /\ expected' = CilLabelled
      BY <1>18 DEF scil_instr_ret
    <2>2. st.op = "ret" /\ st.target = 0
      OBVIOUS
    <2>3. st = [op |-> "ret", arg |-> NoArg, target |-> 0, in |-> Entry, out |-> s]
      OBVIOUS
    <2>. HIDE DEF st, s
    <2>4. GoodArg(st) /\ Pops(st) = 0 /\ Result(st) = "void"
      BY <2>2 DEF GoodArg, Pops, Result
    <2>5. Edges(st)
      BY <2>1, <2>2 DEF Edges
    <2>6. "ret" \in ExecOps /\ "ret" \notin Branching
      BY DEF ExecOps, Branching
    <2>7. Pops(st) \in Nat /\ Pops(st) <= Len(Entry)
      BY <1>0, <2>4
    <2>8. FALSE = ("ret" \notin {"branch", "ret"})
      OBVIOUS
    <2>9. IF "ret" \in Branching THEN 0 \in Labels ELSE 0 = 0
      BY <2>6
    <2>10. Result(st) \in Narrow \cup {"bool", "void"} /\ "ret" # "dup"
      BY <2>4
    <2>. QED
      BY <2>1, <2>3, <2>4, <2>5, <2>6, <2>7, <2>8, <2>9, <2>10, AppendShape DEF Goal
  <1>. QED
    BY <1>1, <1>2, <1>3, <1>4, <1>5, <1>6, <1>7, <1>8, <1>9, <1>10, <1>11, <1>12,
       <1>13, <1>14, <1>15, <1>16, <1>17, <1>18, <1>19 DEF InstructionAt

\* What is known of a label stays, and an instruction adds what its edges bring.
LEMMA ExpectedStep ==
  ASSUME IndInv, Narrowed, pc <= CodeLength, NEW st, Added(st)
  PROVE  /\ \A l \in Labels : expected[l].set =>
              expected'[l].set /\ expected'[l].types = expected[l].types
         /\ expected'[pc].set /\ Len(expected'[pc].types) = Len(Entry)
         /\ st.target # 0 => /\ expected'[st.target].set
                             /\ Len(expected'[st.target].types) = Len(LeftBy(st))
  <1>. DEFINE e == CilLabelled
  <1>1. pc \in Labels /\ expected \in [Labels -> CilEntry] /\ Len(Entry) = Len(CilAt)
    BY EntryGood, EntryNarrow DEF IndInv, TypeOK
  <1>2. e = [expected EXCEPT ![pc] = [set |-> TRUE, types |-> CilAt]]
    BY DEF CilLabelled, Branched
  <1>3. e \in [Labels -> CilEntry]
    BY LabelPassed
  <1>4. e[pc].set /\ e[pc].types = CilAt
    BY <1>1, <1>2
  <1>5. \A l \in Labels : expected[l].set => e[l].set /\ e[l].types = expected[l].types
    <2>1. expected[pc].set => CilAt = expected[pc].types
      BY DEF CilAt
    <2>2. \A l \in Labels : l # pc => e[l] = expected[l]
      BY <1>1, <1>2
    <2>. HIDE DEF e
    <2>. QED
      BY <1>4, <2>1, <2>2
  <1>. HIDE DEF e
  <1>6. CASE st.target = 0 /\ expected' = CilLabelled /\ data' = scil_set_label
    BY <1>1, <1>4, <1>5, <1>6 DEF e
  <1>7. CASE \E c, s :
               /\ st.target \in Labels
               /\ MayBranch(CilLabelled, st.target, c)
               /\ expected' = Branched(CilLabelled, st.target, c)
               /\ data' = instr_goto(scil_set_label, st.target, s)
               /\ NarrowStack(s)
               /\ Len(c) = Len(LeftBy(st))
    <2>. DEFINE t == st.target
    <2>1. PICK c : /\ t \in Labels
                   /\ MayBranch(e, t, c)
                   /\ expected' = Branched(e, t, c)
                   /\ Len(c) = Len(LeftBy(st))
      BY <1>7 DEF e
    <2>2. expected' = [e EXCEPT ![t] = [set |-> TRUE, types |-> c]]
      BY <2>1 DEF Branched
    <2>3. expected'[t].set /\ expected'[t].types = c
      BY <1>3, <2>1, <2>2
    <2>4. \A l \in Labels : l # t => expected'[l] = e[l]
      BY <1>3, <2>2
    <2>5. e[t].set => e[t].types = c
      BY <2>1 DEF MayBranch
    <2>6. \A l \in Labels : e[l].set => expected'[l].set /\ expected'[l].types = e[l].types
      BY <2>3, <2>4, <2>5
    <2>. QED
      BY <1>1, <1>4, <1>5, <2>1, <2>3, <2>6
  <1>. QED
    BY <1>6, <1>7 DEF Added, Edges

\* Falling through keeps the height.
LEMMA FallThrough ==
  ASSUME IndInv, Narrowed, pc <= CodeLength, PathsAgree, falls
  PROVE  Len(Entry) = Len(stack)
  <1>1. Len(Entry) = Len(CilAt)
    BY EntryNarrow
  <1>2. Len(stack) = Len(cil)
    BY DEF IndInv, CurrentStack, GoodStack
  <1>3. CilAt = cil
    BY DEF CilAt, PathsAgree
  <1>. QED
    BY <1>1, <1>2, <1>3

\* The stacks stay narrow.
LEMMA NarrowedStep ==
  ASSUME IndInv, Narrowed, pc <= CodeLength, NEW st, Added(st)
  PROVE  Narrowed'
  <1>1. pc \in Labels /\ data \in [Labels -> LabelData]
    BY EntryGood DEF IndInv, TypeOK
  <1>2. NarrowStack(stack')
    <2>1. CASE st.op \in {"branch", "ret"}
      BY <2>1 DEF Added, Shape, NarrowStack
    <2>2. CASE st.op \notin {"branch", "ret"}
      BY <2>2 DEF Added, Shape, ExecStack
    <2>. QED
      BY <2>1, <2>2
  <1>. DEFINE d == scil_set_label
  <1>3. d \in [Labels -> LabelData]
    BY LabelPassed
  <1>4. ASSUME NEW l \in Labels PROVE NarrowStack(d[l].stack)
    <2>1. NarrowStack(<<>>)
      BY DEF NarrowStack
    <2>2. d[l] = data[l] \/ d[l] = [kind |-> "passed", stack |-> <<>>]
      BY <1>1 DEF scil_set_label
    <2>3. NarrowStack(data[l].stack)
      BY DEF Narrowed
    <2>. HIDE DEF d
    <2>4. CASE d[l] = data[l]
      BY <2>3, <2>4
    <2>5. CASE d[l] = [kind |-> "passed", stack |-> <<>>]
      <3>1. d[l].stack = <<>>
        BY <2>5
      <3>. QED
        BY <3>1, <2>1
    <2>. QED
      BY <2>2, <2>4, <2>5
  <1>5. ASSUME NEW l \in Labels PROVE NarrowStack(data'[l].stack)
    <2>1. CASE data' = scil_set_label
      BY <1>4, <2>1
    <2>2. ASSUME NEW s, data' = instr_goto(d, st.target, s), NarrowStack(s)
          PROVE  NarrowStack(data'[l].stack)
      <3>. HIDE DEF d
      <3>1. data'[l] = d[l] \/ data'[l] = [kind |-> "saved", stack |-> s]
        BY <1>3, <2>2 DEF instr_goto
      <3>2. CASE data'[l] = d[l]
        BY <3>2, <1>4
      <3>3. CASE data'[l] = [kind |-> "saved", stack |-> s]
        <4>1. data'[l].stack = s
          BY <3>3
        <4>. QED
          BY <4>1, <2>2
      <3>. QED
        BY <3>1, <3>2, <3>3
    <2>. QED
      BY <2>1, <2>2 DEF Added, Edges
  <1>. QED
    BY <1>2, <1>5 DEF Narrowed

\* Every step of the translation keeps the code linked.
LEMMA LinkedStep ==
  IndInv /\ Linked /\ Narrowed /\ [Next]_vars => Linked' /\ Narrowed'
  <1>. SUFFICES ASSUME IndInv, Linked, Narrowed, [Next]_vars PROVE Linked' /\ Narrowed'
    OBVIOUS
  <1>. USE SizeAssumption
  <1>0. body \in Seq(Statements) /\ complete \in BOOLEAN /\ IndInv' /\ Len(body) \in Nat
    BY NextInv DEF IndInv, TypeOK
  <1>1. CASE parse_instruction
    <2>1. ~complete /\ pc <= CodeLength /\ pc = Len(body) + 1 /\ InstructionAt
      BY <1>1 DEF parse_instruction, pc
    <2>2. PICK st : Added(st)
      BY <1>0, <2>1, InstructionShape
    <2>3. Narrowed'
      BY <2>1, <2>2, NarrowedStep
    <2>4. body' = Append(body, st) /\ st.in = Entry /\ stack' = st.out
          /\ complete' = complete /\ PathsAgree /\ Shape(st) /\ falls' = Falling(st)
      BY <2>2 DEF Added
    <2>5. Len(body') = Len(body) + 1 /\ body'[pc] = st
          /\ \A i \in 1..Len(body) : body'[i] = body[i]
      BY <1>0, <2>1, <2>4
    <2>6. /\ \A l \in Labels : expected[l].set =>
               expected'[l].set /\ expected'[l].types = expected[l].types
          /\ expected'[pc].set /\ Len(expected'[pc].types) = Len(Entry)
          /\ st.target # 0 => /\ expected'[st.target].set
                              /\ Len(expected'[st.target].types) = Len(LeftBy(st))
      BY <2>1, <2>2, ExpectedStep
    <2>. DEFINE P(i) ==
           /\ Shape(body'[i])
           /\ expected'[i].set /\ Len(expected'[i].types) = Len(body'[i].in)
           /\ body'[i].target # 0 =>
                /\ expected'[body'[i].target].set
                /\ Len(expected'[body'[i].target].types) = Len(LeftBy(body'[i]))
           /\ i > 1 /\ Falling(body'[i - 1]) => Len(body'[i].in) = Len(body'[i - 1].out)
    <2>7. P(pc)
      <3>1. ASSUME pc > 1, Falling(body'[pc - 1])
            PROVE  Len(body'[pc].in) = Len(body'[pc - 1].out)
        <4>1. Len(body) > 0 /\ pc - 1 = Len(body)
          BY <1>0, <2>1, <3>1
        <4>2. body'[pc - 1] = body[Len(body)]
          BY <1>0, <2>5, <4>1
        <4>3. falls /\ stack = body[Len(body)].out
          BY <3>1, <4>1, <4>2 DEF Linked
        <4>4. Len(Entry) = Len(stack)
          BY <2>1, <2>4, <4>3, FallThrough
        <4>. QED
          BY <2>4, <2>5, <4>2, <4>3, <4>4
      <3>. QED
        BY <2>4, <2>5, <2>6, <3>1
    <2>8. ASSUME NEW i \in 1..Len(body) PROVE P(i)
      <3>1. body'[i] = body[i] /\ (i > 1 => body'[i - 1] = body[i - 1])
        BY <1>0, <2>5
      <3>2. i \in Labels /\ (body[i].target # 0 => body[i].target \in Labels)
        BY <1>0 DEF Linked, Shape, Labels
      <3>3. /\ Shape(body[i])
            /\ expected[i].set /\ Len(expected[i].types) = Len(body[i].in)
            /\ body[i].target # 0 =>
                 /\ expected[body[i].target].set
                 /\ Len(expected[body[i].target].types) = Len(LeftBy(body[i]))
            /\ i > 1 /\ Falling(body[i - 1]) => Len(body[i].in) = Len(body[i - 1].out)
        BY DEF Linked
      <3>. QED
        BY <2>6, <3>1, <3>2, <3>3
    <2>9. \A i \in 1..Len(body') : P(i)
      <3>. HIDE DEF P
      <3>1. \A i \in 1..Len(body') : i = pc \/ i \in 1..Len(body)
        BY <1>0, <2>1, <2>5
      <3>. QED
        BY <2>7, <2>8, <3>1
    <2>10. falls' = Falling(body'[Len(body')]) /\ stack' = body'[Len(body')].out
      BY <2>1, <2>4, <2>5
    <2>11. Len(body') <= CodeLength /\ ~complete'
      BY <2>1, <2>4, <2>5
    <2>12. Len(body'[1].in) = 0
      <3>1. CASE Len(body) = 0
        <4>1. falls /\ Len(stack) = 0
          BY <3>1 DEF Linked
        <4>2. Len(Entry) = 0
          BY <2>1, <2>4, <4>1, FallThrough
        <4>. QED
          BY <2>1, <2>4, <2>5, <3>1, <4>2
      <3>2. CASE Len(body) > 0
        BY <1>0, <2>5, <3>2 DEF Linked
      <3>. QED
        BY <1>0, <3>1, <3>2
    <2>13. Len(body') # 0
      BY <1>0, <2>5
    <2>14. Linked'
      BY <2>9, <2>10, <2>11, <2>12, <2>13 DEF Linked
    <2>. QED
      BY <2>3, <2>14
  <1>2. CASE scil_complete_method_def
    <2>1. Len(body) = CodeLength /\ ~falls
      BY <1>0, <1>2 DEF scil_complete_method_def, pc, Linked
    <2>2. /\ body' = body /\ stack' = stack /\ data' = data /\ expected' = expected
          /\ falls' = falls
      BY <1>2 DEF scil_complete_method_def
    <2>. QED
      BY <2>1, <2>2 DEF Linked, Narrowed
  <1>3. CASE UNCHANGED vars
    BY <1>3 DEF vars, Linked, Narrowed
  <1>. QED
    BY <1>1, <1>2, <1>3 DEF Next

\* Init has no code.
LEMMA LinkedInit == Init => Linked /\ Narrowed
  <1>. SUFFICES ASSUME Init PROVE Linked /\ Narrowed
    OBVIOUS
  <1>1. Linked
    BY SizeAssumption DEF Init, Linked
  <1>2. NarrowStack(<<>>)
    BY DEF NarrowStack
  <1>3. stack = <<>> /\ \A l \in Labels : data[l].stack = <<>>
    BY DEF Init
  <1>. QED
    BY <1>1, <1>2, <1>3 DEF Narrowed

-----------------------------------------------------------------------------
(* Where a statement may lead *)

\* Two stacks in order with variables of the same types are the same.
LEMMA SameStack ==
  ASSUME NEW s, ExecStack(s), NEW r, ExecStack(r), Len(s) = Len(r),
         \A n \in 1..Len(s) : s[n].type = r[n].type
  PROVE  s = r
  <1>1. s \in Seq(StackVars) /\ r \in Seq(StackVars) /\ Len(s) \in Nat
    BY DEF ExecStack
  <1>2. ASSUME NEW n \in 1..Len(s) PROVE s[n] = r[n]
    <2>1. s[n] \in StackVars /\ r[n] \in StackVars
      BY <1>1
    <2>2. s[n].slot = n - 1 /\ r[n].slot = n - 1
      BY DEF ExecStack, SlotsInOrder
    <2>. QED
      BY <2>1, <2>2 DEF StackVars
  <1>. QED
    BY <1>1, <1>2

\* The stack a statement leaves, as the code has it.
LEMMA LeftStack ==
  ASSUME NEW st, Shape(st), st.op # "ret"
  PROVE  /\ LeftBy(st) = IF st.op = "branch" THEN st.in ELSE st.out
         /\ ExecStack(LeftBy(st))
  <1>1. CASE st.op = "branch"
    <2>1. Result(st) = "void" /\ Pops(st) = 0
      BY <1>1 DEF Result, Pops
    <2>2. st.in \in Seq(StackVars) /\ ExecStack(st.in)
      BY DEF Shape, ExecStack
    <2>3. scil_stack_pop(st.in, 0) = st.in
      BY <2>2 DEF scil_stack_pop
    <2>. QED
      BY <1>1, <2>1, <2>2, <2>3, LeftWithout
  <1>2. CASE st.op # "branch"
    BY <1>2 DEF Shape
  <1>. QED
    BY <1>1, <1>2

\* Every successor of a statement of a complete method is a statement, which
\* begins with a stack of the height left,
LEMMA SuccessorHeight ==
  ASSUME Linked, complete, IndInv, NEW i \in 1..Len(body), NEW j \in Successors(i)
  PROVE  /\ body[i].op # "ret"
         /\ j \in 1..Len(body) /\ Len(body) = CodeLength
         /\ Len(body[j].in) = Len(LeftBy(body[i]))
  <1>. DEFINE st == body[i]
  <1>1. Shape(st) /\ Len(body) = CodeLength /\ ~falls /\ Len(body) \in Nat
    BY DEF Linked, IndInv, TypeOK
  <1>2. CASE st.target # 0 /\ j = st.target
    <2>1. st.op \in Branching /\ j \in Labels
      BY <1>1, <1>2 DEF Shape
    <2>2. j \in 1..Len(body)
      BY <1>1, <2>1 DEF Labels
    <2>3. expected[j].set /\ Len(expected[j].types) = Len(LeftBy(st))
      BY <1>2 DEF Linked
    <2>4. Len(expected[j].types) = Len(body[j].in)
      BY <2>2 DEF Linked
    <2>. QED
      BY <1>1, <2>1, <2>2, <2>3, <2>4 DEF Branching
  <1>3. CASE st.op \notin {"branch", "ret"} /\ j = i + 1
    <2>1. Falling(st)
      BY <1>3 DEF Falling
    <2>2. i # Len(body)
      BY <1>1, <2>1 DEF Linked
    <2>3. j \in 1..Len(body) /\ j > 1 /\ j - 1 = i
      BY <1>1, <1>3, <2>2
    <2>4. Falling(body[j - 1]) => Len(body[j].in) = Len(body[j - 1].out)
      BY <2>3 DEF Linked
    <2>5. LeftBy(st) = st.out
      BY <1>1, <1>3, LeftStack
    <2>. QED
      BY <1>1, <1>3, <2>1, <2>3, <2>4, <2>5
  <1>. QED
    BY <1>2, <1>3 DEF Successors

\* and with that very stack if the paths are well merged.
LEMMA SuccessorStack ==
  ASSUME Linked, complete, IndInv, WellMerged, NEW i \in 1..Len(body), NEW j \in Successors(i)
  PROVE  body[j].in = LeftBy(body[i])
  <1>1. body[i].op # "ret" /\ j \in 1..Len(body) /\ Len(body[j].in) = Len(LeftBy(body[i]))
    BY SuccessorHeight
  <1>2. Shape(body[i]) /\ Shape(body[j])
    BY <1>1 DEF Linked
  <1>3. LeftBy(body[i]) = Leaves(i) /\ ExecStack(LeftBy(body[i])) /\ ExecStack(body[j].in)
    BY <1>1, <1>2, LeftStack DEF Leaves, Shape
  <1>4. \A n \in 1..Len(Leaves(i)) \cap 1..Len(body[j].in) :
          body[j].in[n].type = Leaves(i)[n].type
    BY DEF WellMerged
  <1>5. \A n \in 1..Len(body[j].in) : body[j].in[n].type = LeftBy(body[i])[n].type
    BY <1>1, <1>3, <1>4
  <1>. QED
    BY <1>1, <1>3, <1>5, SameStack

\* The machines agree at the next statement if the variables of the stack left
\* hold the CIL stack.
LEMMA Arrive ==
  ASSUME Linked, complete, IndInv, UNCHANGED vars,
         NEW i \in 1..Len(body), NEW j \in Successors(i),
         ip' = j, cip' = j, gvars' = cvars',
         Len(cstack') = Len(LeftBy(body[i])),
         \A n \in 1..Len(cstack') : store'[LeftBy(body[i])[n]] = cstack'[n],
         WellMerged
  PROVE  Agrees'
  <1>1. body[j].in = LeftBy(body[i])
    BY SuccessorStack
  <1>2. body' = body
    BY DEF vars
  <1>. QED
    BY <1>1, <1>2 DEF Agrees

\* The variables of a stack are stack variables of the generated code.
LEMMA StackPool ==
  ASSUME NEW s, ExecStack(s), NEW n \in 1..Len(s)
  PROVE  s[n] \in PoolVars /\ s[n].type \in Narrow /\ s[n].slot = n - 1
  <1>1. s \in Seq(StackVars) /\ Len(s) \in Nat /\ Len(s) <= MaxStack
    BY DEF ExecStack
  <1>2. s[n].type \in Narrow /\ s[n].slot = n - 1 /\ s[n] \in StackVars
    BY <1>1 DEF ExecStack, NarrowStack, SlotsInOrder
  <1>3. n - 1 \in 0..(MaxStack - 1)
    BY <1>1, SizeAssumption
  <1>. QED
    BY <1>2, <1>3 DEF StackVars, PoolVars

\* The operands of the statement that is executed next.
LEMMA Operands ==
  ASSUME Linked, Running, IndInv, complete, ip # 0, Agrees
  PROVE  /\ ip \in 1..Len(body) /\ cip = ip /\ Shape(stmt)
         /\ Len(cstack) \in Nat /\ Len(stmt.in) = Len(cstack)
         /\ \A n \in 1..Len(cstack) : store[stmt.in[n]] = cstack[n]
         /\ \A n \in 1..Len(cstack) :
              /\ Var(n) \in PoolVars /\ Var(n).type \in Narrow
              /\ Val(n) = CVal(n)
              /\ Fits(Var(n).type, CVal(n))
  <1>1. Len(body) = CodeLength /\ Len(body) \in Nat
    BY DEF Linked, IndInv, TypeOK
  <1>2. ip \in 1..Len(body)
    BY <1>1, SizeAssumption DEF Running
  <1>3. Shape(stmt) /\ ExecStack(stmt.in)
    BY <1>2 DEF Linked, stmt, Shape
  <1>4. /\ Len(stmt.in) = Len(cstack) /\ cip = ip /\ Len(cstack) \in Nat
        /\ \A n \in 1..Len(cstack) : store[stmt.in[n]] = cstack[n]
    BY DEF Agrees, stmt, Running
  <1>5. ASSUME NEW n \in 1..Len(cstack)
        PROVE  /\ Var(n) \in PoolVars /\ Var(n).type \in Narrow
               /\ Val(n) = CVal(n)
               /\ Fits(Var(n).type, CVal(n))
    <2>. DEFINE q == Len(cstack) + 1 - n
    <2>1. q \in 1..Len(cstack)
      BY <1>4
    <2>2. Var(n) = stmt.in[q] /\ CVal(n) = cstack[q] /\ Val(n) = store[stmt.in[q]]
      BY <1>4 DEF Var, CVal, Val, FromTop
    <2>. HIDE DEF q
    <2>3. stmt.in[q] \in PoolVars /\ stmt.in[q].type \in Narrow
      BY <1>3, <1>4, <2>1, StackPool
    <2>4. store[stmt.in[q]] = cstack[q] /\ cstack[q] \in Int
      BY <1>4, <2>1 DEF Running
    <2>5. cstack[q] # Uninit
      BY <2>4, ExecAssumption
    <2>6. Fits(stmt.in[q].type, cstack[q])
      BY <2>3, <2>4, <2>5 DEF Running
    <2>. QED
      BY <2>2, <2>3, <2>4, <2>6
  <1>. QED
    BY <1>2, <1>3, <1>4, <1>5

-----------------------------------------------------------------------------
(* Steps of the machines *)

\* What an execution step finds.
Executing ==
  /\ Linked /\ Running /\ IndInv /\ complete /\ ip # 0 /\ Agrees /\ (UNCHANGED vars)
  /\ truths' = (truths /\ TestsATruth)

\* An execution step leaves the code, and what is said of it, alone.
LEMMA SameCode ==
  ASSUME UNCHANGED vars
  PROVE  /\ complete' = complete
         /\ WellMerged' = WellMerged
         /\ WideArithmetic' = WideArithmetic
  <1>1. body' = body /\ complete' = complete
    BY DEF vars
  <1>2. WellMerged' = WellMerged
    BY <1>1 DEF WellMerged, Successors, Leaves
  <1>3. WideArithmetic' = WideArithmetic
    BY <1>1 DEF WideArithmetic
  <1>. QED
    BY <1>1, <1>2, <1>3

\* The CIL stack without its top elements.
LEMMA RestOfStack ==
  ASSUME cstack \in Seq(Int), NEW k \in Nat, k <= Len(cstack)
  PROVE  /\ CRest(k) \in Seq(Int) /\ Len(CRest(k)) = Len(cstack) - k
         /\ \A n \in 1..(Len(cstack) - k) : CRest(k)[n] = cstack[n]
  BY PopSeq DEF CRest

\* The machines' states stay well formed if every statement goes to a successor
\* and every value assigned fits its variable.
LEMMA RunningStep ==
  ASSUME Executing, NEW i \in 1..Len(body), NEW j \in Successors(i), NEW cj \in Successors(i),
         ip' = j, cip' = cj,
         cstack' \in Seq(Int), Len(cstack') <= MaxStack,
         cvars' \in [Variables -> Int], gvars' \in [Variables -> Int],
         \A v \in Variables : Fits(VarType[v], cvars'[v]),
         store' \in [PoolVars -> Int \cup {Uninit}],
         \A p \in PoolVars : store'[p] # Uninit => Fits(p.type, store'[p])
  PROVE  Running'
  <1>1. j \in 1..CodeLength /\ cj \in 1..CodeLength
    BY SuccessorHeight DEF Executing
  <1>2. complete'
    BY DEF Executing, vars
  <1>3. truths' \in BOOLEAN
    BY DEF Executing, Running
  <1>. QED
    BY <1>1, <1>2, <1>3, SizeAssumption DEF Running

\* An assignment to a stack variable.
LEMMA StoreStep ==
  ASSUME Running, NEW p \in PoolVars, NEW x, Fits(p.type, x),
         store' = [store EXCEPT ![p] = x]
  PROVE  /\ store' \in [PoolVars -> Int \cup {Uninit}]
         /\ \A q \in PoolVars : store'[q] # Uninit => Fits(q.type, store'[q])
         /\ store'[p] = x
         /\ \A q \in PoolVars : q # p => store'[q] = store[q]
  <1>1. x \in Int /\ store \in [PoolVars -> Int \cup {Uninit}]
    BY DEF Fits, Running
  <1>2. /\ store'[p] = x
        /\ \A q \in PoolVars : q # p => store'[q] = store[q]
    BY <1>1
  <1>3. store' \in [PoolVars -> Int \cup {Uninit}]
    BY <1>1
  <1>4. ASSUME NEW q \in PoolVars, store'[q] # Uninit PROVE Fits(q.type, store'[q])
    <2>1. CASE q = p
      BY <2>1, <1>2
    <2>2. CASE q # p
      BY <2>2, <1>2, <1>4 DEF Running
    <2>. QED
      BY <2>1, <2>2
  <1>. QED
    BY <1>2, <1>3, <1>4

\* A falling statement's successor.
LEMMA NextStatement ==
  ASSUME Executing, Falling(stmt)
  PROVE  ip + 1 \in Successors(ip) /\ ip \in 1..Len(body)
  <1>1. ip \in 1..Len(body)
    BY Operands DEF Executing
  <1>. QED
    BY <1>1 DEF Falling, stmt, Successors

\* A statement that pushes.
LEMMA PushesStep ==
  ASSUME Executing, NEW k, NEW n \in Int, NEW m \in Int, Pushes(k, n, m), k = Pops(stmt),
         k \in Nat, stmt.op \in Pushing, Result(stmt) \in Narrow \cup {"bool"},
         (WellMerged /\ WideArithmetic) => Convert(get_stack(Result(stmt)), m) = n
  PROVE  Running' /\ ExecutionAgrees'
  <1>. DEFINE N == get_stack(Result(stmt))
              s == scil_stack_pop(stmt.in, k)
              d == [type |-> N, slot |-> Len(s)]
  <1>1. /\ ip \in 1..Len(body) /\ cip = ip /\ Shape(stmt)
        /\ Len(cstack) \in Nat /\ Len(stmt.in) = Len(cstack)
        /\ \A x \in 1..Len(cstack) : store[stmt.in[x]] = cstack[x]
    BY Operands DEF Executing
  <1>2. Falling(stmt) /\ stmt.op # "ret" /\ stmt.op # "branch" /\ Result(stmt) # "void"
    BY DEF Falling, Pushing, Narrow
  <1>3. ip + 1 \in Successors(ip)
    BY <1>2, NextStatement
  <1>4. stmt.out = LeftBy(stmt) /\ ExecStack(stmt.out) /\ ExecStack(stmt.in)
        /\ k <= Len(stmt.in)
    BY <1>1, <1>2 DEF Shape
  <1>5. /\ ExecStack(s) /\ Len(s) = Len(cstack) - k
        /\ \A x \in 1..Len(s) : s[x] = stmt.in[x]
    BY <1>1, <1>4, PopExec
  <1>6. stmt.out = Append(s, d)
    BY <1>2, <1>4 DEF LeftBy, instr_push, scil_stack_push, scil_get_stack_variable
  <1>7. N \in Narrow
    BY DEF get_stack, Narrow
  <1>8. s \in Seq(StackVars) /\ Len(s) \in Nat
    BY <1>5 DEF ExecStack
  <1>9. d \in StackVars /\ d.type = N /\ d.slot = Len(s)
    <2>1. N \in StackTypes
      BY <1>7, NarrowTypes
    <2>. HIDE DEF N, s
    <2>. QED
      BY <1>8, <2>1 DEF StackVars
  <1>. HIDE DEF N, s, d
  <1>10. /\ Len(stmt.out) = Len(s) + 1 /\ stmt.out[Len(s) + 1] = d
         /\ \A x \in 1..Len(s) : stmt.out[x] = s[x]
    BY <1>6, <1>8, <1>9
  <1>11. Dest = d
    BY <1>8, <1>10 DEF Dest, FromTop
  <1>12. Len(s) + 1 \in 1..Len(stmt.out)
    BY <1>8, <1>10
  <1>13. d \in PoolVars
    BY <1>4, <1>10, <1>12, StackPool
  <1>14. /\ cstack' = Append(CRest(k), n)
         /\ store' = [store EXCEPT ![d] = Convert(N, m)]
         /\ ip' = ip + 1 /\ cip' = ip + 1 /\ cvars' = cvars /\ gvars' = gvars
    BY <1>1, <1>9, <1>11 DEF Pushes, Continue
  <1>15. Fits(d.type, Convert(N, m))
    BY <1>7, <1>9, ConvertFits
  <1>16. /\ store' \in [PoolVars -> Int \cup {Uninit}]
         /\ \A q \in PoolVars : store'[q] # Uninit => Fits(q.type, store'[q])
         /\ store'[d] = Convert(N, m)
         /\ \A q \in PoolVars : q # d => store'[q] = store[q]
    BY <1>13, <1>14, <1>15, StoreStep DEF Executing
  <1>17. /\ CRest(k) \in Seq(Int) /\ Len(CRest(k)) = Len(s)
         /\ \A x \in 1..Len(s) : CRest(k)[x] = cstack[x]
    BY <1>1, <1>4, <1>5, RestOfStack DEF Executing, Running
  <1>18. /\ cstack' \in Seq(Int) /\ Len(cstack') = Len(s) + 1 /\ cstack'[Len(s) + 1] = n
         /\ \A x \in 1..Len(s) : cstack'[x] = cstack[x]
    BY <1>14, <1>17
  <1>19. Len(cstack') <= MaxStack
    BY <1>4, <1>10, <1>18 DEF ExecStack
  <1>20. /\ cvars \in [Variables -> Int] /\ gvars \in [Variables -> Int]
         /\ \A v \in Variables : Fits(VarType[v], cvars[v])
    BY DEF Executing, Running
  <1>21. Running'
    BY <1>1, <1>3, <1>14, <1>16, <1>18, <1>19, <1>20, RunningStep
  <1>22. ASSUME WellMerged, WideArithmetic PROVE Agrees'
    <2>1. ASSUME NEW x \in 1..Len(cstack') PROVE store'[stmt.out[x]] = cstack'[x]
      <3>1. CASE x = Len(s) + 1
        BY <3>1, <1>10, <1>16, <1>18, <1>22 DEF N
      <3>2. CASE x # Len(s) + 1
        <4>1. x \in 1..Len(s) /\ x \in 1..Len(cstack)
          <5>1. Len(cstack') = Len(s) + 1 /\ Len(s) = Len(cstack) - k
            BY <1>5, <1>18
          <5>. QED
            BY ONLY <3>2, <1>1, <1>8, <5>1, k \in Nat, x \in 1..Len(cstack')
        <4>2. stmt.out[x] = stmt.in[x] /\ stmt.in[x] \in PoolVars /\ stmt.in[x].slot = x - 1
          BY <4>1, <1>1, <1>4, <1>5, <1>10, StackPool
        <4>3. stmt.in[x] # d
          BY <4>1, <4>2, <1>8, <1>9
        <4>. QED
          BY <4>1, <4>2, <4>3, <1>1, <1>16, <1>18
      <3>. QED
        BY <3>1, <3>2
    <2>2. Len(cstack') = Len(LeftBy(body[ip])) /\ LeftBy(body[ip]) = stmt.out
      BY <1>4, <1>10, <1>18 DEF stmt
    <2>3. gvars' = cvars'
      BY <1>14 DEF Executing, Agrees
    <2>. QED
      BY <1>1, <1>3, <1>14, <1>22, <2>1, <2>2, <2>3, Arrive DEF Executing
  <1>23. WellMerged' = WellMerged /\ WideArithmetic' = WideArithmetic
    BY SameCode DEF Executing
  <1>24. ExecutionAgrees'
    BY ONLY <1>22, <1>23 DEF ExecutionAgrees
  <1>. QED
    BY <1>21, <1>24

\* A statement that pops and goes to a successor, with the stack variables below
\* left as they are.
LEMMA PopsStep ==
  ASSUME Executing, NEW k, k = Pops(stmt), k \in Nat, stmt.op # "ret",
         LeftBy(stmt) = scil_stack_pop(stmt.in, k),
         NEW j \in Successors(ip), NEW cj \in Successors(ip), ip' = j, cip' = cj,
         cstack' = CRest(k),
         cvars' \in [Variables -> Int], gvars' \in [Variables -> Int],
         \A v \in Variables : Fits(VarType[v], cvars'[v]),
         store' \in [PoolVars -> Int \cup {Uninit}],
         \A p \in PoolVars : store'[p] # Uninit => Fits(p.type, store'[p]),
         \A x \in 1..(Len(cstack) - k) : store'[stmt.in[x]] = store[stmt.in[x]],
         (WideArithmetic /\ truths') => cj = j, gvars' = cvars'
  PROVE  Running' /\ ExecutionAgrees'
  <1>1. /\ ip \in 1..Len(body) /\ cip = ip /\ Shape(stmt)
        /\ Len(cstack) \in Nat /\ Len(stmt.in) = Len(cstack)
        /\ \A x \in 1..Len(cstack) : store[stmt.in[x]] = cstack[x]
    BY Operands DEF Executing
  <1>2. ExecStack(stmt.in) /\ k <= Len(cstack)
    BY <1>1 DEF Shape
  <1>3. /\ Len(LeftBy(stmt)) = Len(cstack) - k
        /\ \A x \in 1..(Len(cstack) - k) : LeftBy(stmt)[x] = stmt.in[x]
    <2>1. k <= Len(stmt.in)
      BY <1>1, <1>2
    <2>2. /\ Len(scil_stack_pop(stmt.in, k)) = Len(stmt.in) - k
          /\ \A x \in 1..(Len(stmt.in) - k) : scil_stack_pop(stmt.in, k)[x] = stmt.in[x]
      BY ONLY <1>2, <2>1, k \in Nat, PopExec
    <2>. QED
      BY ONLY <1>1, <2>2, LeftBy(stmt) = scil_stack_pop(stmt.in, k)
  <1>4. /\ cstack' \in Seq(Int) /\ Len(cstack') = Len(cstack) - k
        /\ \A x \in 1..(Len(cstack) - k) : cstack'[x] = cstack[x]
    BY <1>1, <1>2, RestOfStack DEF Executing, Running
  <1>5. Len(cstack') <= MaxStack
    BY <1>1, <1>4, SizeAssumption DEF Executing, Running
  <1>6. Running'
    BY <1>1, <1>4, <1>5, RunningStep
  <1>7. ASSUME WellMerged, WideArithmetic, truths' PROVE Agrees'
    <2>1. ASSUME NEW x \in 1..Len(cstack') PROVE store'[LeftBy(stmt)[x]] = cstack'[x]
      <3>1. x \in 1..(Len(cstack) - k) /\ x \in 1..Len(cstack)
        BY ONLY <1>1, <1>4, k \in Nat, x \in 1..Len(cstack')
      <3>2. LeftBy(stmt)[x] = stmt.in[x] /\ cstack'[x] = cstack[x]
        BY <1>3, <1>4, <3>1
      <3>3. store'[stmt.in[x]] = store[stmt.in[x]] /\ store[stmt.in[x]] = cstack[x]
        BY <1>1, <3>1
      <3>. QED
        BY ONLY <3>2, <3>3
    <2>2. Len(cstack') = Len(LeftBy(body[ip]))
          /\ \A x \in 1..Len(cstack') : store'[LeftBy(body[ip])[x]] = cstack'[x]
      BY <1>3, <1>4, <2>1 DEF stmt
    <2>. QED
      BY <1>1, <1>7, <2>2, Arrive DEF Executing
  <1>8. WellMerged' = WellMerged /\ WideArithmetic' = WideArithmetic
    BY SameCode DEF Executing
  <1>9. ExecutionAgrees'
    BY ONLY <1>7, <1>8 DEF ExecutionAgrees
  <1>. QED
    BY <1>6, <1>9

\* The facts every instruction starts from.
LEMMA Facts ==
  ASSUME Executing
  PROVE  /\ ip \in 1..Len(body) /\ cip = ip /\ Shape(stmt) /\ GoodArg(stmt)
         /\ Pops(stmt) <= Len(cstack) /\ Len(cstack) \in Nat
         /\ stmt.op = "dup" => Len(cstack) >= 1
         /\ Len(stmt.in) = Len(cstack) /\ gvars = cvars
         /\ \A n \in 1..Len(cstack) :
              /\ Var(n) \in PoolVars /\ Var(n).type \in Narrow
              /\ Val(n) = CVal(n) /\ CVal(n) \in Int
              /\ Fits(Var(n).type, CVal(n))
         /\ \A v \in Variables : Fits(VarType[v], cvars[v]) /\ VarType[v] \in Narrow
         /\ cvars \in [Variables -> Int] /\ gvars \in [Variables -> Int]
  <1>1. /\ ip \in 1..Len(body) /\ cip = ip /\ Shape(stmt)
        /\ Len(cstack) \in Nat /\ Len(stmt.in) = Len(cstack)
        /\ \A n \in 1..Len(cstack) :
             /\ Var(n) \in PoolVars /\ Var(n).type \in Narrow
             /\ Val(n) = CVal(n)
             /\ Fits(Var(n).type, CVal(n))
    BY Operands DEF Executing
  <1>2. /\ GoodArg(stmt) /\ Pops(stmt) <= Len(cstack)
        /\ stmt.op = "dup" => Len(cstack) >= 1
    BY <1>1 DEF Shape
  <1>3. /\ gvars = cvars /\ cvars \in [Variables -> Int] /\ gvars \in [Variables -> Int]
        /\ \A v \in Variables : Fits(VarType[v], cvars[v]) /\ VarType[v] \in Narrow
    BY ExecAssumption DEF Executing, Agrees, Running
  <1>. QED
    BY <1>1, <1>2, <1>3 DEF Fits

\* ldarg, ldloc: a variable holds a value of its type.
LEMMA PushStep == Executing /\ ExecPush => Running' /\ ExecutionAgrees'
  <1>. SUFFICES ASSUME Executing, ExecPush PROVE Running' /\ ExecutionAgrees'
    OBVIOUS
  <1>1. stmt.op = "push" /\ Pushes(0, cvars[stmt.arg], gvars[stmt.arg])
    BY DEF ExecPush
  <1>2. Pops(stmt) = 0 /\ Result(stmt) = VarType[stmt.arg] /\ stmt.op \in Pushing
    BY <1>1 DEF Pops, Result, Pushing
  <1>3. stmt.arg \in Variables
    BY <1>1, Facts DEF GoodArg
  <1>4. /\ Fits(VarType[stmt.arg], cvars[stmt.arg]) /\ VarType[stmt.arg] \in Narrow
        /\ gvars[stmt.arg] = cvars[stmt.arg] /\ cvars[stmt.arg] \in Int
    BY <1>3, Facts
  <1>5. get_stack(VarType[stmt.arg]) = VarType[stmt.arg]
    BY <1>4, NarrowTypes
  <1>6. Convert(get_stack(Result(stmt)), gvars[stmt.arg]) = cvars[stmt.arg]
    BY <1>2, <1>4, <1>5 DEF Fits
  <1>. QED
    BY <1>1, <1>2, <1>4, <1>6, PushesStep

\* ldc: so does a literal.
LEMMA PushIntegerStep == Executing /\ ExecPushInteger => Running' /\ ExecutionAgrees'
  <1>. SUFFICES ASSUME Executing, ExecPushInteger PROVE Running' /\ ExecutionAgrees'
    OBVIOUS
  <1>. DEFINE l == stmt.arg
  <1>1. stmt.op = "push_integer" /\ Pushes(0, LitVal[l], Convert(LitType[l], LitVal[l]))
    BY DEF ExecPushInteger
  <1>2. Pops(stmt) = 0 /\ Result(stmt) = LitType[l] /\ stmt.op \in Pushing
    BY <1>1 DEF Pops, Result, Pushing
  <1>3. l \in Literals
    BY <1>1, Facts DEF GoodArg
  <1>4. LitType[l] \in Narrow /\ LitVal[l] \in Int /\ Convert(LitType[l], LitVal[l]) = LitVal[l]
    BY <1>3, ExecAssumption, LiteralAssumption
  <1>5. get_stack(LitType[l]) = LitType[l]
    BY <1>4, NarrowTypes
  <1>. HIDE DEF l
  <1>6. Pushes(0, LitVal[l], LitVal[l])
    BY <1>1, <1>4
  <1>7. Convert(get_stack(Result(stmt)), LitVal[l]) = LitVal[l]
    BY <1>2, <1>4, <1>5
  <1>. QED
    BY <1>2, <1>4, <1>6, <1>7, PushesStep

\* dup: the copy has the type of the original.
LEMMA DupStep == Executing /\ ExecDup => Running' /\ ExecutionAgrees'
  <1>. SUFFICES ASSUME Executing, ExecDup PROVE Running' /\ ExecutionAgrees'
    OBVIOUS
  <1>1. stmt.op = "dup" /\ Pushes(0, CVal(1), Val(1))
    BY DEF ExecDup
  <1>2. Pops(stmt) = 0 /\ Result(stmt) = Var(1).type /\ stmt.op \in Pushing
    BY <1>1 DEF Pops, Result, Pushing, Var
  <1>3. 1 \in 1..Len(cstack)
    BY <1>1, Facts
  <1>4. Var(1).type \in Narrow /\ Val(1) = CVal(1) /\ Fits(Var(1).type, CVal(1))
        /\ CVal(1) \in Int
    BY <1>3, Facts
  <1>5. get_stack(Var(1).type) = Var(1).type
    BY <1>4, NarrowTypes
  <1>6. Convert(get_stack(Result(stmt)), Val(1)) = CVal(1)
    BY <1>2, <1>4, <1>5 DEF Fits
  <1>7. Val(1) \in Int
    BY <1>4
  <1>. QED
    BY <1>1, <1>2, <1>4, <1>6, <1>7, PushesStep

\* conv: the stack variable does the conversion.
LEMMA ConvertStep == Executing /\ ExecConvert => Running' /\ ExecutionAgrees'
  <1>. SUFFICES ASSUME Executing, ExecConvert PROVE Running' /\ ExecutionAgrees'
    OBVIOUS
  <1>. DEFINE t == stmt.arg
  <1>1. stmt.op = "convert" /\ Pushes(1, CilConvert(t, CVal(1)), Val(1))
    BY DEF ExecConvert
  <1>2. Pops(stmt) = 1 /\ Result(stmt) = t /\ stmt.op \in Pushing
    BY <1>1 DEF Pops, Result, Pushing
  <1>3. t \in Narrow
    BY <1>1, Facts, ExecAssumption DEF GoodArg
  <1>4. 1 \in 1..Len(cstack)
    BY <1>2, Facts
  <1>5. Val(1) = CVal(1) /\ CVal(1) \in Int
    BY <1>4, Facts
  <1>6. get_stack(t) = t
    BY <1>3, NarrowTypes
  <1>. HIDE DEF t
  <1>7. Convert(t, CVal(1)) = CilConvert(t, CVal(1)) /\ Convert(t, CVal(1)) \in Int
    BY <1>3, <1>5, ConvertFits DEF Fits
  <1>8. Convert(get_stack(Result(stmt)), Val(1)) = CilConvert(t, CVal(1))
        /\ CilConvert(t, CVal(1)) \in Int /\ Val(1) \in Int
    BY <1>2, <1>5, <1>6, <1>7
  <1>. QED
    BY <1>1, <1>2, <1>3, <1>8, PushesStep

\* call: the result fits its type.
LEMMA CallStep == Executing /\ ExecCall => Running' /\ ExecutionAgrees'
  <1>. SUFFICES ASSUME Executing, ExecCall PROVE Running' /\ ExecutionAgrees'
    OBVIOUS
  <1>. DEFINE g == stmt.arg
              k == Len(SigParams[g])
              t == SigResult[g]
  <1>1. PICK r \in Arguments : CilConvert(t, r) = r /\ Pushes(k, r, r)
    BY DEF ExecCall
  <1>2. stmt.op = "call"
    BY DEF ExecCall
  <1>3. Pops(stmt) = k /\ Result(stmt) = t /\ stmt.op \in Pushing
    BY <1>2 DEF Pops, Result, Pushing
  <1>4. g \in Signatures
    BY <1>2, Facts DEF GoodArg
  <1>5. t \in Narrow /\ k \in Nat /\ r \in Int
    BY <1>4, ExecAssumption, TypeAssumption
  <1>6. get_stack(t) = t
    BY <1>5, NarrowTypes
  <1>. HIDE DEF g, k, t
  <1>7. Convert(t, r) = r
    BY <1>1, <1>5, ConvertFits
  <1>8. Convert(get_stack(Result(stmt)), r) = r
    BY <1>3, <1>6, <1>7
  <1>. QED
    BY <1>1, <1>3, <1>5, <1>8, PushesStep

\* Two operands, in the bigger of their types.
LEMMA TwoOperands ==
  ASSUME Executing, Pops(stmt) = 2
  PROVE  LET type == BiggerType(Var(2), Var(1)) IN
         /\ type \in Narrow /\ Var(1).type \in Narrow /\ Var(2).type \in Narrow
         /\ CVal(1) \in Int /\ CVal(2) \in Int
         /\ Val(1) = CVal(1) /\ Val(2) = CVal(2)
         /\ Convert(type, Val(1)) = CVal(1) /\ Convert(type, Val(2)) = CVal(2)
  <1>1. 1 \in 1..Len(cstack) /\ 2 \in 1..Len(cstack)
    BY Facts
  <1>2. /\ Var(1).type \in Narrow /\ Var(2).type \in Narrow
        /\ CVal(1) \in Int /\ CVal(2) \in Int
        /\ Val(1) = CVal(1) /\ Val(2) = CVal(2)
        /\ Fits(Var(1).type, CVal(1)) /\ Fits(Var(2).type, CVal(2))
    BY <1>1, Facts
  <1>. DEFINE type == BiggerType(Var(2), Var(1))
  <1>3. type \in Narrow /\ Convert(type, CVal(2)) = CVal(2) /\ Convert(type, CVal(1)) = CVal(1)
    BY <1>2, BiggerCompares
  <1>. HIDE DEF type
  <1>4. Convert(type, Val(1)) = CVal(1) /\ Convert(type, Val(2)) = CVal(2)
    BY <1>2, <1>3
  <1>. QED
    BY <1>2, <1>3, <1>4 DEF type

\* Wide arithmetic, at the statement executed.
LEMMA WideOperands ==
  ASSUME Executing, WideArithmetic,
         stmt.op \in {"binop", "binop_un", "compare_un", "branch_compare_un"}
  PROVE  Var(1).type = "int32" /\ Var(2).type = "int32"
         /\ BiggerType(Var(2), Var(1)) = "int32"
  <1>1. ip \in 1..Len(body)
    BY Facts
  <1>2. \A n \in 1..2 : FromTop(stmt.in, n).type = "int32"
    BY <1>1 DEF WideArithmetic, stmt
  <1>3. Var(1).type = "int32" /\ Var(2).type = "int32"
    BY <1>2 DEF Var
  <1>. QED
    BY <1>3 DEF BiggerType

\* The operands of an unsigned operation.
LEMMA UnsignedOperands ==
  ASSUME Executing, Pops(stmt) = 2
  PROVE  /\ \A n \in 1..2 : Unsigned(n) \in Nat /\ CUnsigned(n) \in Nat
         /\ Var(1).type = "int32" => \A n \in 1..2 : Unsigned(n) = CUnsigned(n)
  <1>. DEFINE top == Var(1).type
              type == unsigned_type(top)
  <1>1. /\ top \in Narrow
        /\ \A n \in 1..2 : CVal(n) \in Int /\ Val(n) = CVal(n)
    BY TwoOperands
  <1>2. /\ type \in {"uint8", "uint16", "uint32"}
        /\ top = "int32" => type = "uint32"
    BY <1>1 DEF unsigned_type, Narrow
  <1>3. ASSUME NEW t \in {"uint8", "uint16", "uint32"}, NEW y \in Int
        PROVE  Convert(t, y) \in Nat /\ Convert(t, y) = CilConvert(t, y)
    <2>1. t \notin GccSigned /\ t \notin CilSigned /\ t \in IntTypes
      BY DEF GccSigned, CilSigned, IntTypes
    <2>2. Size[t] \in Nat \ {0}
      BY <2>1, ExecAssumption
    <2>3. Convert(t, y) = Wrap(y, Size[t], FALSE) /\ CilConvert(t, y) = Wrap(y, Size[t], FALSE)
      BY <2>1 DEF Convert, CilConvert, Wrap
    <2>. QED
      BY <2>2, <2>3, WrapUnsigned
  <1>4. \A n : Unsigned(n) = Convert(type, Val(n)) /\ CUnsigned(n) = CilConvert("uint32", CVal(n))
    BY DEF Unsigned, CUnsigned
  <1>. HIDE DEF type
  <1>5. ASSUME NEW n \in 1..2
        PROVE  /\ Unsigned(n) \in Nat /\ CUnsigned(n) \in Nat
               /\ top = "int32" => Unsigned(n) = CUnsigned(n)
    <2>1. CVal(n) \in Int /\ Val(n) = CVal(n)
      BY <1>1
    <2>2. Convert(type, CVal(n)) \in Nat
      BY <1>2, <1>3, <2>1
    <2>3. Convert("uint32", CVal(n)) \in Nat
          /\ Convert("uint32", CVal(n)) = CilConvert("uint32", CVal(n))
      BY <1>3, <2>1
    <2>. QED
      BY <1>2, <1>4, <2>1, <2>2, <2>3
  <1>. QED
    BY <1>5

\* A comparison leaves a truth value in the stack variable of a bool.
LEMMA TruthPushed ==
  ASSUME Executing, stmt.op \in {"compare", "compare_un"}, NEW b, NEW c,
         Pushes(2, Truth(c), Truth(b)), WideArithmetic => b = c
  PROVE  Running' /\ ExecutionAgrees'
  <1>. DEFINE n == Truth(c)
              m == Truth(b)
  <1>1. Pushes(2, n, m)
    OBVIOUS
  <1>2. Pops(stmt) = 2 /\ Result(stmt) = "bool" /\ stmt.op \in Pushing
    BY DEF Pops, Result, Pushing
  <1>3. get_stack("bool") = "int8" /\ "int8" \in Narrow
    BY DEF get_stack, Narrow
  <1>4. Fits("int8", n) /\ Fits("int8", m)
    BY <1>3, TruthFits
  <1>5. WideArithmetic => m = n
    OBVIOUS
  <1>. HIDE DEF n, m
  <1>6. n \in Int /\ m \in Int /\ (WideArithmetic => Convert(get_stack(Result(stmt)), m) = n)
    BY <1>2, <1>3, <1>4, <1>5 DEF Fits
  <1>. QED
    BY <1>1, <1>2, <1>6, PushesStep

\* Signed operands are compared in the bigger of their types, and lose nothing.
LEMMA SameCompared ==
  ASSUME Executing, stmt.op \in {"compare", "branch_compare"}, NEW rel
  PROVE  Compared(rel) = CCompared(rel)
  <1>1. Pops(stmt) = 2
    BY DEF Pops
  <1>. DEFINE type == BiggerType(Var(2), Var(1))
  <1>2. Convert(type, Val(1)) = CVal(1) /\ Convert(type, Val(2)) = CVal(2)
    BY <1>1, TwoOperands
  <1>3. Compared(rel) = Holds(rel, Convert(type, Val(2)), Convert(type, Val(1)))
    BY DEF Compared
  <1>. HIDE DEF type
  <1>. QED
    BY <1>2, <1>3 DEF CCompared

\* Wide unsigned operands are those of CIL.
LEMMA SameComparedUn ==
  ASSUME Executing, stmt.op \in {"compare_un", "branch_compare_un"}, WideArithmetic, NEW rel
  PROVE  ComparedUn(rel) = CComparedUn(rel)
  <1>1. Pops(stmt) = 2
    BY DEF Pops
  <1>2. Var(1).type = "int32"
    BY WideOperands
  <1>3. Unsigned(1) = CUnsigned(1) /\ Unsigned(2) = CUnsigned(2)
    BY <1>1, <1>2, UnsignedOperands
  <1>. QED
    BY <1>3 DEF ComparedUn, CComparedUn

\* ceq, cgt, clt.
LEMMA CompareStep == Executing /\ ExecCompare => Running' /\ ExecutionAgrees'
  <1>. SUFFICES ASSUME Executing, ExecCompare PROVE Running' /\ ExecutionAgrees'
    OBVIOUS
  <1>1. PICK rel \in Relations : Pushes(2, Truth(CCompared(rel)), Truth(Compared(rel)))
    BY DEF ExecCompare
  <1>2. stmt.op = "compare"
    BY DEF ExecCompare
  <1>3. Compared(rel) = CCompared(rel)
    BY <1>2, SameCompared
  <1>. QED
    BY <1>1, <1>2, <1>3, TruthPushed

\* cgt.un, clt.un.
LEMMA CompareUnStep == Executing /\ ExecCompareUn => Running' /\ ExecutionAgrees'
  <1>. SUFFICES ASSUME Executing, ExecCompareUn PROVE Running' /\ ExecutionAgrees'
    OBVIOUS
  <1>1. PICK rel \in RelationsUn : Pushes(2, Truth(CComparedUn(rel)), Truth(ComparedUn(rel)))
    BY DEF ExecCompareUn
  <1>2. stmt.op = "compare_un"
    BY DEF ExecCompareUn
  <1>3. WideArithmetic => ComparedUn(rel) = CComparedUn(rel)
    BY <1>2, SameComparedUn
  <1>. QED
    BY <1>1, <1>2, <1>3, TruthPushed

\* A quotient or a remainder is a number where there is one.
LEMMA QuotientType ==
  ASSUME NEW a \in Int, NEW b \in Int, b # 0
  PROVE  Quotient(a, b) \in Int
  <1>. DEFINE c == Abs(a)
              d == Abs(b)
  <1>1. c \in Nat /\ d \in Nat \ {0}
    BY DEF Abs
  <1>. HIDE DEF c, d
  <1>2. c \div d \in Int
    BY <1>1
  <1>3. Quotient(a, b) = IF (a < 0) = (b < 0) THEN c \div d ELSE -(c \div d)
    BY DEF Quotient, c, d
  <1>. HIDE DEF Quotient
  <1>. QED
    BY <1>2, <1>3

\* neg, not: a wide operand is computed with as CIL does.
LEMMA UnopStep == Executing /\ ExecUnop => Running' /\ ExecutionAgrees'
  <1>. SUFFICES ASSUME Executing, ExecUnop PROVE Running' /\ ExecutionAgrees'
    OBVIOUS
  <1>1. PICK f \in UnOps : Pushes(1, Int32(Compute1(f, CVal(1))), Compute1(f, Val(1)))
    BY DEF ExecUnop
  <1>. DEFINE m == Compute1(f, CVal(1))
              n == Int32(m)
  <1>2. stmt.op = "unop"
    BY DEF ExecUnop
  <1>3. Pops(stmt) = 1 /\ Result(stmt) = Var(1).type /\ stmt.op \in Pushing
    BY <1>2 DEF Pops, Result, Pushing, Var
  <1>4. 1 \in 1..Len(cstack)
    BY <1>3, Facts
  <1>5. Var(1).type \in Narrow /\ Val(1) = CVal(1) /\ CVal(1) \in Int
    BY <1>4, Facts
  <1>6. m \in Int
    BY <1>5 DEF Compute1
  <1>7. Pushes(1, n, m)
    BY <1>1, <1>5
  <1>8. "int32" \in Narrow
    BY DEF Narrow
  <1>. HIDE DEF m
  <1>9. n = Convert("int32", m) /\ n \in Int
    BY <1>6, <1>8, ConvertFits DEF Fits, Int32
  <1>10. get_stack(Var(1).type) = Var(1).type
    BY <1>5, NarrowTypes
  <1>11. WideArithmetic => Var(1).type = "int32"
    <2>1. ip \in 1..Len(body)
      BY Facts
    <2>. QED
      BY <1>2, <2>1 DEF WideArithmetic, stmt, Var
  <1>12. WideArithmetic => Convert(get_stack(Result(stmt)), m) = n
    BY <1>3, <1>9, <1>10, <1>11
  <1>. HIDE DEF n
  <1>. QED
    BY <1>3, <1>5, <1>6, <1>7, <1>9, <1>12, PushesStep

\* add, sub, mul, div: and so are two.
LEMMA BinopStep == Executing /\ ExecBinop => Running' /\ ExecutionAgrees'
  <1>. SUFFICES ASSUME Executing, ExecBinop PROVE Running' /\ ExecutionAgrees'
    OBVIOUS
  <1>. DEFINE type == BiggerType(Var(2), Var(1))
  <1>1. PICK f \in BinOps :
          /\ Defined(f, CVal(2), CVal(1))
          /\ Pushes(2, Int32(Compute(f, CVal(2), CVal(1))),
                    Convert(type, Compute(f, Convert(type, Val(2)), Convert(type, Val(1)))))
    BY DEF ExecBinop
  <1>. DEFINE x == Compute(f, CVal(2), CVal(1))
              n == Int32(x)
              m == Convert(type, x)
  <1>0. stmt.op = "binop"
    BY DEF ExecBinop
  <1>2. /\ Pops(stmt) = 2 /\ stmt.op \in Pushing
        /\ Result(stmt) = type
    BY <1>0 DEF Pops, Result, Pushing, Var
  <1>3. /\ type \in Narrow /\ CVal(1) \in Int /\ CVal(2) \in Int
        /\ Convert(type, Val(1)) = CVal(1) /\ Convert(type, Val(2)) = CVal(2)
    BY <1>2, TwoOperands
  <1>4. x \in Int
    <2>1. CASE f = "div"
      <3>1. CVal(1) # 0
        BY <1>1, <2>1 DEF Defined
      <3>2. x = Quotient(CVal(2), CVal(1))
        BY <2>1 DEF Compute
      <3>. QED
        BY <1>3, <3>1, <3>2, QuotientType
    <2>2. CASE f \in {"add", "sub", "mul"}
      BY <1>3, <2>2 DEF Compute
    <2>. QED
      BY <2>1, <2>2 DEF BinOps
  <1>5. Pushes(2, n, m)
    <2>. HIDE DEF type
    <2>. QED
      BY <1>1, <1>3
  <1>6. "int32" \in Narrow
    BY DEF Narrow
  <1>7. get_stack(type) = type
    BY <1>3, NarrowTypes
  <1>. HIDE DEF x, type
  <1>8. m \in Int /\ n \in Int /\ Convert(type, m) = m /\ n = Convert("int32", x)
    BY <1>3, <1>4, <1>6, ConvertFits DEF Fits, Int32
  <1>9. WideArithmetic => type = "int32"
    BY <1>0, WideOperands DEF type
  <1>10. WideArithmetic => Convert(get_stack(Result(stmt)), m) = n
    BY <1>2, <1>7, <1>8, <1>9
  <1>. HIDE DEF n, m
  <1>. QED
    BY <1>2, <1>3, <1>5, <1>8, <1>10, PushesStep

\* div.un, rem.un: and wide unsigned ones.
LEMMA BinopUnStep == Executing /\ ExecBinopUn => Running' /\ ExecutionAgrees'
  <1>. SUFFICES ASSUME Executing, ExecBinopUn PROVE Running' /\ ExecutionAgrees'
    OBVIOUS
  <1>. DEFINE top == Var(1).type
  <1>1. PICK f \in BinOpsUn :
          Pushes(2, Int32(Compute(f, CUnsigned(2), CUnsigned(1))),
                 Compute(f, Unsigned(2), Unsigned(1)))
    BY DEF ExecBinopUn
  <1>. DEFINE x == Compute(f, CUnsigned(2), CUnsigned(1))
              n == Int32(x)
              m == Compute(f, Unsigned(2), Unsigned(1))
  <1>2. stmt.op = "binop_un" /\ CUnsigned(1) # 0 /\ Unsigned(1) # 0 /\ Pushes(2, n, m)
    BY <1>1 DEF ExecBinopUn
  <1>3. Pops(stmt) = 2 /\ stmt.op \in Pushing /\ Result(stmt) = top
    BY <1>2 DEF Pops, Result, Pushing, Var
  <1>4. top \in Narrow
    BY <1>3, TwoOperands
  <1>5. /\ Unsigned(1) \in Nat /\ CUnsigned(1) \in Nat
        /\ Unsigned(2) \in Nat /\ CUnsigned(2) \in Nat
        /\ top = "int32" => Unsigned(1) = CUnsigned(1) /\ Unsigned(2) = CUnsigned(2)
    BY <1>3, UnsignedOperands
  <1>6. ASSUME NEW c \in Nat, NEW d \in Nat, d # 0 PROVE Compute(f, c, d) \in Int
    <2>1. Quotient(c, d) \in Int
      BY <1>6, QuotientType
    <2>2. c % d \in Int
      BY <1>6
    <2>. QED
      BY <2>1, <2>2 DEF Compute, BinOpsUn
  <1>7. m \in Int /\ x \in Int
    BY <1>2, <1>5, <1>6
  <1>8. top = "int32" => m = x
    BY <1>5
  <1>9. "int32" \in Narrow
    BY DEF Narrow
  <1>. HIDE DEF top, x, m
  <1>10. n = Convert("int32", x) /\ n \in Int
    BY <1>7, <1>9, ConvertFits DEF Fits, Int32
  <1>11. get_stack(top) = top
    BY <1>4, NarrowTypes
  <1>12. WideArithmetic => top = "int32"
    BY <1>2, WideOperands DEF top
  <1>13. WideArithmetic => Convert(get_stack(Result(stmt)), m) = n
    BY <1>3, <1>8, <1>10, <1>11, <1>12
  <1>. HIDE DEF n
  <1>. QED
    BY <1>2, <1>3, <1>4, <1>7, <1>10, <1>13, PushesStep

\* pop.
LEMMA PopStep == Executing /\ ExecPop => Running' /\ ExecutionAgrees'
  <1>. SUFFICES ASSUME Executing, ExecPop PROVE Running' /\ ExecutionAgrees'
    OBVIOUS
  <1>1. /\ stmt.op = "pop" /\ cstack' = CRest(1) /\ ip' = ip + 1 /\ cip' = ip + 1
        /\ cvars' = cvars /\ gvars' = gvars /\ store' = store
    BY Facts DEF ExecPop, Continue
  <1>2. Pops(stmt) = 1 /\ Result(stmt) = "void" /\ Falling(stmt) /\ stmt.op # "ret"
    BY <1>1 DEF Pops, Result, Falling
  <1>3. ip + 1 \in Successors(ip)
    BY <1>2, NextStatement
  <1>4. LeftBy(stmt) = scil_stack_pop(stmt.in, 1)
    BY <1>2, LeftWithout
  <1>5. /\ cvars' \in [Variables -> Int] /\ gvars' \in [Variables -> Int] /\ gvars' = cvars'
        /\ \A v \in Variables : Fits(VarType[v], cvars'[v])
    BY <1>1, Facts
  <1>6. /\ store' \in [PoolVars -> Int \cup {Uninit}]
        /\ \A p \in PoolVars : store'[p] # Uninit => Fits(p.type, store'[p])
    BY <1>1 DEF Executing, Running
  <1>7. \A x \in 1..(Len(cstack) - 1) : store'[stmt.in[x]] = store[stmt.in[x]]
    BY <1>1
  <1>. QED
    BY <1>1, <1>2, <1>3, <1>4, <1>5, <1>6, <1>7, PopsStep

\* starg, stloc: both machines convert to the type of the variable.
LEMMA PopIntoStep == Executing /\ ExecPopInto => Running' /\ ExecutionAgrees'
  <1>. SUFFICES ASSUME Executing, ExecPopInto PROVE Running' /\ ExecutionAgrees'
    OBVIOUS
  <1>. DEFINE v == stmt.arg
              c == CilConvert(VarType[v], CVal(1))
  <1>1. /\ stmt.op = "pop_into" /\ cstack' = CRest(1) /\ ip' = ip + 1 /\ cip' = ip + 1
        /\ cvars' = [cvars EXCEPT ![v] = c]
        /\ gvars' = [gvars EXCEPT ![v] = Convert(VarType[v], Val(1))]
        /\ store' = store
    BY Facts DEF ExecPopInto, Continue
  <1>2. Pops(stmt) = 1 /\ Result(stmt) = "void" /\ Falling(stmt) /\ stmt.op # "ret"
    BY <1>1 DEF Pops, Result, Falling
  <1>3. ip + 1 \in Successors(ip)
    BY <1>2, NextStatement
  <1>4. LeftBy(stmt) = scil_stack_pop(stmt.in, 1)
    BY <1>2, LeftWithout
  <1>5. v \in Variables /\ VarType[v] \in Narrow
    BY <1>1, Facts DEF GoodArg
  <1>6. 1 \in 1..Len(cstack)
    BY <1>2, Facts
  <1>7. Val(1) = CVal(1) /\ CVal(1) \in Int
    BY <1>6, Facts
  <1>8. Convert(VarType[v], Val(1)) = c /\ Fits(VarType[v], c)
    BY <1>5, <1>7, ConvertFits
  <1>. HIDE DEF v, c
  <1>9. c \in Int
    BY <1>8 DEF Fits
  <1>10. /\ cvars \in [Variables -> Int] /\ gvars = cvars
         /\ \A w \in Variables : Fits(VarType[w], cvars[w])
    BY Facts
  <1>11. gvars' = cvars'
    BY <1>1, <1>8, <1>10
  <1>12. cvars' \in [Variables -> Int] /\ gvars' \in [Variables -> Int]
    BY <1>1, <1>9, <1>10, <1>11
  <1>13. ASSUME NEW w \in Variables PROVE Fits(VarType[w], cvars'[w])
    <2>1. CASE w = v
      <3>1. cvars'[w] = c
        BY <2>1, <1>1, <1>10
      <3>. QED
        BY <3>1, <2>1, <1>8
    <2>2. CASE w # v
      <3>1. cvars'[w] = cvars[w]
        BY <2>2, <1>1, <1>10
      <3>. QED
        BY <3>1, <1>10
    <2>. QED
      BY <2>1, <2>2
  <1>14. /\ store' \in [PoolVars -> Int \cup {Uninit}]
         /\ \A p \in PoolVars : store'[p] # Uninit => Fits(p.type, store'[p])
    BY <1>1 DEF Executing, Running
  <1>15. \A x \in 1..(Len(cstack) - 1) : store'[stmt.in[x]] = store[stmt.in[x]]
    BY <1>1
  <1>. QED
    BY <1>1, <1>2, <1>3, <1>4, <1>11, <1>12, <1>13, <1>14, <1>15, PopsStep

\* A goto, taken by both machines or by neither if the conditions of the
\* comparison hold.
LEMMA GotoStep ==
  ASSUME Executing, NEW taken \in BOOLEAN, NEW ctaken \in BOOLEAN, NEW k, Goto(taken, ctaken, k),
         stmt.op \in Branching, k = Pops(stmt), k \in Nat,
         stmt.op = "branch" => taken /\ ctaken,
         (WideArithmetic /\ truths') => ctaken = taken,
         store' \in [PoolVars -> Int \cup {Uninit}],
         \A p \in PoolVars : store'[p] # Uninit => Fits(p.type, store'[p]),
         \A x \in 1..(Len(cstack) - k) : store'[stmt.in[x]] = store[stmt.in[x]]
  PROVE  Running' /\ ExecutionAgrees'
  <1>1. /\ cstack' = CRest(k) /\ cvars' = cvars /\ gvars' = gvars
        /\ ip' = IF taken THEN stmt.target ELSE ip + 1
        /\ cip' = IF ctaken THEN stmt.target ELSE ip + 1
    BY Facts DEF Goto
  <1>2. Result(stmt) = "void" /\ stmt.op # "ret"
    BY DEF Result, Branching
  <1>3. LeftBy(stmt) = scil_stack_pop(stmt.in, k)
    BY <1>2, LeftWithout
  <1>4. stmt.target \in Labels
    BY Facts DEF Shape
  <1>5. stmt.target \in Successors(ip)
    BY <1>4 DEF Labels, Successors, stmt
  <1>6. ~taken \/ ~ctaken => ip + 1 \in Successors(ip)
    BY <1>2 DEF Successors, stmt
  <1>. DEFINE j == IF taken THEN stmt.target ELSE ip + 1
              cj == IF ctaken THEN stmt.target ELSE ip + 1
  <1>7. j \in Successors(ip) /\ cj \in Successors(ip) /\ ip' = j /\ cip' = cj
        /\ ((WideArithmetic /\ truths') => cj = j)
    BY <1>1, <1>5, <1>6
  <1>. HIDE DEF j, cj
  <1>8. /\ cvars' \in [Variables -> Int] /\ gvars' \in [Variables -> Int] /\ gvars' = cvars'
        /\ \A v \in Variables : Fits(VarType[v], cvars'[v])
    BY <1>1, Facts
  <1>. QED
    BY <1>1, <1>2, <1>3, <1>7, <1>8, PopsStep

\* br, brtrue, brfalse.
LEMMA BranchStep ==
  Executing /\ (ExecBranch \/ ExecBranchTrue \/ ExecBranchFalse) => Running' /\ ExecutionAgrees'
  <1>. SUFFICES ASSUME Executing, ExecBranch \/ ExecBranchTrue \/ ExecBranchFalse
                PROVE  Running' /\ ExecutionAgrees'
    OBVIOUS
  <1>1. store' = store
    BY DEF ExecBranch, ExecBranchTrue, ExecBranchFalse
  <1>2. /\ store' \in [PoolVars -> Int \cup {Uninit}]
        /\ \A p \in PoolVars : store'[p] # Uninit => Fits(p.type, store'[p])
    BY <1>1 DEF Executing, Running
  <1>3. \A k : \A x \in 1..(Len(cstack) - k) : store'[stmt.in[x]] = store[stmt.in[x]]
    BY <1>1
  <1>4. CASE ExecBranch
    <2>1. stmt.op = "branch" /\ Goto(TRUE, TRUE, 0)
      BY <1>4 DEF ExecBranch
    <2>2. Pops(stmt) = 0 /\ stmt.op \in Branching
      BY <2>1 DEF Pops, Branching
    <2>3. \A x \in 1..(Len(cstack) - 0) : store'[stmt.in[x]] = store[stmt.in[x]]
      BY <1>3
    <2>4. TRUE \in BOOLEAN /\ 0 \in Nat
      OBVIOUS
    <2>. QED
      BY <1>2, <2>1, <2>2, <2>3, <2>4, GotoStep
  <1>5. ASSUME stmt.op \in {"branch_true", "branch_false"}
        PROVE  /\ Pops(stmt) = 1 /\ stmt.op \in Branching /\ stmt.op # "branch"
               /\ \A b \in BoolConvert(Val(1)) : truths' => b = CVal(1)
    <2>1. Pops(stmt) = 1 /\ stmt.op \in Branching /\ stmt.op # "branch"
      BY <1>5 DEF Pops, Branching
    <2>2. 1 \in 1..Len(cstack)
      BY <2>1, Facts
    <2>3. Val(1) = CVal(1)
      BY <2>2, Facts
    <2>4. ASSUME NEW b \in BoolConvert(Val(1)), truths' PROVE b = CVal(1)
      <3>1. CVal(1) \in {0, 1}
        BY <1>5, <2>4 DEF Executing, TestsATruth
      <3>2. b = CVal(1) % Size["int8"] \/ b = CVal(1) % Size["bool"]
        BY <2>3, <2>4 DEF BoolConvert
      <3>3. Size["int8"] \in Nat /\ Size["int8"] >= 4 /\ Size["bool"] = 2
        BY ExecAssumption DEF IntTypes
      <3>. QED
        BY <3>1, <3>2, <3>3, SmallRemainder
    <2>. QED
      BY <2>1, <2>4
  <1>6. CASE ExecBranchTrue
    <2>1. PICK b \in BoolConvert(Val(1)) : Goto(b # 0, CVal(1) # 0, 1)
      BY <1>6 DEF ExecBranchTrue
    <2>2. stmt.op = "branch_true"
      BY <1>6 DEF ExecBranchTrue
    <2>. DEFINE g == b # 0
                c == CVal(1) # 0
    <2>3. Goto(g, c, 1) /\ g \in BOOLEAN /\ c \in BOOLEAN
      BY <2>1
    <2>4. /\ Pops(stmt) = 1 /\ stmt.op \in Branching /\ stmt.op # "branch"
          /\ truths' => c = g
      BY <1>5, <2>2
    <2>. HIDE DEF g, c
    <2>. QED
      BY <1>2, <1>3, <2>3, <2>4, GotoStep
  <1>7. CASE ExecBranchFalse
    <2>1. PICK b \in BoolConvert(Val(1)) : Goto(b = 0, CVal(1) = 0, 1)
      BY <1>7 DEF ExecBranchFalse
    <2>2. stmt.op = "branch_false"
      BY <1>7 DEF ExecBranchFalse
    <2>. DEFINE g == b = 0
                c == CVal(1) = 0
    <2>3. Goto(g, c, 1) /\ g \in BOOLEAN /\ c \in BOOLEAN
      BY <2>1
    <2>4. /\ Pops(stmt) = 1 /\ stmt.op \in Branching /\ stmt.op # "branch"
          /\ truths' => c = g
      BY <1>5, <2>2
    <2>. HIDE DEF g, c
    <2>. QED
      BY <1>2, <1>3, <2>3, <2>4, GotoStep
  <1>. QED
    BY <1>4, <1>6, <1>7

\* A comparison and a goto: the variable of the result is above those that are
\* kept.
LEMMA CompareAndGotoStep ==
  ASSUME Executing, stmt.op \in {"branch_compare", "branch_compare_un"},
         NEW b \in BOOLEAN, NEW c \in BOOLEAN, CompareAndGoto(b, c), WideArithmetic => c = b
  PROVE  Running' /\ ExecutionAgrees'
  <1>. DEFINE s == scil_stack_pop(stmt.in, 2)
              tmp == scil_get_stack_variable("bool", s)
  <1>1. /\ Goto(b, c, 2)
        /\ store' = [store EXCEPT ![tmp] = Truth(b)]
    BY DEF CompareAndGoto
  <1>2. Pops(stmt) = 2 /\ stmt.op \in Branching /\ stmt.op # "branch"
    BY DEF Pops, Branching
  <1>5. /\ 2 <= Len(cstack) /\ Len(cstack) \in Nat /\ Len(stmt.in) = Len(cstack)
        /\ ExecStack(stmt.in)
    BY <1>2, Facts DEF Shape
  <1>6. Len(s) = Len(cstack) - 2
    BY <1>5, PopExec
  <1>7. tmp = [type |-> "int8", slot |-> Len(s)]
    BY DEF scil_get_stack_variable, get_stack
  <1>8. Len(cstack) - 2 \in 0..(MaxStack - 1)
    BY <1>5, SizeAssumption DEF ExecStack
  <1>. HIDE DEF s
  <1>9. tmp \in PoolVars /\ tmp.type = "int8" /\ tmp.slot = Len(cstack) - 2
    BY <1>6, <1>7, <1>8 DEF PoolVars, Narrow
  <1>10. Fits(tmp.type, Truth(b))
    BY <1>9, TruthFits DEF Narrow
  <1>. HIDE DEF tmp
  <1>11. /\ store' \in [PoolVars -> Int \cup {Uninit}]
         /\ \A q \in PoolVars : store'[q] # Uninit => Fits(q.type, store'[q])
         /\ \A q \in PoolVars : q # tmp => store'[q] = store[q]
    BY <1>1, <1>9, <1>10, StoreStep DEF Executing
  <1>12. ASSUME NEW x \in 1..(Len(cstack) - 2)
         PROVE  store'[stmt.in[x]] = store[stmt.in[x]]
    <2>1. x \in 1..Len(stmt.in)
      BY <1>5
    <2>2. stmt.in[x] \in PoolVars /\ stmt.in[x].slot = x - 1
      BY <1>5, <2>1, StackPool
    <2>3. stmt.in[x] # tmp
      BY <1>5, <1>9, <2>2
    <2>. QED
      BY <1>11, <2>2, <2>3
  <1>. QED
    BY <1>1, <1>2, <1>11, <1>12, GotoStep

\* A comparison of two numbers is true or false.
LEMMA HoldsType ==
  ASSUME NEW rel \in Relations \cup RelationsUn, NEW a \in Int, NEW b \in Int
  PROVE  Holds(rel, a, b) \in BOOLEAN
  <1>1. CASE rel \in {"eq", "ne"}
    BY <1>1 DEF Holds
  <1>2. CASE rel = "gt"
    BY <1>2 DEF Holds
  <1>3. CASE rel = "lt"
    BY <1>3 DEF Holds
  <1>4. CASE rel = "ge"
    BY <1>4 DEF Holds
  <1>5. CASE rel = "le"
    BY <1>5 DEF Holds
  <1>. QED
    BY <1>1, <1>2, <1>3, <1>4, <1>5 DEF Relations, RelationsUn

\* beq, bge, ...
LEMMA BranchCompareStep == Executing /\ ExecBranchCompare => Running' /\ ExecutionAgrees'
  <1>. SUFFICES ASSUME Executing, ExecBranchCompare PROVE Running' /\ ExecutionAgrees'
    OBVIOUS
  <1>1. PICK rel \in Relations : CompareAndGoto(Compared(rel), CCompared(rel))
    BY DEF ExecBranchCompare
  <1>2. stmt.op = "branch_compare"
    BY DEF ExecBranchCompare
  <1>3. Pops(stmt) = 2
    BY <1>2 DEF Pops
  <1>4. Compared(rel) = CCompared(rel)
    BY <1>2, SameCompared
  <1>5. CVal(1) \in Int /\ CVal(2) \in Int
    BY <1>3, TwoOperands
  <1>6. CCompared(rel) \in BOOLEAN
    BY <1>5, HoldsType DEF CCompared
  <1>. QED
    BY <1>1, <1>2, <1>4, <1>6, CompareAndGotoStep

\* bne.un, bge.un, ...
LEMMA BranchCompareUnStep == Executing /\ ExecBranchCompareUn => Running' /\ ExecutionAgrees'
  <1>. SUFFICES ASSUME Executing, ExecBranchCompareUn PROVE Running' /\ ExecutionAgrees'
    OBVIOUS
  <1>1. PICK rel \in RelationsUn : CompareAndGoto(ComparedUn(rel), CComparedUn(rel))
    BY DEF ExecBranchCompareUn
  <1>2. stmt.op = "branch_compare_un"
    BY DEF ExecBranchCompareUn
  <1>3. Pops(stmt) = 2
    BY <1>2 DEF Pops
  <1>4. WideArithmetic => ComparedUn(rel) = CComparedUn(rel)
    BY <1>2, SameComparedUn
  <1>5. /\ Unsigned(1) \in Int /\ CUnsigned(1) \in Int
        /\ Unsigned(2) \in Int /\ CUnsigned(2) \in Int
    BY <1>3, UnsignedOperands
  <1>6. ComparedUn(rel) \in BOOLEAN /\ CComparedUn(rel) \in BOOLEAN
    BY <1>5, HoldsType DEF ComparedUn, CComparedUn
  <1>. QED
    BY <1>1, <1>2, <1>4, <1>6, CompareAndGotoStep

\* ret ends both executions.
LEMMA RetStep == Executing /\ ExecRet => Running' /\ ExecutionAgrees'
  <1>. SUFFICES ASSUME Executing, ExecRet PROVE Running' /\ ExecutionAgrees'
    OBVIOUS
  <1>1. /\ ip' = 0 /\ cip' = 0 /\ cstack' = cstack /\ cvars' = cvars /\ gvars' = gvars
        /\ store' = store
    BY DEF ExecRet
  <1>2. gvars = cvars /\ complete' = complete /\ complete
    BY DEF Executing, Agrees, vars
  <1>3. Running'
    BY <1>1, <1>2, SizeAssumption DEF Executing, Running
  <1>4. Agrees'
    BY <1>1, <1>2 DEF Agrees
  <1>. QED
    BY <1>3, <1>4 DEF ExecutionAgrees

\* Every instruction executed.
LEMMA ExecuteStep ==
  ASSUME Linked, Running, IndInv, Execute
  PROVE  Running' /\ ExecutionAgrees'
  <1>1. Executing
    BY DEF Execute, Executing
  <1>. QED
    BY <1>1, PushStep, PushIntegerStep, DupStep, PopStep, PopIntoStep, UnopStep, BinopStep,
       BinopUnStep, CompareStep, CompareUnStep, ConvertStep, CallStep, BranchStep,
       BranchCompareStep, BranchCompareUnStep, RetStep DEF Execute

\* The call of the method.
LEMMA StartStep ==
  ASSUME Linked, Running, IndInv, Start
  PROVE  Running' /\ ExecutionAgrees'
  <1>1. /\ complete /\ cstack = <<>> /\ ip' = 1 /\ cip' = 1
        /\ cstack' = cstack /\ store' = store /\ complete' = complete /\ body' = body
        /\ truths' = truths
    BY DEF Start, vars
  <1>2. PICK a \in [Variables -> Arguments] :
          /\ \A v \in Variables : CilConvert(VarType[v], a[v]) = a[v]
          /\ cvars' = a /\ gvars' = a
    BY DEF Start
  <1>3. a \in [Variables -> Int]
    BY ExecAssumption
  <1>4. ASSUME NEW v \in Variables PROVE Fits(VarType[v], a[v])
    <2>1. a[v] \in Int /\ VarType[v] \in Narrow
      BY <1>3, ExecAssumption
    <2>. QED
      BY <1>2, <2>1, ConvertFits DEF Fits
  <1>5. 1 \in 0..CodeLength
    BY SizeAssumption
  <1>6. Running'
    BY <1>1, <1>2, <1>3, <1>4, <1>5 DEF Running
  <1>7. Len(body) > 0 /\ Len(body[1].in) = 0
    BY <1>1, SizeAssumption DEF Linked
  <1>8. Agrees'
    BY <1>1, <1>2, <1>7 DEF Agrees
  <1>. QED
    BY <1>6, <1>8 DEF ExecutionAgrees

\* A step of the translation leaves the machines alone.
LEMMA TranslateStep ==
  ASSUME Linked, Running, IndInv, ExecutionAgrees, Translate \/ UNCHANGED allVars
  PROVE  Running' /\ ExecutionAgrees'
  <1>1. /\ ip' = ip /\ cip' = cip /\ cstack' = cstack /\ cvars' = cvars /\ store' = store
        /\ gvars' = gvars /\ truths' = truths
    BY DEF Translate, allVars, execVars
  <1>2. CASE complete
    <2>1. ~Next
      BY <1>2 DEF Next, parse_instruction, scil_complete_method_def
    <2>2. UNCHANGED vars
      BY <2>1 DEF Translate, allVars
    <2>3. complete' = complete /\ body' = body
      BY <2>2 DEF vars
    <2>4. WellMerged' = WellMerged /\ WideArithmetic' = WideArithmetic
      BY <2>2, SameCode
    <2>5. Agrees' = Agrees
      BY <1>1, <2>3 DEF Agrees
    <2>6. Running'
      BY <1>1, <2>3 DEF Running
    <2>7. ExecutionAgrees'
      BY <1>1, <2>3, <2>4, <2>5 DEF ExecutionAgrees
    <2>. QED
      BY <2>6, <2>7
  <1>3. CASE ~complete
    <2>1. ip = 0 /\ cip = 0 /\ gvars = cvars
      BY <1>3 DEF Running
    <2>. QED
      BY <1>1, <2>1 DEF Running, ExecutionAgrees, Agrees
  <1>. QED
    BY <1>2, <1>3

\* The initial states.
LEMMA ExecInitInv == ExecInit => IndInv /\ ExecInv
  <1>. SUFFICES ASSUME ExecInit PROVE IndInv /\ ExecInv
    OBVIOUS
  <1>1. Init /\ ip = 0 /\ cip = 0 /\ cstack = <<>>
        /\ cvars = [v \in Variables |-> 0] /\ gvars = [v \in Variables |-> 0]
        /\ store = [p \in PoolVars |-> Uninit] /\ truths = TRUE
    BY DEF ExecInit
  <1>2. IndInv /\ Linked /\ Narrowed
    BY <1>1, InitInv, LinkedInit
  <1>3. \A v \in Variables : Fits(VarType[v], 0)
    <2>1. ASSUME NEW v \in Variables PROVE Fits(VarType[v], 0)
      <3>1. VarType[v] \in Narrow /\ Truth(FALSE) = 0
        BY ExecAssumption DEF Truth
      <3>. QED
        BY <3>1, TruthFits
    <2>. QED
      BY <2>1
  <1>4. Running
    BY <1>1, <1>3, SizeAssumption DEF Running
  <1>5. ExecutionAgrees
    BY <1>1 DEF ExecutionAgrees, Agrees
  <1>. QED
    BY <1>2, <1>4, <1>5 DEF ExecInv

\* Every step.
LEMMA ExecNextInv == IndInv /\ ExecInv /\ [ExecNext]_allVars => IndInv' /\ ExecInv'
  <1>. SUFFICES ASSUME IndInv, ExecInv, [ExecNext]_allVars PROVE IndInv' /\ ExecInv'
    OBVIOUS
  <1>0. Linked /\ Narrowed /\ Running /\ ExecutionAgrees
    BY DEF ExecInv
  <1>1. [Next]_vars
    BY DEF ExecNext, Translate, Start, Execute, allVars
  <1>2. IndInv' /\ Linked' /\ Narrowed'
    BY <1>0, <1>1, NextInv, LinkedStep
  <1>3. Running' /\ ExecutionAgrees'
    BY <1>0, ExecuteStep, StartStep, TranslateStep DEF ExecNext
  <1>. QED
    BY <1>2, <1>3 DEF ExecInv

\* The inductive invariant of the translation and the two machines.
THEOREM ExecInvariance == ExecSpec => [](IndInv /\ ExecInv)
  BY ExecInitInv, ExecNextInv, PTL DEF ExecSpec

\* Whatever the widths, a stack variable of the generated code only ever holds
\* values of its type, the CIL stack stays within max_stack and neither machine
\* runs past the end of the method.
THEOREM ExecTypeCorrect == ExecSpec => []ExecTypeOK
  <1>1. ExecInv => ExecTypeOK
    BY DEF ExecInv, Running, ExecTypeOK, Fits
  <1>. QED
    BY <1>1, ExecInvariance, PTL

\* The generated code does what the CIL program does.
THEOREM RunsAsCil == ExecSpec => []ExecutionAgrees
  <1>1. ExecInv => ExecutionAgrees
    BY DEF ExecInv
  <1>. QED
    BY <1>1, ExecInvariance, PTL

\* The translation on which the machines run is a translation of ScilMethod.
THEOREM ExecTranslates == ExecSpec => Spec
  <1>1. ExecInit => Init
    BY DEF ExecInit
  <1>2. [ExecNext]_allVars => [Next]_vars
    BY DEF ExecNext, Translate, Start, Execute, allVars
  <1>. QED
    BY <1>1, <1>2, PTL DEF ExecSpec, Spec

=============================================================================
