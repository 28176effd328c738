-------------------------- MODULE CralDriver_proofs --------------------------
(***************************************************************************)
(* Proofs about CralDriver, for every program: every number of classes and *)
(* methods, every class hierarchy and every body.                          *)
(***************************************************************************)
EXTENDS CralDriver, TLAPS

-----------------------------------------------------------------------------
(* Sequences as sets *)

\* Appending adds one element.
LEMMA RangeAppend ==
  ASSUME NEW S, NEW s \in Seq(S), NEW x \in S
  PROVE  Range(Append(s, x)) = Range(s) \cup {x}
  <1>1. \A i \in 1..Len(s) : Append(s, x)[i] = s[i]
    OBVIOUS
  <1>2. Append(s, x)[Len(s) + 1] = x /\ Len(Append(s, x)) = Len(s) + 1
    OBVIOUS
  <1>3. DOMAIN s = 1..Len(s) /\ DOMAIN Append(s, x) = 1..(Len(s) + 1)
    OBVIOUS
  <1>4. 1..(Len(s) + 1) = 1..Len(s) \cup {Len(s) + 1}
    OBVIOUS
  <1> QED BY <1>1, <1>2, <1>3, <1>4 DEF Range

\* Queues stay queues.
LEMMA SeqTypes ==
  ASSUME NEW S
  PROVE  /\ \A s \in Seq(S), x \in S : Append(s, x) \in Seq(S)
         /\ \A s, t \in Seq(S) : s \o t \in Seq(S)
  OBVIOUS

\* A concatenation has the elements of both parts.
LEMMA RangeConcat ==
  ASSUME NEW S, NEW s \in Seq(S), NEW t \in Seq(S)
  PROVE  Range(s \o t) = Range(s) \cup Range(t)
  <1>1. DOMAIN s = 1..Len(s) /\ DOMAIN t = 1..Len(t)
        /\ DOMAIN (s \o t) = 1..(Len(s) + Len(t))
    OBVIOUS
  <1>2. \A i \in 1..Len(s) : (s \o t)[i] = s[i]
    OBVIOUS
  <1>3. \A i \in 1..Len(t) : (s \o t)[Len(s) + i] = t[i]
    OBVIOUS
  <1>4. \A i \in 1..(Len(s) + Len(t)) : i \in 1..Len(s) \/ i - Len(s) \in 1..Len(t)
    OBVIOUS
  <1>5. Range(s \o t) \subseteq Range(s) \cup Range(t)
    <2> SUFFICES ASSUME NEW i \in 1..(Len(s) + Len(t))
                 PROVE  (s \o t)[i] \in Range(s) \cup Range(t)
      BY <1>1 DEF Range
    <2>1. CASE i \in 1..Len(s)
      BY <2>1, <1>1, <1>2 DEF Range
    <2>2. CASE i - Len(s) \in 1..Len(t)
      <3>1. (s \o t)[Len(s) + (i - Len(s))] = t[i - Len(s)]
        BY <2>2, <1>3
      <3> QED BY <2>2, <3>1, <1>1 DEF Range
    <2> QED BY <1>4, <2>1, <2>2
  <1>6. Range(s) \subseteq Range(s \o t)
    BY <1>1, <1>2 DEF Range
  <1>7. Range(t) \subseteq Range(s \o t)
    <2> SUFFICES ASSUME NEW i \in 1..Len(t) PROVE t[i] \in Range(s \o t)
      BY <1>1 DEF Range
    <2>1. Len(s) + i \in 1..(Len(s) + Len(t))
      OBVIOUS
    <2> QED BY <2>1, <1>1, <1>3 DEF Range
  <1> QED BY <1>5, <1>6, <1>7

\* Only the head of a queue is lost when it is taken.
LEMMA RangeTail ==
  ASSUME NEW S, NEW s \in Seq(S), s # <<>>
  PROVE  /\ Head(s) \in S /\ Tail(s) \in Seq(S)
         /\ Range(s) = {Head(s)} \cup Range(Tail(s))
  <1>1. Head(s) \in S /\ Tail(s) \in Seq(S) /\ Head(s) = s[1]
    OBVIOUS
  <1>2. Len(s) \in Nat /\ Len(s) # 0 /\ Len(Tail(s)) = Len(s) - 1
    OBVIOUS
  <1>3. \A i \in 1..(Len(s) - 1) : Tail(s)[i] = s[i + 1]
    OBVIOUS
  <1>4. DOMAIN s = 1..Len(s) /\ DOMAIN Tail(s) = 1..(Len(s) - 1)
    BY <1>1, <1>2
  <1>5. Range(s) \subseteq {Head(s)} \cup Range(Tail(s))
    <2> SUFFICES ASSUME NEW i \in 1..Len(s), i # 1 PROVE s[i] \in Range(Tail(s))
      BY <1>1, <1>4 DEF Range
    <2>1. i - 1 \in 1..(Len(s) - 1) /\ (i - 1) + 1 = i
      BY <1>2
    <2>2. Tail(s)[i - 1] = s[i]
      BY <2>1, <1>3
    <2> QED BY <2>1, <2>2, <1>4 DEF Range
  <1>6. Range(Tail(s)) \subseteq Range(s)
    <2> SUFFICES ASSUME NEW i \in 1..(Len(s) - 1) PROVE Tail(s)[i] \in Range(s)
      BY <1>4 DEF Range
    <2>1. i + 1 \in 1..Len(s)
      BY <1>2
    <2> QED BY <2>1, <1>3, <1>4 DEF Range
  <1>7. 1 \in DOMAIN s
    BY <1>2, <1>4
  <1> QED BY <1>1, <1>5, <1>6, <1>7 DEF Range

-----------------------------------------------------------------------------
(* Vtables *)

\* A virtual method belongs to the class that declares it.
LEMMA VirtualOwner ==
  /\ \A c \in Classes : \A m \in Range(Virtuals[c]) :
       m \in Methods /\ Owner[m] = c /\ m \in VirtualMethods
  /\ \A m \in VirtualMethods :
       m \in Methods /\ Owner[m] \in Classes /\ m \in Range(Virtuals[Owner[m]])
  <1>1. \A c \in Classes : Range(Virtuals[c]) \subseteq Methods
    BY VirtualAssumption DEF Range
  <1> QED BY <1>1, VirtualAssumption, ProgramAssumption DEF VirtualMethods, Members

\* A method that overrides nothing gets a slot behind those of the base, the
\* place among the new ones that it has in the class.
LEMMA NewSlot ==
  ASSUME NEW c \in Classes, NEW m \in Range(Virtuals[c]), Overridden[m] = None
  PROVE  \E j \in 1..Len(NewVirtuals[c]) :
           NewVirtuals[c][j] = m /\ SlotOf(c, m) = Len(BaseTable(c)) + j
  <1>1. m \in Range(NewVirtuals[c])
    BY VirtualAssumption
  <1>2. \E j \in 1..Len(NewVirtuals[c]) : NewVirtuals[c][j] = m
    BY <1>1, VirtualAssumption DEF Range
  <1> DEFINE k == CHOOSE j \in 1..Len(NewVirtuals[c]) : NewVirtuals[c][j] = m
  <1>3. k \in 1..Len(NewVirtuals[c]) /\ NewVirtuals[c][k] = m
    BY <1>2
  <1>4. SlotOf(c, m) = Len(BaseTable(c)) + k
    BY DEF SlotOf
  <1> QED BY <1>3, <1>4

\* Every slot behind those of the base is given to a method.
LEMMA SlotsFilled ==
  ASSUME NEW c \in Classes, BaseTable(c) \in Seq(Methods),
         NEW i \in (Len(BaseTable(c)) + 1)..(Len(BaseTable(c)) + Len(NewVirtuals[c]))
  PROVE  \E m \in Range(Virtuals[c]) : SlotOf(c, m) = i
  <1> DEFINE j == i - Len(BaseTable(c))
             m == NewVirtuals[c][j]
  <1>1. j \in 1..Len(NewVirtuals[c]) /\ i = Len(BaseTable(c)) + j
    BY VirtualAssumption
  <1>2. m \in Range(NewVirtuals[c])
    BY <1>1, VirtualAssumption DEF Range
  <1>3. m \in Range(Virtuals[c]) /\ Overridden[m] = None
    <2> HIDE DEF m
    <2> QED BY <1>2, VirtualAssumption
  <1>4. PICK k \in 1..Len(NewVirtuals[c]) :
          NewVirtuals[c][k] = m /\ SlotOf(c, m) = Len(BaseTable(c)) + k
    <2> HIDE DEF m
    <2> QED BY <1>3, NewSlot
  <1>5. k = j
    BY <1>1, <1>4, VirtualAssumption
  <1> QED BY <1>1, <1>3, <1>4, <1>5

\* What scil_make_vtable and scil_set_vtable_slot put into a vtable: methods of
\* the base's vtable and of the class.
LEMMA TableEntries ==
  ASSUME NEW c \in Classes, BaseTable(c) \in Seq(Methods)
  PROVE  /\ Table(c) \in Seq(Methods)
         /\ Len(Table(c)) = Len(BaseTable(c)) + Len(NewVirtuals[c])
         /\ Range(Table(c)) \subseteq Range(BaseTable(c)) \cup Range(Virtuals[c])
         /\ \A i \in 1..Len(Table(c)) :
              IF \E m \in Range(Virtuals[c]) : SlotOf(c, m) = i
              THEN Table(c)[i] \in Range(Virtuals[c]) /\ SlotOf(c, Table(c)[i]) = i
              ELSE i \in 1..Len(BaseTable(c)) /\ Table(c)[i] = BaseTable(c)[i]
  <1> DEFINE n == Len(BaseTable(c)) + Len(NewVirtuals[c])
             Given(i) == \E m \in Range(Virtuals[c]) : SlotOf(c, m) = i
             Giver(i) == CHOOSE m \in Range(Virtuals[c]) : SlotOf(c, m) = i
  <1>1. n \in Nat
    BY VirtualAssumption
  <1>2. Table(c) = [i \in 1..n |-> IF Given(i) THEN Giver(i) ELSE BaseTable(c)[i]]
    BY DEF Table
  <1>3. \A i \in 1..n : Given(i) => Giver(i) \in Range(Virtuals[c]) /\ SlotOf(c, Giver(i)) = i
    OBVIOUS
  <1>4. \A i \in 1..n : ~Given(i) => i \in 1..Len(BaseTable(c))
    <2> SUFFICES ASSUME NEW i \in 1..n, i \notin 1..Len(BaseTable(c)) PROVE Given(i)
      OBVIOUS
    <2>1. i \in (Len(BaseTable(c)) + 1)..n
      BY VirtualAssumption
    <2> QED BY <2>1, SlotsFilled
  <1>5. \A i \in 1..n : IF Given(i)
                        THEN Table(c)[i] \in Range(Virtuals[c]) /\ SlotOf(c, Table(c)[i]) = i
                        ELSE i \in 1..Len(BaseTable(c)) /\ Table(c)[i] = BaseTable(c)[i]
    <2> HIDE DEF Given, Giver
    <2> QED BY <1>2, <1>3, <1>4
  <1>6. \A i \in 1..Len(BaseTable(c)) : BaseTable(c)[i] \in Methods \cap Range(BaseTable(c))
    BY DEF Range
  <1>7. Range(Virtuals[c]) \subseteq Methods
    BY VirtualOwner
  <1>8. \A i \in 1..n : Table(c)[i] \in Methods
                        /\ Table(c)[i] \in Range(BaseTable(c)) \cup Range(Virtuals[c])
    <2> HIDE DEF Given
    <2> QED BY <1>5, <1>6, <1>7
  <1>9. DOMAIN Table(c) = 1..n
    BY <1>2
  <1>10. Table(c) \in [1..n -> Methods]
    <2>1. Table(c) = [i \in 1..n |-> Table(c)[i]]
      BY <1>2
    <2> QED BY <2>1, <1>8
  <1>11. Table(c) \in Seq(Methods) /\ Len(Table(c)) = n
    <2> HIDE DEF n
    <2> QED BY <1>1, <1>10
  <1>12. Range(Table(c)) \subseteq Range(BaseTable(c)) \cup Range(Virtuals[c])
    <2>1. Range(Table(c)) = {Table(c)[i] : i \in 1..n}
      BY <1>9 DEF Range
    <2> HIDE DEF n
    <2> QED BY <2>1, <1>8
  <1> QED BY <1>5, <1>11, <1>12

-----------------------------------------------------------------------------
(* Types *)

\* read_method keeps the types of the registry.
LEMMA ReadMethodType ==
  ASSUME TypeOK, NEW m \in Methods, read_method(m)
  PROVE  tree' \subseteq Methods /\ deferred' \in Seq(Methods)
  <1>1. deferred \in Seq(Methods) /\ Append(deferred, m) \in Seq(Methods)
    BY SeqTypes DEF TypeOK
  <1>2. tree \subseteq Methods
    BY DEF TypeOK
  <1> QED BY <1>1, <1>2 DEF read_method, defer_method

\* parse_method keeps the types of the method it works on.
LEMMA ParseMethodType ==
  ASSUME TypeOK, NEW m \in Methods, parse_method(m)
  PROVE  /\ defined' \subseteq Methods
         /\ errors' \subseteq NoCode
         /\ current' \in Methods \cup {None}
         /\ room' \in 0..MaxRefs
  BY ProgramAssumption DEF TypeOK, parse_method, methodVars

\* The classes that parse_instance_fields lays out and parse_vtable visits.
LEMMA ClassSets ==
  ASSUME TypeOK, NEW c \in Classes
  PROVE  parse_instance_fields(c) \subseteq Classes /\ Missing(c) \subseteq Classes
  BY ClassAssumption DEF TypeOK, parse_instance_fields, Missing

\* BaseTable is a vtable.
LEMMA BaseTableType ==
  ASSUME TypeOK, NEW c \in Classes
  PROVE  BaseTable(c) \in Seq(Methods)
  BY ClassAssumption DEF TypeOK, BaseTable

\* What every instruction leaves alone, and the count of those to come.
LEMMA InstructionType ==
  ASSUME TypeOK, Instruction
  PROVE  /\ room' \in 0..MaxRefs
         /\ defined' \subseteq Methods /\ errors' \subseteq NoCode
         /\ current \in Methods /\ current' = current
         /\ made' \subseteq Classes
         /\ vtable' \in [Classes -> Seq(Methods)] /\ index' \in [Methods -> Nat]
         /\ status = "parsing"
  <1>1. room \in 0..MaxRefs /\ room > 0 /\ room' = room - 1
    BY DEF TypeOK, Instruction
  <1>2. room' \in 0..MaxRefs
    BY <1>1, ProgramAssumption
  <1> QED BY <1>2 DEF TypeOK, Instruction

\* An instruction that refers to a method keeps all types but those of the
\* registry, the layout and the vtables still to build.
LEMMA ReferType ==
  ASSUME TypeOK, NEW m \in Methods, Refer(m),
         tree' \subseteq Methods, deferred' \in Seq(Methods),
         laidOut' \subseteq Classes, pending' \subseteq Classes,
         status' \in {"parsing", "crashed"}, UNCHANGED <<fields, marked, main>>
  PROVE  TypeOK'
  <1>1. Instruction /\ called' \subseteq Methods /\ accessed' \subseteq Methods \X StaticFields
    BY DEF TypeOK, Refer
  <1>2. fields' \subseteq StaticFields /\ marked' \subseteq Methods /\ main' \in Seq(Methods)
    BY DEF TypeOK
  <1> QED BY <1>1, <1>2, InstructionType DEF TypeOK

\* The vtable step keeps the types.
LEMMA VtableType ==
  ASSUME TypeOK, NEW c \in pending, parse_vtable(c)
  PROVE  TypeOK'
  <1>1. c \in Classes
    BY DEF TypeOK
  <1>2. BaseTable(c) \in Seq(Methods)
    BY <1>1, BaseTableType
  <1>3. Table(c) \in Seq(Methods)
    BY <1>1, <1>2, TableEntries
  <1>4. vtable' \in [Classes -> Seq(Methods)]
    BY <1>3 DEF TypeOK, parse_vtable
  <1>5. Range(Virtuals[c]) \subseteq Methods
    BY <1>1, VirtualOwner
  <1>6. \A m \in Range(Virtuals[c]) : SlotOf(c, m) \in Nat
    <2> SUFFICES ASSUME NEW m \in Range(Virtuals[c]) PROVE SlotOf(c, m) \in Nat
      OBVIOUS
    <2>1. CASE Overridden[m] = None
      <3>1. PICK j \in 1..Len(NewVirtuals[c]) : SlotOf(c, m) = Len(BaseTable(c)) + j
        BY <1>1, <2>1, NewSlot
      <3> QED BY <3>1, <1>2
    <2>2. CASE Overridden[m] # None
      BY <1>5, <2>2, VirtualAssumption DEF SlotOf, TypeOK
    <2> QED BY <2>1, <2>2
  <1>7. index' \in [Methods -> Nat]
    BY <1>6 DEF TypeOK, parse_vtable
  <1>8. deferred' \in Seq(Methods)
    BY <1>1, VirtualAssumption, SeqTypes DEF TypeOK, parse_vtable
  <1> QED BY <1>1, <1>4, <1>5, <1>7, <1>8 DEF TypeOK, parse_vtable, methodVars, bodyVars

\* Every step keeps the types.
LEMMA TypeStep == TypeOK /\ [Next]_vars => TypeOK'
  <1> SUFFICES ASSUME TypeOK, [Next]_vars PROVE TypeOK'
    OBVIOUS
  <1>1. CASE cral_parse_file
    <2>1. EntryPoint \in Methods
      BY ProgramAssumption
    <2> QED BY <1>1, <2>1, ParseMethodType DEF cral_parse_file, TypeOK, classVars, bodyVars
  <1>2. CASE parse_next_deferred_method
    <2>1. Head(deferred) \in Methods /\ Tail(deferred) \in Seq(Methods)
      BY <1>2 DEF parse_next_deferred_method, TypeOK
    <2> QED BY <1>2, <2>1, ParseMethodType
         DEF parse_next_deferred_method, TypeOK, classVars, bodyVars
  <1>3. CASE scil_set_entry_point
    BY <1>3, ProgramAssumption
    DEF scil_set_entry_point, TypeOK, classVars, methodVars, bodyVars
  <1>4. CASE scil_complete_method_def
    BY <1>4, ProgramAssumption
    DEF scil_complete_method_def, TypeOK, progVars, classVars, bodyVars
  <1>5. CASE \E c \in pending : parse_vtable(c)
    BY <1>5, VtableType
  <1>6. ASSUME NEW m \in Methods, instr_call(m) PROVE TypeOK'
    BY <1>6, ReadMethodType, ReferType
    DEF instr_call, Crash, TypeOK, progVars, Refer, Instruction
  <1>7. ASSUME NEW m \in Methods, instr_ldvirtftn(m) PROVE TypeOK'
    <2>1. Owner[m] \in Classes
      BY ProgramAssumption DEF Members
    <2>2. Missing(Owner[m]) \subseteq Classes
      BY <2>1, ClassSets
    <2> QED BY <1>7, <2>2, ReadMethodType, ReferType
         DEF instr_ldvirtftn, Crash, TypeOK, progVars, Refer, Instruction
  <1>8. ASSUME NEW m \in Methods, instr_callvirt(m) PROVE TypeOK'
    BY <1>7, <1>8, ReadMethodType, ReferType
    DEF instr_callvirt, TypeOK, Refer, Instruction
  <1>9. ASSUME NEW m \in Ctors, instr_newobj(m) PROVE TypeOK'
    <2>1. m \in Methods /\ Owner[m] \in Classes
      BY ProgramAssumption DEF Members
    <2>2. Missing(Owner[m]) \subseteq Classes /\ parse_instance_fields(Owner[m]) \subseteq Classes
      BY <2>1, ClassSets
    <2> QED BY <1>9, <2>1, <2>2, ReadMethodType, ReferType
         DEF instr_newobj, Crash, TypeOK, progVars, Refer, Instruction
  <1>10. ASSUME NEW c \in Classes, instr_ldfld(c) PROVE TypeOK'
    <2>1. laidOut' \subseteq Classes /\ Instruction
      BY <1>10, ClassSets DEF instr_ldfld
    <2> QED BY <1>10, <2>1, InstructionType DEF instr_ldfld, TypeOK, progVars, bodyVars
  <1>11. ASSUME NEW f \in StaticFields, instr_ldsfld(f) PROVE TypeOK'
    <2>1. Cctor[Owner[f]] \in Methods \cup {None}
      BY ProgramAssumption DEF Members
    <2>2. Instruction /\ accessed' = accessed \cup {<<current, f>>}
      BY <1>11 DEF instr_ldsfld
    <2>3. current \in Methods
      BY <2>2, InstructionType
    <2>4. accessed' \subseteq Methods \X StaticFields
      BY <2>2, <2>3 DEF TypeOK
    <2> DEFINE m == Cctor[Owner[f]]
    <2>5. CASE f \in fields \/ m = None
      <3>1. /\ fields' \subseteq StaticFields /\ tree' \subseteq Methods
            /\ marked' \subseteq Methods /\ main' \in Seq(Methods) /\ deferred' \in Seq(Methods)
        BY <1>11, <2>5 DEF instr_ldsfld, register_static_field, TypeOK, progVars
      <3> QED BY <1>11, <2>2, <2>3, <2>4, <3>1, InstructionType DEF instr_ldsfld, TypeOK
    <2>6. CASE f \notin fields /\ m # None
      <3>1. m \in Methods /\ Append(main, m) \in Seq(Methods) /\ Append(deferred, m) \in Seq(Methods)
        BY <2>1, <2>6, SeqTypes DEF TypeOK
      <3>2. register_static_field(f)
        BY <1>11, <2>6 DEF instr_ldsfld
      <3>3. /\ fields' \subseteq StaticFields /\ tree' \subseteq Methods
            /\ marked' \subseteq Methods /\ main' \in Seq(Methods) /\ deferred' \in Seq(Methods)
        BY <2>6, <3>1, <3>2
        DEF register_static_field, scil_mark_class_constructor, defer_method, TypeOK
      <3> QED BY <1>11, <2>2, <2>3, <2>4, <3>3, InstructionType DEF instr_ldsfld, TypeOK
    <2> QED BY <2>5, <2>6
  <1>12. CASE UNCHANGED vars
    BY <1>12 DEF TypeOK, vars, progVars, classVars, methodVars, bodyVars
  <1> QED BY <1>1, <1>2, <1>3, <1>4, <1>5, <1>6, <1>7, <1>8, <1>9, <1>10, <1>11, <1>12 DEF Next

\* The types hold at the start.
LEMMA TypeInit == Init => TypeOK
  BY ProgramAssumption DEF Init, TypeOK

\* The driver keeps its state's types, whatever the program.
THEOREM DriverTypes == Spec => []TypeOK
  BY TypeInit, TypeStep, PTL DEF Spec

-----------------------------------------------------------------------------
(* The program is closed *)

\* Whatever the code refers to is registered, and at the end nothing is queued.
Accounted ==
  /\ \A m \in called : Owner[m] \in Delegates \/ m \in tree
  /\ \A c \in Classes : Range(vtable[c]) \subseteq tree
  /\ Range(main) \subseteq tree
  /\ status # "start" => EntryPoint \in tree
  /\ status = "done" => deferred = <<>>

\* The inductive invariant.
Closed == status # "crashed" => NothingForgotten /\ Accounted

\* A method that has been looked at is defined or belongs to the runtime.
LEMMA ParsedIsDefined ==
  ASSUME NEW m \in Methods, parse_method(m)
  PROVE  m \in defined' \cup Runtime /\ defined \subseteq defined'
  BY DEF parse_method, Definable, methodVars

\* A method read is registered, and queued if it is new.
LEMMA ReadIsQueued ==
  ASSUME TypeOK, NEW m \in Methods, read_method(m)
  PROVE  /\ Owner[m] \in Delegates \/ m \in tree'
         /\ tree \subseteq tree' /\ Range(deferred) \subseteq Range(deferred')
         /\ tree' \subseteq tree \cup Range(deferred')
  <1>1. Range(Append(deferred, m)) = Range(deferred) \cup {m}
    BY RangeAppend DEF TypeOK
  <1> QED BY <1>1 DEF read_method, defer_method

\* An instruction that refers to a method keeps the program closed.
LEMMA ReferClosed ==
  ASSUME TypeOK, Closed, NEW m \in Methods, Refer(m), read_method(m),
         UNCHANGED <<main, status>>
  PROVE  Closed'
  <1>1. /\ status = "parsing" /\ defined' = defined /\ vtable' = vtable
        /\ called' = called \cup {m}
    BY DEF Refer, Instruction
  <1>2. NothingForgotten /\ Accounted
    BY <1>1 DEF Closed
  <1>3. /\ Owner[m] \in Delegates \/ m \in tree'
        /\ tree \subseteq tree' /\ Range(deferred) \subseteq Range(deferred')
        /\ tree' \subseteq tree \cup Range(deferred')
    BY ReadIsQueued
  <1>4. NothingForgotten'
    BY <1>1, <1>2, <1>3 DEF NothingForgotten
  <1>5. Accounted'
    BY <1>1, <1>2, <1>3 DEF Accounted
  <1> QED BY <1>4, <1>5 DEF Closed

\* Building a vtable keeps the program closed.
LEMMA VtableClosed ==
  ASSUME TypeOK, Closed, NEW c \in pending, parse_vtable(c)
  PROVE  Closed'
  <1>1. c \in Classes /\ status = "parsing" /\ status' = status
    BY DEF TypeOK, parse_vtable
  <1>2. NothingForgotten /\ Accounted
    BY <1>1 DEF Closed
  <1>3. Range(deferred') = Range(deferred) \cup Range(Virtuals[c])
    <2>1. deferred \in Seq(Methods) /\ Virtuals[c] \in Seq(Methods)
      BY <1>1, VirtualAssumption DEF TypeOK
    <2>2. deferred' = deferred \o Virtuals[c]
      BY DEF parse_vtable
    <2> QED BY <2>1, <2>2, RangeConcat
  <1>4. tree' = tree \cup Range(Virtuals[c]) /\ defined' = defined
        /\ called' = called /\ main' = main
    BY DEF parse_vtable, methodVars, bodyVars
  <1>5. NothingForgotten'
    BY <1>1, <1>2, <1>3, <1>4 DEF NothingForgotten
  <1>6. BaseTable(c) \in Seq(Methods)
    BY <1>1, BaseTableType
  <1>7. Range(BaseTable(c)) \subseteq tree
    <2>1. CASE Base[c] = None
      BY <2>1 DEF BaseTable, Range
    <2>2. CASE Base[c] # None
      <3>1. Base[c] \in Classes /\ BaseTable(c) = vtable[Base[c]]
        BY <1>1, <2>2, ClassAssumption DEF BaseTable
      <3> QED BY <3>1, <1>2 DEF Accounted
    <2> QED BY <2>1, <2>2
  <1>8. Range(Table(c)) \subseteq tree'
    BY <1>1, <1>4, <1>6, <1>7, TableEntries
  <1>9. \A d \in Classes : vtable'[d] = IF d = c THEN Table(c) ELSE vtable[d]
    BY DEF TypeOK, parse_vtable
  <1>10. \A d \in Classes : Range(vtable'[d]) \subseteq tree'
    BY <1>2, <1>4, <1>8, <1>9 DEF Accounted
  <1>11. Accounted'
    BY <1>1, <1>2, <1>4, <1>10 DEF Accounted
  <1> QED BY <1>5, <1>11 DEF Closed

\* The first use of a static field keeps the program closed.
LEMMA StaticClosed ==
  ASSUME TypeOK, Closed, NEW f \in StaticFields, instr_ldsfld(f)
  PROVE  Closed'
  <1>1. /\ status = "parsing" /\ status' = status /\ defined' = defined
        /\ vtable' = vtable /\ called' = called
    BY DEF instr_ldsfld, Instruction
  <1>2. NothingForgotten /\ Accounted
    BY <1>1 DEF Closed
  <1> DEFINE m == Cctor[Owner[f]]
  <1>3. CASE f \in fields \/ m = None
    <2>1. tree' = tree /\ deferred' = deferred /\ main' = main
      BY <1>3 DEF instr_ldsfld, register_static_field, progVars
    <2> QED BY <1>1, <1>2, <2>1 DEF Closed, NothingForgotten, Accounted
  <1>4. CASE f \notin fields /\ m # None
    <2>1. m \in Methods
      BY <1>4, ProgramAssumption DEF Members
    <2>2. Range(Append(deferred, m)) = Range(deferred) \cup {m}
          /\ Range(Append(main, m)) = Range(main) \cup {m}
      BY <2>1, RangeAppend DEF TypeOK
    <2>3. /\ tree' = tree \cup {m} /\ Range(deferred') = Range(deferred) \cup {m}
          /\ main' \in {main, Append(main, m)}
      BY <1>4, <2>2
      DEF instr_ldsfld, register_static_field, scil_mark_class_constructor, defer_method
    <2>4. Range(main') \subseteq tree'
      BY <1>2, <2>2, <2>3 DEF Accounted
    <2>5. NothingForgotten'
      BY <1>1, <1>2, <2>3 DEF NothingForgotten
    <2>6. Accounted'
      BY <1>1, <1>2, <2>3, <2>4 DEF Accounted
    <2> QED BY <2>5, <2>6 DEF Closed
  <1> QED BY <1>3, <1>4

\* Every step keeps the program closed.
LEMMA ClosedStep == TypeOK /\ Closed /\ [Next]_vars => Closed'
  <1> SUFFICES ASSUME TypeOK, Closed, [Next]_vars PROVE Closed'
    OBVIOUS
  <1>1. CASE cral_parse_file
    <2>1. EntryPoint \in Methods
      BY ProgramAssumption
    <2>2. EntryPoint \in defined' \cup Runtime /\ defined \subseteq defined'
      BY <1>1, <2>1, ParsedIsDefined DEF cral_parse_file
    <2>3. /\ tree' = tree \cup {EntryPoint} /\ deferred' = deferred /\ main' = main
          /\ vtable' = vtable /\ called' = called /\ status = "start" /\ status' = "parsing"
      BY <1>1 DEF cral_parse_file, classVars, bodyVars
    <2> QED BY <2>2, <2>3 DEF Closed, NothingForgotten, Accounted
  <1>2. CASE parse_next_deferred_method
    <2>1. deferred \in Seq(Methods) /\ deferred # <<>>
      BY <1>2 DEF parse_next_deferred_method, TypeOK
    <2>2. Head(deferred) \in Methods /\ Range(deferred) = {Head(deferred)} \cup Range(Tail(deferred))
      BY <2>1, RangeTail
    <2>3. Head(deferred) \in defined' \cup Runtime /\ defined \subseteq defined'
      BY <1>2, <2>2, ParsedIsDefined DEF parse_next_deferred_method
    <2>4. /\ tree' = tree /\ deferred' = Tail(deferred) /\ main' = main /\ vtable' = vtable
          /\ called' = called /\ status' = status /\ status = "parsing"
      BY <1>2 DEF parse_next_deferred_method, classVars, bodyVars
    <2> QED BY <2>2, <2>3, <2>4 DEF Closed, NothingForgotten, Accounted
  <1>3. CASE scil_set_entry_point
    <2>1. /\ tree' = tree /\ deferred' = deferred /\ deferred = <<>> /\ vtable' = vtable
          /\ called' = called /\ defined' = defined /\ main' = Append(main, EntryPoint)
          /\ status = "parsing" /\ status' = "done"
      BY <1>3 DEF scil_set_entry_point, LoopEnds, classVars, bodyVars, methodVars
    <2>2. Range(main') = Range(main) \cup {EntryPoint}
      BY <2>1, ProgramAssumption, RangeAppend DEF TypeOK
    <2> QED BY <2>1, <2>2 DEF Closed, NothingForgotten, Accounted
  <1>4. CASE scil_complete_method_def
    BY <1>4 DEF scil_complete_method_def, progVars, classVars, bodyVars,
                Closed, NothingForgotten, Accounted
  <1>5. CASE \E c \in pending : parse_vtable(c)
    BY <1>5, VtableClosed
  <1>6. CASE status' = "crashed"
    BY <1>6 DEF Closed
  <1>7. ASSUME NEW m \in Methods, instr_call(m) PROVE Closed'
    BY <1>6, <1>7, ReferClosed DEF instr_call, Crash
  <1>8. ASSUME NEW m \in Methods, instr_ldvirtftn(m) PROVE Closed'
    BY <1>6, <1>8, ReferClosed DEF instr_ldvirtftn, Crash
  <1>9. ASSUME NEW m \in Methods, instr_callvirt(m) PROVE Closed'
    BY <1>8, <1>9, ReferClosed DEF instr_callvirt
  <1>10. ASSUME NEW m \in Ctors, instr_newobj(m) PROVE Closed'
    <2>1. m \in Methods
      BY ProgramAssumption
    <2> QED BY <1>6, <1>10, <2>1, ReferClosed DEF instr_newobj, Crash
  <1>11. ASSUME NEW c \in Classes, instr_ldfld(c) PROVE Closed'
    BY <1>11 DEF instr_ldfld, Instruction, progVars, bodyVars, Closed, NothingForgotten, Accounted
  <1>12. ASSUME NEW f \in StaticFields, instr_ldsfld(f) PROVE Closed'
    BY <1>12, StaticClosed
  <1>13. CASE UNCHANGED vars
    BY <1>13 DEF vars, progVars, classVars, methodVars, bodyVars, Closed, NothingForgotten, Accounted
  <1> QED BY <1>1, <1>2, <1>3, <1>4, <1>5, <1>7, <1>8, <1>9, <1>10, <1>11, <1>12, <1>13 DEF Next

\* The empty registry is closed.
LEMMA ClosedInit == Init => Closed
  <1>1. Range(<<>>) = {}
    BY DEF Range
  <1> QED BY <1>1 DEF Init, Closed, NothingForgotten, Accounted

\* In every program, a method that has been registered by a call, a vtable or a
\* class constructor is compiled, queued or part of the runtime at every moment:
\* read_method, parse_vtable and register_static_field never lose one.
THEOREM Remembered == Spec => []NothingForgotten
  <1>1. Closed => NothingForgotten
    BY DEF Closed, NothingForgotten
  <1> QED BY <1>1, TypeInit, TypeStep, ClosedInit, ClosedStep, PTL DEF Spec

\* In every program, when main is finished all that it, the compiled bodies and
\* the vtables refer to is compiled or part of the runtime.
THEOREM Complete == Spec => []ClosedProgram
  <1>1. TypeOK /\ Closed => ClosedProgram
    <2> SUFFICES ASSUME TypeOK, Closed, status = "done" PROVE ClosedProgram
      BY DEF ClosedProgram
    <2>1. NothingForgotten /\ Accounted /\ deferred = <<>>
      BY DEF Closed, Accounted
    <2>2. Range(deferred) = {}
      BY <2>1 DEF Range
    <2>3. tree \subseteq defined \cup Runtime
      BY <2>1, <2>2 DEF NothingForgotten
    <2>4. \A c \in made : Range(vtable[c]) \subseteq defined \cup Runtime
      BY <2>1, <2>3 DEF Accounted, TypeOK
    <2> QED BY <2>1, <2>3, <2>4 DEF ClosedProgram, Accounted
  <1> QED BY <1>1, TypeInit, TypeStep, ClosedInit, ClosedStep, PTL DEF Spec

-----------------------------------------------------------------------------
(* Virtual calls find the nearest override *)

\* What DispatchRight says of one class and one virtual method.
Dispatches(c, m) ==
  /\ index[m] \in 1..Len(vtable[c])
  /\ LET r == vtable[c][index[m]] IN
     /\ r \in VirtualsIn(c)
     /\ Root[r] = Root[m]
     /\ \A v \in VirtualsIn(c) : Root[v] = Root[m] => Owner[v] \in Lineage[Owner[r]]

\* The inductive invariant: bases come first, and all methods that override each
\* other share the slot of the one at the root.
Dispatch ==
  /\ \A c \in made : Lineage[c] \subseteq made
  /\ \A c \in pending : c \notin made /\ Lineage[c] \subseteq made \cup pending
  /\ \A m \in VirtualMethods : Owner[m] \in made => index[m] = index[Root[m]]
  /\ \A c \in made : \A m \in VirtualsIn(c) : Dispatches(c, m)

\* A class is in its own lineage, and so is its base.
LEMMA OwnLineage ==
  ASSUME NEW c \in Classes
  PROVE  /\ c \in Lineage[c]
         /\ Base[c] # None => /\ Base[c] \in Classes /\ Base[c] \in Lineage[c]
                              /\ Lineage[c] = Lineage[Base[c]] \cup {c}
                              /\ c \notin Lineage[Base[c]]
  BY ClassAssumption

\* The classes parse_vtable visits can be done base first.
LEMMA MissingDispatch ==
  ASSUME TypeOK, Dispatch, NEW c \in Classes,
         pending' = Missing(c), UNCHANGED <<made, vtable, index>>
  PROVE  Dispatch'
  <1>1. \A d \in Missing(c) : d \notin made /\ Lineage[d] \subseteq made \cup Missing(c)
    BY ClassAssumption DEF Missing
  <1>2. \A d \in made : \A m \in VirtualsIn(d) : Dispatches(d, m)'
    BY DEF Dispatch, Dispatches
  <1> QED BY <1>1, <1>2 DEF Dispatch

\* Steps that leave the vtables and the classes still to do alone.
LEMMA SameDispatch ==
  ASSUME Dispatch, UNCHANGED <<made, vtable, index, pending>>
  PROVE  Dispatch'
  BY DEF Dispatch, Dispatches

\* Building the vtable of a class after that of its base.
LEMMA VtableDispatch ==
  ASSUME TypeOK, Dispatch, NEW c \in pending, parse_vtable(c)
  PROVE  Dispatch'
  <1>1. c \in Classes /\ c \notin made /\ Lineage[c] \subseteq made \cup pending
    BY DEF TypeOK, Dispatch
  <1>2. /\ pending' = pending \ {c} /\ made' = made \cup {c} /\ Base[c] \notin pending
        /\ \A m \in Methods :
             index'[m] = IF m \in Range(Virtuals[c]) THEN SlotOf(c, m) ELSE index[m]
    BY DEF parse_vtable
  <1>3. \A d \in Classes : vtable'[d] = IF d = c THEN Table(c) ELSE vtable[d]
    BY DEF TypeOK, parse_vtable
  <1>4. c \in Lineage[c] /\ (Base[c] # None => Base[c] \in made)
    BY <1>1, <1>2, OwnLineage
  <1>5. Lineage[c] \subseteq made'
    <2>1. CASE Base[c] = None
      BY <1>1, <1>2, <2>1, ClassAssumption
    <2>2. CASE Base[c] # None
      <3>1. Lineage[Base[c]] \subseteq made
        BY <1>4, <2>2 DEF Dispatch
      <3> QED BY <1>1, <1>2, <2>2, <3>1, OwnLineage
    <2> QED BY <2>1, <2>2
  <1>6. \A d \in made' : Lineage[d] \subseteq made'
    BY <1>2, <1>5 DEF Dispatch
  <1>7. \A d \in pending' : d \notin made' /\ Lineage[d] \subseteq made' \cup pending'
    BY <1>2 DEF Dispatch
  \* The methods of other classes keep their slots.
  <1>8. \A m \in VirtualMethods : Owner[m] # c => m \in Methods /\ index'[m] = index[m]
    BY <1>1, <1>2, VirtualOwner
  <1>9. \A m \in VirtualMethods : Owner[m] = c => index'[m] = SlotOf(c, m)
    BY <1>2, VirtualOwner
  <1>10. BaseTable(c) \in Seq(Methods)
    BY <1>1, BaseTableType
  \* The slots of the methods C inherits are those of the base's vtable.
  <1>11. ASSUME NEW m \in VirtualsIn(c), Owner[m] # c
         PROVE  /\ Base[c] # None /\ m \in VirtualsIn(Base[c]) /\ Owner[m] \in made
                /\ index[m] \in 1..Len(BaseTable(c)) /\ index'[m] = index[m]
                /\ Root[BaseTable(c)[index[m]]] = Root[m]
    <2>1. m \in VirtualMethods /\ Owner[m] \in Lineage[c]
      BY DEF VirtualsIn
    <2>2. Base[c] # None
      BY <1>1, <1>11, <2>1, ClassAssumption
    <2>3. m \in VirtualsIn(Base[c])
      BY <1>1, <1>11, <2>1, <2>2, OwnLineage DEF VirtualsIn
    <2>4. Dispatches(Base[c], m) /\ BaseTable(c) = vtable[Base[c]]
      BY <1>4, <2>2, <2>3 DEF Dispatch, BaseTable
    <2>5. Owner[m] \in made
      BY <1>4, <2>2, <2>3 DEF Dispatch, VirtualsIn
    <2> QED BY <1>8, <1>11, <2>1, <2>2, <2>3, <2>4, <2>5 DEF Dispatches
  \* So are those of the methods that C overrides.
  <1>12. ASSUME NEW m \in Range(Virtuals[c]), Overridden[m] # None
         PROVE  /\ SlotOf(c, m) \in 1..Len(BaseTable(c))
                /\ Root[BaseTable(c)[SlotOf(c, m)]] = Root[m]
                /\ Owner[Root[m]] \in made /\ SlotOf(c, m) = index[Root[m]]
    <2> DEFINE o == Overridden[m]
    <2>1. m \in VirtualMethods /\ Owner[m] = c
      BY <1>1, VirtualOwner
    <2>2. /\ o \in VirtualMethods /\ Base[c] # None /\ Owner[o] \in Lineage[Base[c]]
          /\ Root[m] = Root[o]
      BY <1>12, <2>1, VirtualAssumption
    <2>3. o \in VirtualsIn(c) /\ Owner[o] # c
      BY <1>1, <2>2, OwnLineage DEF VirtualsIn
    <2>4. SlotOf(c, m) = index[o]
      BY <1>12 DEF SlotOf
    <2>5. Owner[o] \in made /\ index[o] = index[Root[o]]
      BY <1>11, <2>2, <2>3 DEF Dispatch
    <2>6. Owner[Root[o]] \in made
      BY <2>2, <2>5, VirtualAssumption DEF Dispatch
    <2> HIDE DEF o
    <2> QED BY <1>11, <2>2, <2>3, <2>4, <2>5, <2>6
  \* A new method's slot is behind them.
  <1>13. ASSUME NEW m \in Range(Virtuals[c]), Overridden[m] = None
         PROVE  /\ SlotOf(c, m) \in (Len(BaseTable(c)) + 1)..(Len(BaseTable(c)) + Len(NewVirtuals[c]))
                /\ NewVirtuals[c][SlotOf(c, m) - Len(BaseTable(c))] = m
                /\ Root[m] = m
    <2>1. PICK j \in 1..Len(NewVirtuals[c]) :
            NewVirtuals[c][j] = m /\ SlotOf(c, m) = Len(BaseTable(c)) + j
      BY <1>1, <1>13, NewSlot
    <2>2. Len(BaseTable(c)) \in Nat /\ Len(NewVirtuals[c]) \in Nat
      BY <1>1, <1>10, VirtualAssumption
    <2>3. SlotOf(c, m) - Len(BaseTable(c)) = j
      BY <2>1, <2>2
    <2>4. Root[m] = m
      BY <1>1, <1>13, VirtualOwner, VirtualAssumption
    <2> QED BY <2>1, <2>2, <2>3, <2>4
  <1>14. \A m \in VirtualMethods : Owner[m] \in made' => index'[m] = index'[Root[m]]
    <2> SUFFICES ASSUME NEW m \in VirtualMethods, Owner[m] \in made'
                 PROVE  index'[m] = index'[Root[m]]
      OBVIOUS
    <2>1. Root[m] \in VirtualMethods /\ Owner[Root[m]] \in Lineage[Owner[m]]
      BY VirtualAssumption
    <2>2. CASE Owner[m] # c
      <3>1. Owner[m] \in made /\ Owner[Root[m]] \in made
        BY <1>2, <2>1, <2>2 DEF Dispatch
      <3> QED BY <1>1, <1>8, <2>1, <2>2, <3>1 DEF Dispatch
    <2>3. CASE Owner[m] = c /\ Overridden[m] = None
      BY <2>3, VirtualAssumption
    <2>4. CASE Owner[m] = c /\ Overridden[m] # None
      <3>1. m \in Range(Virtuals[c])
        BY <2>4, VirtualOwner
      <3>2. Owner[Root[m]] # c /\ SlotOf(c, m) = index[Root[m]]
        BY <1>1, <1>12, <2>4, <3>1
      <3> QED BY <1>8, <1>9, <2>1, <2>4, <3>2
    <2> QED BY <2>2, <2>3, <2>4
  <1>15. ASSUME NEW d \in made, NEW m \in VirtualsIn(d) PROVE Dispatches(d, m)'
    <2>1. d \in Classes /\ vtable'[d] = vtable[d]
      BY <1>1, <1>3 DEF TypeOK
    <2>2. m \in VirtualMethods /\ Owner[m] # c
      BY <1>1 DEF VirtualsIn, Dispatch
    <2>3. Dispatches(d, m) /\ index'[m] = index[m]
      BY <1>8, <2>2 DEF Dispatch
    <2> QED BY <2>1, <2>3 DEF Dispatches
  <1>16. ASSUME NEW m \in VirtualsIn(c) PROVE Dispatches(c, m)'
    <2> DEFINE i == index'[m]
    <2>1. m \in VirtualMethods /\ Owner[m] \in Lineage[c] /\ vtable'[c] = Table(c)
      BY <1>1, <1>3 DEF VirtualsIn
    <2>2. Owner[m] = c => m \in Range(Virtuals[c]) /\ i = SlotOf(c, m)
      BY <1>9, <2>1, VirtualOwner
    <2>3. /\ Len(Table(c)) = Len(BaseTable(c)) + Len(NewVirtuals[c])
          /\ Len(BaseTable(c)) \in Nat /\ Len(NewVirtuals[c]) \in Nat
      BY <1>1, <1>10, TableEntries, VirtualAssumption
    <2>4. i \in 1..Len(BaseTable(c))
          \/ i \in (Len(BaseTable(c)) + 1)..(Len(BaseTable(c)) + Len(NewVirtuals[c]))
      BY <1>11, <1>12, <1>13, <2>2
    <2>5. i \in 1..Len(Table(c))
      <3> HIDE DEF i
      <3> QED BY <2>3, <2>4
    <2>6. ASSUME NEW v \in Range(Virtuals[c]), SlotOf(c, v) = i PROVE Root[v] = Root[m]
      <3>1. CASE i \in 1..Len(BaseTable(c))
        <4>1. i \notin (Len(BaseTable(c)) + 1)..(Len(BaseTable(c)) + Len(NewVirtuals[c]))
          <5> HIDE DEF i
          <5> QED BY <2>3, <3>1
        <4>2. Root[BaseTable(c)[i]] = Root[v]
          BY <1>12, <1>13, <2>6, <4>1
        <4>3. Root[BaseTable(c)[i]] = Root[m]
          BY <1>11, <1>12, <1>13, <2>2, <4>1
        <4> QED BY <4>2, <4>3
      <3>2. CASE i \in (Len(BaseTable(c)) + 1)..(Len(BaseTable(c)) + Len(NewVirtuals[c]))
        <4>1. i \notin 1..Len(BaseTable(c))
          <5> HIDE DEF i
          <5> QED BY <2>3, <3>2
        <4>2. NewVirtuals[c][i - Len(BaseTable(c))] = v
          BY <1>12, <1>13, <2>6, <4>1
        <4>3. NewVirtuals[c][i - Len(BaseTable(c))] = m
          BY <1>11, <1>12, <1>13, <2>2, <4>1
        <4> QED BY <4>2, <4>3
      <3> QED BY <2>4, <3>1, <3>2
    <2>7. CASE \E v \in Range(Virtuals[c]) : SlotOf(c, v) = i
      <3> DEFINE r == Table(c)[i]
      <3>1. r \in Range(Virtuals[c]) /\ SlotOf(c, r) = i
        <4> HIDE DEF i
        <4> QED BY <1>1, <1>10, <2>5, <2>7, TableEntries
      <3>2. Root[r] = Root[m]
        <4> HIDE DEF r
        <4> QED BY <2>6, <3>1
      <3>3. Owner[r] = c /\ r \in VirtualsIn(c)
        BY <1>1, <1>4, <3>1, VirtualOwner DEF VirtualsIn
      <3>4. \A v \in VirtualsIn(c) : Owner[v] \in Lineage[Owner[r]]
        BY <3>3 DEF VirtualsIn
      <3> QED BY <2>1, <2>5, <3>2, <3>3, <3>4 DEF Dispatches
    <2>8. CASE ~\E v \in Range(Virtuals[c]) : SlotOf(c, v) = i
      <3>1. Table(c)[i] = BaseTable(c)[i]
        <4> HIDE DEF i
        <4> QED BY <1>1, <1>10, <2>5, <2>8, TableEntries
      <3>2. Owner[m] # c
        BY <2>2, <2>8
      <3>3. Base[c] # None /\ m \in VirtualsIn(Base[c]) /\ i = index[m] /\ Owner[m] \in made
        BY <1>11, <3>2
      <3> DEFINE b == Base[c]
                 r == BaseTable(c)[i]
      <3>4. Dispatches(b, m) /\ BaseTable(c) = vtable[b]
        BY <1>4, <3>3 DEF Dispatch, BaseTable
      <3>5. r \in VirtualsIn(b) /\ Root[r] = Root[m]
        BY <3>3, <3>4 DEF Dispatches
      <3>6. VirtualsIn(b) \subseteq VirtualsIn(c)
        BY <1>1, <3>3, OwnLineage DEF VirtualsIn
      <3>7. ASSUME NEW v \in VirtualsIn(c), Root[v] = Root[m]
            PROVE  Owner[v] \in Lineage[Owner[r]]
        <4>1. CASE Owner[v] # c
          <5>1. v \in VirtualsIn(b)
            BY <1>11, <4>1
          <5> QED BY <3>3, <3>4, <3>7, <5>1 DEF Dispatches
        <4>2. CASE Owner[v] = c
          <5>1. v \in VirtualMethods /\ v \in Range(Virtuals[c])
            BY <4>2, VirtualOwner DEF VirtualsIn
          <5>2. CASE Overridden[v] = None
            <6>1. Root[m] = v
              BY <3>7, <5>1, <5>2, VirtualAssumption
            <6>2. c \in Lineage[Owner[m]]
              BY <2>1, <4>2, <6>1, VirtualAssumption
            <6>3. c \in made
              BY <3>3, <6>2 DEF Dispatch
            <6> QED BY <1>1, <6>3
          <5>3. CASE Overridden[v] # None
            <6>1. SlotOf(c, v) = index[Root[m]]
              BY <1>12, <3>7, <5>1, <5>3
            <6>2. index[Root[m]] = index[m]
              BY <2>1, <3>3 DEF Dispatch
            <6> QED BY <2>8, <3>3, <5>1, <6>1, <6>2
          <5> QED BY <5>2, <5>3
        <4> QED BY <4>1, <4>2
      <3> QED BY <2>1, <2>5, <3>1, <3>5, <3>6, <3>7 DEF Dispatches
    <2> QED BY <2>7, <2>8
  <1>17. \A d \in made' : \A m \in VirtualsIn(d) : Dispatches(d, m)'
    BY <1>2, <1>15, <1>16
  <1>18. \A d \in pending' : d \notin made' /\ Lineage[d] \subseteq made' \cup pending'
    BY <1>7
  <1> QED BY <1>6, <1>14, <1>17, <1>18 DEF Dispatch

\* Every step keeps the vtables right.
LEMMA DispatchStep == TypeOK /\ Dispatch /\ [Next]_vars => Dispatch'
  <1> SUFFICES ASSUME TypeOK, Dispatch, [Next]_vars PROVE Dispatch'
    OBVIOUS
  <1>1. CASE \E c \in pending : parse_vtable(c)
    BY <1>1, VtableDispatch
  <1>2. CASE cral_parse_file \/ parse_next_deferred_method \/ scil_set_entry_point
             \/ scil_complete_method_def \/ UNCHANGED vars
    BY <1>2, SameDispatch DEF cral_parse_file, parse_next_deferred_method,
       scil_set_entry_point, scil_complete_method_def, vars, classVars
  <1>3. ASSUME NEW m \in Methods, instr_call(m) PROVE Dispatch'
    BY <1>3, SameDispatch DEF instr_call, Crash, Refer, Instruction
  <1>4. ASSUME NEW m \in Methods, instr_ldvirtftn(m) PROVE Dispatch'
    <2>1. Owner[m] \in Classes /\ UNCHANGED <<made, vtable, index>>
      BY <1>4, ProgramAssumption DEF Members, instr_ldvirtftn, Refer, Instruction
    <2>2. pending' = pending \/ pending' = Missing(Owner[m])
      BY <1>4 DEF instr_ldvirtftn, Crash
    <2> QED BY <2>1, <2>2, SameDispatch, MissingDispatch
  <1>5. ASSUME NEW m \in Methods, instr_callvirt(m) PROVE Dispatch'
    BY <1>4, <1>5, SameDispatch DEF instr_callvirt, Refer, Instruction
  <1>6. ASSUME NEW m \in Ctors, instr_newobj(m) PROVE Dispatch'
    <2>1. Owner[m] \in Classes /\ UNCHANGED <<made, vtable, index>>
      BY <1>6, ProgramAssumption DEF Members, instr_newobj, Refer, Instruction
    <2>2. pending' = pending \/ pending' = Missing(Owner[m])
      BY <1>6 DEF instr_newobj, Crash
    <2> QED BY <2>1, <2>2, SameDispatch, MissingDispatch
  <1>7. ASSUME NEW c \in Classes, instr_ldfld(c) PROVE Dispatch'
    BY <1>7, SameDispatch DEF instr_ldfld, Instruction
  <1>8. ASSUME NEW f \in StaticFields, instr_ldsfld(f) PROVE Dispatch'
    BY <1>8, SameDispatch DEF instr_ldsfld, Instruction
  <1> QED BY <1>1, <1>2, <1>3, <1>4, <1>5, <1>6, <1>7, <1>8 DEF Next

\* No vtable is wrong at the start.
LEMMA DispatchInit == Init => Dispatch
  BY DEF Init, Dispatch

\* In every class hierarchy, with overrides of overrides, and in whatever order
\* newobj, callvirt and ldvirtftn make parse_vtable build the vtables, the slot
\* of a virtual method holds, in every class that has or inherits it, the
\* override nearest to that class.
THEOREM VirtualCalls == Spec => []DispatchRight
  <1>1. Dispatch => DispatchRight
    BY DEF Dispatch, Dispatches, DispatchRight
  <1> QED BY <1>1, TypeInit, TypeStep, DispatchInit, DispatchStep, PTL DEF Spec

-----------------------------------------------------------------------------
(* The calls in main *)

\* The calls in main other than that of the entry point.
CctorCalls == IF status = "done" THEN 1..(Len(main) - 1) ELSE 1..Len(main)

\* The inductive invariant: main calls the marked methods, each once, and those
\* are the constructors of the classes with a field that has been met.
Marking ==
  /\ status = "done" => main # <<>> /\ main[Len(main)] = EntryPoint
  /\ \A i, j \in CctorCalls : main[i] = main[j] => i = j
  /\ marked = {main[i] : i \in CctorCalls}
  /\ \A f \in fields : Cctor[Owner[f]] # None => Cctor[Owner[f]] \in marked
  /\ \A ref \in accessed : ref[2] \in fields

\* Steps that do not touch main and the static fields.
LEMMA SameMarking ==
  ASSUME Marking, UNCHANGED <<main, marked, fields, accessed>>,
         status # "done", status' # "done"
  PROVE  Marking'
BY DEF Marking, CctorCalls

\* scil_mark_class_constructor calls a constructor from main the first time.
LEMMA MarkStep ==
  ASSUME TypeOK, Marking, status # "done", NEW m \in Methods,
         scil_mark_class_constructor(m), status' # "done"
  PROVE  /\ \A i, j \in CctorCalls' : main'[i] = main'[j] => i = j
         /\ marked' = {main'[i] : i \in CctorCalls'}
         /\ marked' = marked \cup {m}
<1>1. CctorCalls = 1..Len(main) /\ CctorCalls' = 1..Len(main') /\ main \in Seq(Methods)
  BY DEF CctorCalls, TypeOK
<1>2. CASE m \in marked
  BY <1>1, <1>2 DEF scil_mark_class_constructor, Marking
<1>3. CASE m \notin marked
  <2>1. main' = Append(main, m) /\ marked' = marked \cup {m}
    BY <1>3 DEF scil_mark_class_constructor
  <2>2. /\ Len(main) \in Nat /\ Len(main') = Len(main) + 1 /\ main'[Len(main) + 1] = m
        /\ \A i \in 1..Len(main) : main'[i] = main[i] /\ main[i] # m
    BY <1>1, <1>3, <2>1 DEF Marking
  <2>3. \A i \in 1..(Len(main) + 1) : i \in 1..Len(main) \/ i = Len(main) + 1
    BY <2>2
  <2>4. \A i, j \in 1..Len(main) : main[i] = main[j] => i = j
    BY <1>1 DEF Marking
  <2>5. marked = {main[i] : i \in 1..Len(main)}
    BY <1>1 DEF Marking
  <2>6. \A i, j \in 1..(Len(main) + 1) : main'[i] = main'[j] => i = j
    BY <2>2, <2>3, <2>4
  <2>7. marked' = {main'[i] : i \in 1..(Len(main) + 1)}
    <3>1. 1..(Len(main) + 1) = 1..Len(main) \cup {Len(main) + 1}
      BY <2>2
    <3> QED
      BY <2>1, <2>2, <2>5, <3>1
  <2> QED
    BY <1>1, <2>1, <2>2, <2>6, <2>7
<1> QED
  BY <1>2, <1>3

\* The first access to a static field registers the constructor of its class.
LEMMA FieldMarking ==
  ASSUME TypeOK, Marking, NEW f \in StaticFields, instr_ldsfld(f)
  PROVE  Marking'
<1>1. /\ status = "parsing" /\ status' = "parsing"
      /\ accessed' = accessed \cup {<<current, f>>}
  BY DEF instr_ldsfld, Instruction
<1>2. Owner[f] \in Classes /\ Cctor[Owner[f]] \in Methods \cup {None}
  BY ProgramAssumption DEF Members
<1>3. CASE f \in fields
  <2>1. UNCHANGED <<main, marked, fields>>
    BY <1>3 DEF instr_ldsfld, progVars
  <2> QED
    BY <1>1, <1>3, <2>1 DEF Marking, CctorCalls
<1>4. CASE f \notin fields /\ Cctor[Owner[f]] = None
  <2>1. UNCHANGED <<main, marked>> /\ fields' = fields \cup {f}
    BY <1>4 DEF instr_ldsfld, register_static_field
  <2> QED
    BY <1>1, <1>4, <2>1 DEF Marking, CctorCalls
<1>5. CASE f \notin fields /\ Cctor[Owner[f]] # None
  <2> DEFINE m == Cctor[Owner[f]]
  <2>1. scil_mark_class_constructor(m) /\ fields' = fields \cup {f} /\ m \in Methods
    BY <1>2, <1>5 DEF instr_ldsfld, register_static_field
  <2> HIDE DEF m
  <2>2. /\ \A i, j \in CctorCalls' : main'[i] = main'[j] => i = j
        /\ marked' = {main'[i] : i \in CctorCalls'}
        /\ marked' = marked \cup {m}
    BY <1>1, <2>1, MarkStep
  <2>3. \A g \in fields' : Cctor[Owner[g]] # None => Cctor[Owner[g]] \in marked'
    BY <2>1, <2>2 DEF Marking, m
  <2>4. \A ref \in accessed' : ref[2] \in fields'
    BY <1>1, <2>1 DEF Marking
  <2> QED
    BY <1>1, <2>2, <2>3, <2>4 DEF Marking
<1> QED
  BY <1>3, <1>4, <1>5

\* Every step keeps the calls in main right.
LEMMA MarkingStep == TypeOK /\ Marking /\ [Next]_vars => Marking'
<1> SUFFICES ASSUME TypeOK, Marking, [Next]_vars PROVE Marking'
  OBVIOUS
<1>1. CASE cral_parse_file \/ parse_next_deferred_method \/ scil_complete_method_def
           \/ \E c \in pending : parse_vtable(c)
  BY <1>1, SameMarking DEF cral_parse_file, parse_next_deferred_method,
     scil_complete_method_def, parse_vtable, progVars, bodyVars
<1>2. CASE scil_set_entry_point
  <2>1. /\ status = "parsing" /\ status' = "done" /\ main' = Append(main, EntryPoint)
        /\ UNCHANGED <<marked, fields, accessed>>
    BY <1>2 DEF scil_set_entry_point, bodyVars
  <2>2. main \in Seq(Methods) /\ EntryPoint \in Methods
    BY ProgramAssumption DEF TypeOK
  <2>3. /\ Len(main) \in Nat /\ Len(main') = Len(main) + 1 /\ main' # <<>>
        /\ main'[Len(main')] = EntryPoint
        /\ \A i \in 1..Len(main) : main'[i] = main[i]
    BY <2>1, <2>2
  <2>4. CctorCalls' = 1..Len(main) /\ CctorCalls = 1..Len(main)
    BY <2>1, <2>3 DEF CctorCalls
  <2>5. {main'[i] : i \in 1..Len(main)} = {main[i] : i \in 1..Len(main)}
    BY <2>3
  <2> QED
    BY <2>1, <2>3, <2>4, <2>5 DEF Marking
<1>3. ASSUME NEW m \in Methods, instr_call(m) \/ instr_callvirt(m) \/ instr_ldvirtftn(m)
      PROVE  Marking'
  <2>1. UNCHANGED <<main, marked, fields, accessed>>
    BY <1>3 DEF instr_call, instr_callvirt, instr_ldvirtftn, Refer, Crash, progVars
  <2>2. status = "parsing" /\ status' # "done"
    BY <1>3 DEF instr_call, instr_callvirt, instr_ldvirtftn, Refer, Crash, Instruction
  <2> QED
    BY <2>1, <2>2, SameMarking
<1>4. ASSUME NEW m \in Ctors, instr_newobj(m)
      PROVE  Marking'
  <2>1. UNCHANGED <<main, marked, fields, accessed>>
    BY <1>4 DEF instr_newobj, Refer, Crash, progVars
  <2>2. status = "parsing" /\ status' # "done"
    BY <1>4 DEF instr_newobj, Refer, Crash, Instruction
  <2> QED
    BY <2>1, <2>2, SameMarking
<1>5. ASSUME NEW c \in Classes, instr_ldfld(c) PROVE Marking'
  BY <1>5, SameMarking DEF instr_ldfld, Instruction, progVars, bodyVars
<1>6. ASSUME NEW f \in StaticFields, instr_ldsfld(f) PROVE Marking'
  BY <1>6, FieldMarking
<1>7. CASE UNCHANGED vars
  BY <1>7 DEF Marking, CctorCalls, vars, progVars, bodyVars
<1> QED
  BY <1>1, <1>2, <1>3, <1>4, <1>5, <1>6, <1>7 DEF Next

LEMMA MarkingInit == Init => Marking
<1> SUFFICES ASSUME Init PROVE Marking
  OBVIOUS
<1>1. CctorCalls = {} /\ status # "done"
  BY DEF Init, CctorCalls
<1> QED
  BY <1>1 DEF Init, Marking

\* main runs the constructor of every class whose static fields the program
\* uses, once, before the entry point, which comes last: for every program, and
\* in whatever order its methods refer to the fields.
THEOREM ConstructorsFirst == Spec => []ConstructorsRunFirst
<1>1. TypeOK /\ Marking => ConstructorsRunFirst
  <2> SUFFICES ASSUME TypeOK, Marking, status = "done" PROVE ConstructorsRunFirst
    BY DEF ConstructorsRunFirst
  <2>1. CctorCalls = 1..(Len(main) - 1)
    BY DEF CctorCalls
  <2> QED
    BY <2>1 DEF Marking, ConstructorsRunFirst
<1> QED
  BY <1>1, TypeInit, TypeStep, MarkingInit, MarkingStep, PTL DEF Spec

-----------------------------------------------------------------------------
(* Each body once *)

=============================================================================
