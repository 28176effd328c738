----------------------------- MODULE CralDriver -----------------------------
(***************************************************************************)
(* The CIL Reader Adaption Layer of the SCIL front end (scil-pnet.c) and   *)
(* the registry behind it (scil-method.c, scil-class.c, scil-mono.c):      *)
(* starting from the entry point, every method, class, static field and    *)
(* class constructor that the code refers to is registered when it is      *)
(* first met; methods are queued and compiled one after the other; a       *)
(* virtual-method table is built when a class is first instantiated or     *)
(* called virtually; the calls of the class constructors and, at the end,  *)
(* of the entry point are appended to the generated main.                  *)
(*                                                                         *)
(* What the methods refer to is not fixed: while a method is parsed, every *)
(* step chooses the next instruction that refers to something.  The other  *)
(* instructions are those of ScilMethod.                                   *)
(***************************************************************************)
EXTENDS Naturals, Sequences

CONSTANTS
  Methods,
  Classes,
  StaticFields,
  EntryPoint,     \* the method ILImageGetEntryPoint names
  Owner,          \* the class of each method and static field
  Base,           \* ILClassGetParent
  Lineage,        \* each class with all its bases
  Virtuals,       \* the virtual methods each class declares, in order
  NewVirtuals,    \* those that override nothing
  Overridden,     \* ILMemberGetBase: the method a virtual method overrides
  Root,           \* the method at the end of that chain
  Ctors,          \* the instance constructors
  Cctor,          \* the class constructor of each class, or None
  ValueTypes,     \* classes that are value types
  Delegates,      \* classes with StaticDelegateAttribute
  Builtin,        \* classes scil_make_builtins lays out (Object, String)
  Runtime,        \* methods scil_rt_make_builtins declares
  NoCode,         \* methods without CIL code that are not Runtime
  MaxRefs,        \* references in the body of one method
  None

Range(f) == {f[x] : x \in DOMAIN f}
Members == Methods \cup StaticFields
VirtualMethods == UNION {Range(Virtuals[c]) : c \in Classes}

ASSUME ProgramAssumption ==
  /\ EntryPoint \in Methods
  /\ None \notin Methods \cup Classes
  /\ Owner \in [Members -> Classes]
  /\ Ctors \subseteq Methods \ VirtualMethods
  /\ Cctor \in [Classes -> Methods \cup {None}]
  /\ ValueTypes \subseteq Classes
  /\ Delegates \subseteq Classes
  /\ Builtin \subseteq Classes
  /\ Runtime \subseteq Methods
  /\ NoCode \subseteq Methods \ Runtime
  /\ MaxRefs \in Nat

\* Classes form trees.
ASSUME ClassAssumption ==
  /\ Base \in [Classes -> Classes \cup {None}]
  /\ Lineage \in [Classes -> SUBSET Classes]
  /\ \A c \in Classes :
       IF Base[c] = None THEN Lineage[c] = {c}
       ELSE /\ c \notin Lineage[Base[c]]
            /\ Lineage[c] = Lineage[Base[c]] \cup {c}
  /\ \A c \in Classes : \A d \in Lineage[c] : Lineage[d] \subseteq Lineage[c]

\* A virtual method overrides at most one, of a base of its class.  ILMemberGetBase
\* skips to the nearest new-slot method, whether the member itself is one or not:
\* a method that hides another (new virtual) overrides it as far as this code is
\* concerned, which is how a chain gets longer than one.
ASSUME VirtualAssumption ==
  /\ Virtuals \in [Classes -> Seq(Methods)]
  /\ NewVirtuals \in [Classes -> Seq(Methods)]
  /\ Overridden \in [Methods -> Methods \cup {None}]
  /\ Root \in [Methods -> Methods]
  /\ \A c \in Classes :
       /\ \A m \in Range(Virtuals[c]) : Owner[m] = c
       /\ Range(NewVirtuals[c]) = {m \in Range(Virtuals[c]) : Overridden[m] = None}
       /\ \A i, j \in 1..Len(NewVirtuals[c]) :
            NewVirtuals[c][i] = NewVirtuals[c][j] => i = j
  /\ \A m \in VirtualMethods :
       /\ Root[m] \in VirtualMethods /\ Owner[Root[m]] \in Lineage[Owner[m]]
       /\ IF Overridden[m] = None THEN Root[m] = m
          ELSE /\ Overridden[m] \in VirtualMethods
               /\ Base[Owner[m]] # None
               /\ Owner[Overridden[m]] \in Lineage[Base[Owner[m]]]
               /\ Root[m] = Root[Overridden[m]]

VARIABLES
  tree,      \* the methods with a tree in their user data
  fields,    \* the static fields with one
  deferred,  \* the queue of deferred methods
  defined,   \* the methods with DECL_INITIAL set by scil_start_method_def
  errors,    \* the methods reported to have no code
  current,   \* the method parse_method works on, or None
  room,      \* how many more references its body holds
  pending,   \* the classes parse_vtable is still to do
  laidOut,   \* the classes with TYPE_BINFO
  made,      \* the classes with a vtable
  vtable,    \* their vtables
  index,     \* method->index, counted from 1; 0 before it is set
  marked,    \* the methods with DECL_STATIC_CONSTRUCTOR
  main,      \* the methods the generated main calls, in order
  status,    \* start, parsing, done; crashed after a null pointer is used
  called,    \* ghost: the methods the compiled bodies refer to
  accessed   \* ghost: which method refers to which static field

progVars == <<tree, fields, deferred, marked, main>>
bodyVars == <<called, accessed>>
classVars == <<laidOut, made, vtable, index, pending>>
methodVars == <<defined, errors, current, room>>
vars == <<progVars, classVars, methodVars, status, bodyVars>>

\* State types.
TypeOK ==
  /\ tree \subseteq Methods
  /\ fields \subseteq StaticFields
  /\ deferred \in Seq(Methods)
  /\ defined \subseteq Methods
  /\ errors \subseteq NoCode
  /\ current \in Methods \cup {None}
  /\ room \in 0..MaxRefs
  /\ pending \subseteq Classes
  /\ laidOut \subseteq Classes
  /\ made \subseteq Classes
  /\ vtable \in [Classes -> Seq(Methods)]
  /\ index \in [Methods -> Nat]
  /\ marked \subseteq Methods
  /\ main \in Seq(Methods)
  /\ status \in {"start", "parsing", "done", "crashed"}
  /\ called \subseteq Methods
  /\ accessed \subseteq Methods \X StaticFields

Init ==
  /\ tree = {}
  /\ fields = {}
  /\ deferred = <<>>
  /\ defined = {}
  /\ errors = {}
  /\ current = None
  /\ room = 0
  /\ pending = {}
  /\ laidOut = Builtin
  /\ made = {}
  /\ vtable = [c \in Classes |-> <<>>]
  /\ index = [m \in Methods |-> 0]
  /\ marked = {}
  /\ main = <<>>
  /\ status = "start"
  /\ called = {}
  /\ accessed = {}

-----------------------------------------------------------------------------
(* Methods *)

\* Faulty form, for mutation: the last element is forgotten.
defer_method_Lost(q, m) ==
  IF Len(q) < 2 THEN Append(q, m) ELSE Append(SubSeq(q, 1, Len(q) - 1), m)

defer_method(q, m) == Append(q, m)

\* read_method: registers and queues a method met for the first time.  The
\* methods of static delegates are never registered.
read_method(m) ==
  IF m \in tree \/ Owner[m] \in Delegates
  THEN UNCHANGED <<tree, deferred>>
  ELSE /\ tree' = tree \cup {m}
       /\ deferred' = defer_method(deferred, m)

\* What scil_start_method_def asks of a method: it is not a runtime method and
\* its definition has not been started before.
Definable(m) == m \notin Runtime /\ m \notin defined

\* Faulty form, for mutation: every method without code is an error.
parse_method_Runtime(m) ==
  IF m \in NoCode \cup Runtime
  THEN errors' = errors \cup {m} /\ UNCHANGED <<defined, current, room>>
  ELSE IF ~Definable(m)
  THEN UNCHANGED methodVars
  ELSE defined' = defined \cup {m} /\ current' = m /\ room' = MaxRefs /\ UNCHANGED errors

\* parse_method, up to the first instruction; a method that has been defined
\* before is skipped silently, one without code is an error.
parse_method(m) ==
  IF ~Definable(m)
  THEN /\ UNCHANGED methodVars
  ELSE /\ defined' = defined \cup {m}
       /\ IF m \in NoCode
          THEN /\ errors' = errors \cup {m}
               /\ UNCHANGED <<current, room>>
          ELSE /\ current' = m
               /\ room' = MaxRefs
               /\ UNCHANGED errors

\* cral_parse_file: the entry point is registered and parsed first.
cral_parse_file ==
  /\ status = "start"
  /\ status' = "parsing"
  /\ tree' = tree \cup {EntryPoint}
  /\ parse_method(EntryPoint)
  /\ UNCHANGED <<fields, deferred, marked, main, classVars, bodyVars>>

\* Faulty form, for mutation: the head stays in the queue.
parse_next_deferred_method_Stays ==
  /\ status = "parsing" /\ current = None /\ deferred # <<>>
  /\ parse_method(Head(deferred))
  /\ UNCHANGED <<progVars, classVars, status, bodyVars>>

parse_next_deferred_method ==
  /\ status = "parsing" /\ current = None /\ deferred # <<>>
  /\ deferred' = Tail(deferred)
  /\ parse_method(Head(deferred))
  /\ UNCHANGED <<tree, fields, marked, main, classVars, status, bodyVars>>

\* Faulty form, for mutation: main is finished after the first method.
LoopEnds_Early == TRUE

\* The condition that ends the loop of cral_parse_file.
LoopEnds == deferred = <<>>

\* scil_set_entry_point: main calls the entry point after all else.
scil_set_entry_point ==
  /\ status = "parsing" /\ current = None /\ LoopEnds
  /\ main' = Append(main, EntryPoint)
  /\ status' = "done"
  /\ UNCHANGED <<tree, fields, deferred, marked, classVars, methodVars, bodyVars>>

\* The last instruction of the current method: scil_complete_method_def.
scil_complete_method_def ==
  /\ status = "parsing" /\ current # None /\ pending = {}
  /\ current' = None
  /\ room' = 0
  /\ UNCHANGED <<progVars, classVars, defined, errors, status, bodyVars>>

-----------------------------------------------------------------------------
(* Classes *)

HasNoVtable(c) == c \in ValueTypes \cup Delegates

\* The classes parse_vtable (c) visits: up to the first that has a vtable, whose
\* bases have one too.
Missing(c) == IF HasNoVtable(c) THEN {} ELSE Lineage[c] \ made

\* SCIL_VTABLE_PARSED reads BINFO_VTABLE (TYPE_BINFO (type)) of each of them.
NullBinfo(c) == ~(Missing(c) \subseteq laidOut)

\* parse_instance_fields: the class and its bases are laid out.
parse_instance_fields(c) ==
  IF c \in laidOut \/ HasNoVtable(c) THEN laidOut
  ELSE laidOut \cup Lineage[c]

BaseTable(c) == IF Base[c] = None THEN <<>> ELSE vtable[Base[c]]

\* Faulty form, for mutation: a virtual method always gets a new slot.
SlotOf_New(c, m) ==
  Len(BaseTable(c)) + (CHOOSE i \in 1..Len(Virtuals[c]) : Virtuals[c][i] = m)

\* The slot of the virtual method M of C: that of the method it overrides, else
\* a new one (scil_new_vtable_slot).
SlotOf(c, m) ==
  IF Overridden[m] # None THEN index[Overridden[m]]
  ELSE Len(BaseTable(c))
         + (CHOOSE i \in 1..Len(NewVirtuals[c]) : NewVirtuals[c][i] = m)

\* scil_make_vtable copies the base's vtable; scil_set_vtable_slot then fills in
\* the virtual methods of C.
Table(c) ==
  [i \in 1..(Len(BaseTable(c)) + Len(NewVirtuals[c])) |->
     IF \E m \in Range(Virtuals[c]) : SlotOf(c, m) = i
     THEN CHOOSE m \in Range(Virtuals[c]) : SlotOf(c, m) = i
     ELSE BaseTable(c)[i]]

\* One level of parse_vtable, C, whose base has been done.  Every virtual method
\* is registered and deferred, whether it is known or not.
parse_vtable(c) ==
  /\ status = "parsing" /\ Base[c] \notin pending
  /\ pending' = pending \ {c}
  /\ made' = made \cup {c}
  /\ vtable' = [vtable EXCEPT ![c] = Table(c)]
  /\ index' = [m \in Methods |->
                 IF m \in Range(Virtuals[c]) THEN SlotOf(c, m) ELSE index[m]]
  /\ tree' = tree \cup Range(Virtuals[c])
  /\ deferred' = deferred \o Virtuals[c]
  /\ UNCHANGED <<fields, marked, main, laidOut, methodVars, status, bodyVars>>

-----------------------------------------------------------------------------
(* Instructions that refer to something *)

\* One of them.
Instruction ==
  /\ status = "parsing" /\ current # None /\ pending = {} /\ room > 0
  /\ room' = room - 1
  /\ UNCHANGED <<defined, errors, current, made, vtable, index>>

\* One of them that refers to the method M.
Refer(m) ==
  /\ Instruction
  /\ called' = called \cup {m}
  /\ UNCHANGED accessed

Crash == status' = "crashed" /\ UNCHANGED <<progVars, laidOut, pending>>

\* call, ldftn.  After call_delegate, instr_call goes on to scil_instr_call with
\* the tree that the methods of static delegates do not have.
instr_call(m) ==
  /\ Refer(m)
  /\ IF Owner[m] \in Delegates THEN Crash
     ELSE read_method(m) /\ UNCHANGED <<fields, marked, main, laidOut, pending, status>>

\* ldvirtftn: the vtable of M's class is built, whether M is virtual or not.
instr_ldvirtftn(m) ==
  /\ Refer(m)
  /\ IF NullBinfo(Owner[m]) THEN Crash
     ELSE /\ read_method(m)
          /\ pending' = Missing(Owner[m])
          /\ UNCHANGED <<fields, marked, main, laidOut, status>>

\* callvirt: a virtual method is called as ldvirtftn finds it, any other one
\* directly; the Invoke method of a static delegate is an indirect call.
instr_callvirt(m) ==
  IF m \in VirtualMethods THEN instr_ldvirtftn(m)
  ELSE /\ Refer(m)
       /\ read_method(m)
       /\ UNCHANGED <<fields, marked, main, laidOut, pending, status>>

\* newobj with constructor M.  A value type has no TYPE_BINFO for
\* scil_instr_newobj to find a vtable in.
instr_newobj(m) ==
  /\ Refer(m)
  /\ IF Owner[m] \in ValueTypes THEN Crash
     ELSE /\ read_method(m)
          /\ laidOut' = parse_instance_fields(Owner[m])
          /\ pending' = Missing(Owner[m])
          /\ UNCHANGED <<fields, marked, main, status>>

\* ldfld, ldflda, stfld of a field of C: the first access lays C out.
instr_ldfld(c) ==
  /\ Instruction
  /\ laidOut' = parse_instance_fields(c)
  /\ UNCHANGED <<progVars, pending, status, bodyVars>>

\* Faulty form, for mutation: a class constructor is called for every field.
scil_mark_class_constructor_Again(m) == main' = Append(main, m) /\ marked' = marked \cup {m}

\* scil_mark_class_constructor: main calls M, once.
scil_mark_class_constructor(m) ==
  IF m \in marked THEN UNCHANGED <<marked, main>>
  ELSE /\ marked' = marked \cup {m}
       /\ main' = Append(main, m)

\* register_static_field: the class constructor is registered, marked and
\* deferred, whether it is known or not.
register_static_field(f) ==
  /\ fields' = fields \cup {f}
  /\ LET m == Cctor[Owner[f]] IN
     IF m = None THEN UNCHANGED <<tree, deferred, marked, main>>
     ELSE /\ tree' = tree \cup {m}
          /\ scil_mark_class_constructor(m)
          /\ deferred' = defer_method(deferred, m)

\* ldsfld, ldsflda, stsfld
instr_ldsfld(f) ==
  /\ Instruction
  /\ IF f \in fields THEN UNCHANGED progVars ELSE register_static_field(f)
  /\ accessed' = accessed \cup {<<current, f>>}
  /\ UNCHANGED <<called, laidOut, pending, status>>

Next ==
  \/ cral_parse_file
  \/ parse_next_deferred_method
  \/ scil_set_entry_point
  \/ scil_complete_method_def
  \/ \E c \in pending : parse_vtable(c)
  \/ \E m \in Methods : instr_call(m) \/ instr_callvirt(m) \/ instr_ldvirtftn(m)
  \/ \E m \in Ctors : instr_newobj(m)
  \/ \E c \in Classes : instr_ldfld(c)
  \/ \E f \in StaticFields : instr_ldsfld(f)

Spec == Init /\ [][Next]_vars

\* The driver is a sequential program that runs until it ends.
FairSpec == Spec /\ WF_vars(Next)

-----------------------------------------------------------------------------
(* Properties *)

\* What is known is taken care of: a method with a tree has been defined, or
\* belongs to the runtime, or is still in the queue, at every moment and in
\* whatever order methods are met, by a call, a vtable or a class constructor.
NothingForgotten ==
  status # "crashed" => \A m \in tree : m \in defined \cup Runtime \cup Range(deferred)

\* When main is finished, the program is closed: whatever a compiled body calls,
\* whatever is in the vtable of a class and every class constructor is compiled
\* or part of the runtime.
ClosedProgram ==
  status = "done" =>
    /\ \A m \in called : Owner[m] \in Delegates \/ m \in defined \cup Runtime
    /\ \A c \in made : Range(vtable[c]) \subseteq defined \cup Runtime
    /\ Range(main) \subseteq defined \cup Runtime

\* "This will force execution of this method at start-up": main calls the
\* constructor of every class whose static fields the program uses, exactly once
\* and before the entry point, which it calls exactly once and last.
ConstructorsRunFirst ==
  status = "done" =>
    /\ main[Len(main)] = EntryPoint
    /\ \A i, j \in 1..(Len(main) - 1) : main[i] = main[j] => i = j
    /\ \A ref \in accessed :
         LET m == Cctor[Owner[ref[2]]]
         IN  m # None => \E i \in 1..(Len(main) - 1) : main[i] = m

\* The virtual methods C has or inherits.
VirtualsIn(c) == {m \in VirtualMethods : Owner[m] \in Lineage[c]}

\* A virtual call finds the right method: in the vtable of C, the slot of every
\* virtual method that C has or inherits holds the override nearest to C, in
\* whatever order the vtables were built.
DispatchRight ==
  \A c \in made : \A m \in VirtualsIn(c) :
    /\ index[m] \in 1..Len(vtable[c])
    /\ LET r == vtable[c][index[m]] IN
       /\ r \in VirtualsIn(c)
       /\ Root[r] = Root[m]
       /\ \A v \in VirtualsIn(c) : Root[v] = Root[m] =>
            Owner[v] \in Lineage[Owner[r]]

\* The queue runs empty, although methods call each other in circles and are
\* queued again and again: the front end comes to an end.
Terminates == <>(status \in {"done", "crashed"})

=============================================================================
