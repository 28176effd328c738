----------------------------- MODULE CilVtables -----------------------------
(***************************************************************************)
(* The classes of the CIL front end (gcc/cil/parse_assembly.c): parse_class *)
(* gives every virtual method an index, method->index, and builds the      *)
(* vtable of the class.  The indices belong to the methods, not to a table: *)
(* they are computed anew, from the root of the hierarchy down, for every  *)
(* class that is parsed, and the calls compiled afterwards use what is left *)
(* in them.                                                                *)
(*                                                                         *)
(* A method is <<owner, name>>: the name stands for name and signature.    *)
(***************************************************************************)
EXTENDS Integers, Sequences, SequencesExt, FiniteSets, FiniteSetsExt, Functions

CONSTANTS
  Classes,
  Interfaces,
  Programs,    \* the programs to compile: see ProgramAssumption
  None

Types == Classes \cup Interfaces

\* The classes from the root to C (ILClassGetParent).
LineageOf(p, c) ==
  LET up[d \in Classes] ==
        IF p.base[d] = None THEN <<d>> ELSE Append(up[p.base[d]], d)
  IN  up[c]

NamesOf(p, t) == ToSet(p.names[t])
MethodsOf(p) == UNION {{<<t, n>> : n \in NamesOf(p, t)} : t \in Types}

\* A program: the base of each class, the interfaces each type lists, the virtual
\* methods each type declares, in order, and which of them are new slots.
ASSUME ProgramAssumption ==
  /\ IsFiniteSet(Classes) /\ Classes \cap Interfaces = {} /\ None \notin Types
  /\ \A p \in Programs :
       /\ p.base \in [Classes -> Classes \cup {None}]
       /\ \E depth \in [Classes -> 0..Cardinality(Classes)] :
            \A c \in Classes : p.base[c] # None => depth[p.base[c]] < depth[c]
       /\ DOMAIN p.lists = Types /\ DOMAIN p.names = Types
       /\ \A t \in Types :
            /\ p.lists[t] \in Seq(Interfaces) /\ IsInjective(p.lists[t])
            /\ p.names[t] \in Seq(NamesOf(p, t)) /\ IsInjective(p.names[t])
       /\ p.newslot \subseteq MethodsOf(p) /\ \A m \in p.newslot : m[1] \in Classes
       /\ None \notin MethodsOf(p) \cup [index : Nat, method : MethodsOf(p)]

\* What a compiler makes of classes in which no method hides another and no interface is
\* implemented by what is inherited: System.Object has virtual methods and lists no
\* interface; what overrides nothing is a new slot, and nothing else is; the
\* methods of the interfaces that a class lists are new slots of its own.
ASSUME PlainAssumption ==
  \A p \in Programs : \A c \in Classes :
    /\ p.base[c] = None => p.lists[c] = <<>> /\ p.names[c] # <<>>
    /\ \A n \in NamesOf(p, c) :
         LET bases == ToSet(LineageOf(p, c)) \ {c}
         IN  IF <<c, n>> \in p.newslot
             THEN \A d \in bases : n \notin NamesOf(p, d)
             ELSE \E d \in bases : <<d, n>> \in p.newslot
    /\ \A i \in ToSet(p.lists[c]) : \A n \in NamesOf(p, i) :
         /\ <<c, n>> \in p.newslot
         /\ \A j \in ToSet(p.lists[c]) \ {i} : n \notin NamesOf(p, j)

VARIABLES
  prog,      \* the program that is compiled; never changes
  parsed,    \* the types with a MonoClass
  index,     \* method->index of every method
  count,     \* the methods with method->count = 1
  vtable,    \* the vtable of each class, a list of [index, method]
  phase      \* "classes", "methods" or "error"

compileVars == <<prog, parsed, index, count, vtable, phase>>

-----------------------------------------------------------------------------
(* The program as the reader library shows it *)

Methods == MethodsOf(prog)
Lineage(c) == LineageOf(prog, c)

\* The last class of the sequence S that is in T, or None.
LastIn(s, T) ==
  IF ToSet(s) \cap T = {} THEN None ELSE s[Max({i \in DOMAIN s : s[i] \in T})]

\* ILMemberGetBase: the nearest new-slot method of that name in a base.
MemberBase(m) ==
  LET d == LastIn(Front(Lineage(m[1])), {e \in Classes : <<e, m[2]>> \in prog.newslot})
  IN  IF d = None THEN None ELSE <<d, m[2]>>

\* The classes that declare a virtual method N.
Declaring(n) == {d \in Classes : <<d, n>> \in Methods}

\* ILClassGetMethodImpl: a new-slot method of C, else the nearest virtual one.
\* Explicit .override declarations are left out: no program has one.
MethodImpl(c, n) ==
  IF <<c, n>> \in prog.newslot THEN <<c, n>>
  ELSE LET d == LastIn(Lineage(c), Declaring(n))
       IN  IF d = None THEN None ELSE <<d, n>>

-----------------------------------------------------------------------------
(* Indices *)

\* What create_virtual_methods_indices works on: the indices and the counts of
\* the methods, the next index, and whether internal_error was called.

\* One interface method N of class C.
IndexImpl(st, c, n) ==
  LET m == MethodImpl(c, n) IN
  IF m = None THEN [st EXCEPT !.ok = FALSE]
  ELSE [st EXCEPT !.index[m] = st.next, !.count = @ \cup {m}, !.next = @ + 1]

create_virtual_methods_indices_for_interfaces(st, c) ==
  FoldLeft(LAMBDA s, i : FoldLeft(LAMBDA t, n : IndexImpl(t, c, n), s, prog.names[i]),
           st, prog.lists[c])

\* One virtual method of a class.
IndexMethod(st, m) ==
  IF m \in st.count THEN st
  ELSE IF MemberBase(m) # None
  THEN [st EXCEPT !.index[m] = st.index[MemberBase(m)], !.count = @ \cup {m}]
  ELSE [st EXCEPT !.index[m] = st.next, !.count = @ \cup {m}, !.next = @ + 1]

\* Faulty form, for mutation: the counts are left.
set_method_indices_to_invalid_Not(st, c) == st

set_method_indices_to_invalid(st, c) ==
  [st EXCEPT !.count = {m \in @ : m[1] # c}]

\* One class of the hierarchy.
IndexClass(st, c) ==
  set_method_indices_to_invalid(
    FoldLeft(LAMBDA s, n : IndexMethod(s, <<c, n>>),
             create_virtual_methods_indices_for_interfaces(st, c), prog.names[c]), c)

\* Faulty form, for mutation: a class before its bases.
create_virtual_methods_indices_OwnFirst(c) ==
  FoldLeft(IndexClass, [index |-> index, count |-> count, next |-> 0, ok |-> TRUE],
           Reverse(Lineage(c)))

\* The bases first, then the class.
create_virtual_methods_indices(c) ==
  FoldLeft(IndexClass, [index |-> index, count |-> count, next |-> 0, ok |-> TRUE],
           Lineage(c))

-----------------------------------------------------------------------------
(* Vtables *)

Fail == <<None>>

\* Faulty form, for mutation: a slot is added at the end.
add_vtable_slot_End(entries, i, m) == Append(entries, [index |-> i, method |-> m])

\* Behind the first entry, before the next one with a greater index.  An entry
\* with the same index is an internal error.
add_vtable_slot(entries, i, m) ==
  LET new == [index |-> i, method |-> m]
      after == {k \in 2..Len(entries) : entries[k].index >= i}
      k == CHOOSE k \in after : \A j \in after : k <= j
  IN  IF entries = <<>> THEN <<new>>
      ELSE IF after = {} THEN Append(entries, new)
      ELSE IF entries[k].index = i THEN Fail
      ELSE InsertAt(entries, k, new)

\* The entry at position I, which is an internal error if there is none.
change_vtable_slot(entries, i, m) ==
  IF i + 1 \in DOMAIN entries THEN [entries EXCEPT ![i + 1].method = m] ELSE Fail

\* One virtual method of a class.
EnterMethod(entries, idx, m) ==
  IF entries = Fail THEN Fail
  ELSE IF MemberBase(m) # None THEN change_vtable_slot(entries, idx[m], m)
  ELSE add_vtable_slot(entries, idx[m], m)

create_vtable_entries(c, idx) ==
  FoldLeft(LAMBDA e, d : FoldLeft(LAMBDA f, n : EnterMethod(f, idx, <<d, n>>),
                                  e, prog.names[d]),
           <<>>, Lineage(c))

-----------------------------------------------------------------------------
(* Actions *)

InitCompile ==
  /\ prog \in Programs
  /\ parsed = {}
  /\ index = [m \in Methods |-> 0]
  /\ count = {}
  /\ vtable = [c \in Classes |-> <<>>]
  /\ phase = "classes"

\* parse_class parses the listed interfaces, and the base, first.
Ready(t) ==
  /\ phase = "classes"
  /\ t \notin parsed
  /\ ToSet(prog.lists[t]) \subseteq parsed
  /\ t \in Classes => prog.base[t] \in parsed \cup {None}

parse_interface(i) ==
  /\ Ready(i)
  /\ parsed' = parsed \cup {i}
  /\ index' = [m \in Methods |->
                 IF m[1] = i
                 THEN (CHOOSE k \in DOMAIN prog.names[i] : prog.names[i][k] = m[2]) - 1
                 ELSE index[m]]
  /\ UNCHANGED <<prog, count, vtable, phase>>

parse_class(c) ==
  /\ Ready(c)
  /\ LET st == create_virtual_methods_indices(c)
         entries == create_vtable_entries(c, st.index)
     IN  IF st.ok /\ entries # Fail
         THEN /\ parsed' = parsed \cup {c}
              /\ index' = st.index
              /\ count' = st.count
              /\ vtable' = [vtable EXCEPT ![c] = entries]
              /\ UNCHANGED <<prog, phase>>
         ELSE phase' = "error" /\ UNCHANGED <<prog, parsed, index, count, vtable>>

\* From here on the methods are compiled, with the indices as they are.
parse_all_methods ==
  /\ phase = "classes" /\ parsed = Types
  /\ phase' = "methods"
  /\ UNCHANGED <<prog, parsed, index, count, vtable>>

Compile ==
  \/ \E i \in Interfaces : parse_interface(i)
  \/ \E c \in Classes : parse_class(c)
  \/ parse_all_methods

-----------------------------------------------------------------------------
(* Properties *)

\* State types.
CompileTypeOK ==
  /\ parsed \subseteq Types
  /\ index \in [Methods -> Nat]
  /\ count \subseteq Methods
  /\ \A c \in Classes : vtable[c] \in Seq([index : Nat, method : Methods])
  /\ phase \in {"classes", "methods", "error"}

\* The method a virtual call of M finds in an object of class C.
VirtualTarget(c, m) ==
  IF index[m] + 1 \in DOMAIN vtable[c] THEN vtable[c][index[m] + 1].method ELSE None

\* The method that make_virtual_method_call finds at method->index in the vtable
\* of an object is the override nearest to the object's class: for every class,
\* although the vtable was built when other indices may have been in place.
VirtualCallRight ==
  phase = "methods" =>
    \A c \in Classes : \A m \in Methods :
      m[1] \in ToSet(Lineage(c)) =>
        VirtualTarget(c, m) = <<LastIn(Lineage(c), Declaring(m[2])), m[2]>>

\* create_virtual_methods_indices recomputes the indices of the bases of a class,
\* and arrives at those that the vtables made before were built with.
IndicesStable ==
  [][\A m \in Methods : m[1] \in parsed => index'[m] = index[m]]_compileVars

\* In a plain program none of the internal errors of add_vtable_slot,
\* change_vtable_slot and create_virtual_methods_indices_for_interfaces is
\* reached, whatever the order of parsing: the slots looked for are where the
\* indices say, with the names expected.  Outside PlainAssumption that of
\* change_vtable_slot is: a class that implements a method of an interface by
\* overriding one of its base class reaches it.
NoInternalError == phase # "error"

=============================================================================
