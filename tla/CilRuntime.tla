----------------------------- MODULE CilRuntime -----------------------------
(***************************************************************************)
(* The run-time system of the CIL front end (libruntime/libruntime.c) under *)
(* a program compiled by CilVtables.  newobj initialises classes when they *)
(* are first used: interfaces get their ids, a class the offsets of its    *)
(* interfaces in its vtable, and a copy of the vtable that is preceded by  *)
(* the addresses of these parts.  An interface call reads the address at   *)
(* the id of the interface and the method at its index.                    *)
(***************************************************************************)
EXTENDS CilVtables

CONSTANTS
  MaxId    \* the greatest interface id; 1000 in make_mono_class

ASSUME IdAssumption ==
  /\ IsFiniteSet(Interfaces) /\ MaxId \in Nat /\ Cardinality(Interfaces) <= MaxId + 1

VARIABLES
  inited,    \* the types with MonoClass.inited
  iid,       \* interface_id of each interface, 0 before it is initialised
  nextId,    \* the static variable of get_next_interface_id
  offsets,   \* interface_offsets of each class, by id
  made,      \* the classes whose runtime_info holds the copied vtable
  objects    \* the objects, as class and whether their vtable is the copied one

runVars == <<inited, iid, nextId, offsets, made, objects>>
vars == <<compileVars, runVars>>

Init ==
  /\ InitCompile
  /\ inited = {}
  /\ iid = [i \in Interfaces |-> 0]
  /\ nextId = 0
  /\ offsets = [c \in Classes |-> <<>>]
  /\ made = {}
  /\ objects = {}

-----------------------------------------------------------------------------

\* get_implemented_interfaces.  make_intf_mono_class leaves the interface_count of
\* an interface zero, so the recursion ends at the interfaces the class lists.
Implemented(c) == prog.lists[c]

\* init_interface, for an interface that has not been initialised.
init_interface(st, i) ==
  IF i \in st.inited THEN st
  ELSE [st EXCEPT !.iid[i] = st.nextId, !.nextId = @ + 1, !.inited = @ \cup {i}]

\* The number of slots of the interfaces before the Kth of S.
SlotsBefore(s, k) == FoldLeft(LAMBDA n, i : n + Len(prog.names[i]), 0, SubSeq(s, 1, k - 1))

\* Faulty form, for mutation: the slots of the base are not skipped.
FirstSlot_Zero(c) == 0

\* The first slot of C itself: the vtable_size of its parent.
FirstSlot(c) == IF prog.base[c] = None THEN 0 ELSE Len(vtable[prog.base[c]])

\* The offset of the interface I that C lists.
OwnOffset(c, i) ==
  FirstSlot(c) + SlotsBefore(Implemented(c), CHOOSE k \in DOMAIN Implemented(c) : Implemented(c)[k] = i)

\* The offset at id N that C has from its parent.
ParentOffset(st, c, n) ==
  LET p == prog.base[c] IN
  IF p # None /\ \E i \in ToSet(Implemented(p)) : st.iid[i] = n
  THEN st.offsets[p][n] ELSE -1

\* setup_interface_offsets.  Every class has interface_id MaxId, which makes
\* this the size of the array.
setup_interface_offsets(st, c) ==
  LET s == FoldLeft(init_interface, st, Implemented(c)) IN
  [s EXCEPT !.offsets[c] =
     [n \in 0..MaxId |->
        IF \E i \in ToSet(Implemented(c)) : s.iid[i] = n
        THEN OwnOffset(c, CHOOSE i \in ToSet(Implemented(c)) : s.iid[i] = n)
        ELSE ParentOffset(s, c, n)]]

\* Faulty form, for mutation: the class is not marked.
InitOne_Unmarked(st, c) ==
  IF c \in st.inited THEN st ELSE setup_interface_offsets(st, c)

\* One class of init_class, which starts with the parents.
InitOne(st, c) ==
  IF c \in st.inited THEN st
  ELSE [setup_interface_offsets(st, c) EXCEPT !.inited = @ \cup {c}]

init_class(c) ==
  FoldLeft(InitOne, [inited |-> inited, iid |-> iid, nextId |-> nextId, offsets |-> offsets],
           Lineage(c))

\* newobj: init_class and create_runtime_vtable, if C is not initialised; the
\* object's vtable is then what the class has.
newobj(c) ==
  /\ phase = "methods"
  /\ LET st == init_class(c) IN
     /\ inited' = st.inited
     /\ iid' = st.iid
     /\ nextId' = st.nextId
     /\ offsets' = st.offsets
  /\ made' = IF c \in inited THEN made ELSE made \cup {c}
  /\ objects' = objects \cup {[class |-> c, copied |-> c \in made']}
  /\ UNCHANGED compileVars

Next ==
  \/ Compile /\ UNCHANGED runVars
  \/ \E c \in Classes : newobj(c)

Spec == Init /\ [][Next]_vars

-----------------------------------------------------------------------------
(* Properties *)

\* State types.
TypeOK ==
  /\ CompileTypeOK
  /\ inited \subseteq Types
  /\ iid \in [Interfaces -> 0..MaxId]
  /\ nextId \in 0..(MaxId + 1)
  /\ \A c \in Classes : offsets[c] \in (IF c \in inited THEN [0..MaxId -> Int] ELSE {<<>>})
  /\ made \subseteq inited
  /\ objects \subseteq [class : Classes, copied : BOOLEAN]

\* What create_intf_method_ptr finds in object O for method N of interface I: a
\* method, or None where it reads what is no entry of a vtable.
InterfaceTarget(o, i, n) ==
  IF ~o.copied THEN None
  ELSE LET start == offsets[o.class][iid[i]]
           slot == start + index[<<i, n>>]
       IN  IF start # -1 /\ slot + 1 \in DOMAIN vtable[o.class]
           THEN vtable[o.class][slot + 1].method ELSE None

\* The interfaces that the class of an object or its base lists.
Provided(c) ==
  ToSet(prog.lists[c]) \cup (IF prog.base[c] = None THEN {} ELSE ToSet(prog.lists[prog.base[c]]))

\* A call of every method of the interfaces S finds the class's implementation.
CallsRight(o, S) ==
  \A i \in S : \A n \in ToSet(prog.names[i]) :
    InterfaceTarget(o, i, n) = MethodImpl(o.class, n)

\* An interface call finds the class's implementation, in whatever order classes
\* were parsed and initialised and interfaces numbered, if the object's class
\* has its copied vtable.
InterfaceCallRight == \A o \in objects : o.copied => CallsRight(o, Provided(o.class))

=============================================================================
