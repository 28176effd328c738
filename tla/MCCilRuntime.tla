---------------------------- MODULE MCCilRuntime ----------------------------
(***************************************************************************)
(* Instances of CilRuntime: Object, a class E, its child F and a class H   *)
(* that is a child of E or of F, with two interfaces, IA with one method   *)
(* and ID with two, as in gcc/cil/test/test_interfaces.cs.                 *)
(***************************************************************************)
EXTENDS CilRuntime, FiniteSets

CONSTANTS
  Object, E, F, H, IA, ID,             \* types
  obj, ia, id1, id2, ve, vf       \* method names

MCNames(i) == CASE i = IA -> <<ia>> [] OTHER -> <<id1, id2>>
NamesIn(ifaces) == UNION {ToSet(MCNames(i)) : i \in ToSet(ifaces)}
Orders(S) == {s \in [1..Cardinality(S) -> S] : IsInjective(s)}
Lists == UNION {Orders(S) : S \in SUBSET Interfaces}

\* Programs in which a class implements each interface it lists by new methods
\* of its own: no class lists an interface of its bases; F overrides E's ve and
\* adds vf, H overrides what it inherits of these.
PlainProgram(h, le, lf, lh, ne, nf) ==
  [base |-> (Object :> None @@ E :> Object @@ F :> E @@ H :> h),
   lists |-> (Object :> <<>> @@ E :> le @@ F :> lf @@ H :> lh @@ IA :> <<>> @@ ID :> <<>>),
   names |-> (Object :> <<obj>> @@ E :> ne @@ F :> nf
              @@ H :> SetToSeq(NamesIn(lh) \cup (IF h = F THEN {ve, vf} ELSE {ve}))
              @@ IA :> MCNames(IA) @@ ID :> MCNames(ID)),
   newslot |-> {<<Object, obj>>, <<E, ve>>, <<F, vf>>}
               \cup ({E} \X NamesIn(le)) \cup ({F} \X NamesIn(lf)) \cup ({H} \X NamesIn(lh))]

Disjoint(s, t) == ToSet(s) \cap ToSet(t) = {}

PlainPrograms ==
  UNION {UNION {UNION {
    {PlainProgram(h, le, lf, lh, ne, nf) :
       h \in IF Disjoint(lh, lf) THEN {E, F} ELSE {E},
       ne \in Orders(NamesIn(le) \cup {ve}),
       nf \in Orders(NamesIn(lf) \cup {vf, ve})}
    : lh \in {l \in Lists : Disjoint(l, le)}}
    : lf \in {l \in Lists : Disjoint(l, le)}}
    : le \in Lists}

MCClasses == {Object, E, F, H}
MCInterfaces == {IA, ID}

=============================================================================
