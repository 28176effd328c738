---------------------------- MODULE MCCralDriver ----------------------------
(***************************************************************************)
(* Instances of CralDriver: a hierarchy Object <- B <- D with virtual      *)
(* methods, a class S of static members with a class constructor and a     *)
(* second one T, a value type and a static delegate.                       *)
(***************************************************************************)
EXTENDS CralDriver

CONSTANTS
  Object, B, D, S, T, V, G,                            \* classes
  ToString, Bctor, Bf, Bg, Dctor, Dg, Dn, Main, Scctor, Tcctor, Vctor, Invoke, \* methods
  Sx, Sy, Tx                                           \* static fields

MCOwnerOf(m) ==
  CASE m = ToString -> Object
    [] m \in {Bctor, Bf, Bg} -> B
    [] m \in {Dctor, Dg, Dn} -> D
    [] m \in {Main, Scctor, Sx, Sy} -> S
    [] m \in {Tcctor, Tx} -> T
    [] m = Vctor -> V
    [] OTHER -> G
MCOwner == [m \in Members |-> MCOwnerOf(m)]
MCBaseOf(c) == CASE c = D -> B [] c \in {B, S, T, V, G} -> Object [] OTHER -> None
MCBase == [c \in Classes |-> MCBaseOf(c)]
MCLineage == [c \in Classes |-> IF c = D THEN {Object, B, D} ELSE {Object, c}]
MCVirtuals == [c \in Classes |->
                 CASE c = Object /\ ToString \in Methods -> <<ToString>>
                   [] c = B -> <<Bg, Bf>> [] c = D -> <<Dn, Dg>> [] OTHER -> <<>>]
MCOverridden == [m \in Methods |->
                   CASE m = Bg -> ToString [] m = Dg -> Bg [] OTHER -> None]
MCNewVirtuals == [c \in Classes |-> SelectSeq(MCVirtuals[c], LAMBDA m : MCOverridden[m] = None)]
MCRoot == [m \in Methods |-> IF m \in {Bg, Dg} THEN ToString ELSE m]
MCCctor == [c \in Classes |-> CASE c = S -> Scctor [] c = T -> Tcctor [] OTHER -> None]

\* The class hierarchy.
VirtualClasses == {Object, B, D, S}
VirtualProgram == {ToString, Bf, Bg, Dctor, Dg, Dn, Main}
\* Static members, a value type and a delegate.
StaticClasses == {Object, S, T, V, G}
StaticProgram == {Main, Scctor, Tcctor, Vctor, Invoke}
MCCtors == Methods \cap {Bctor, Dctor, Vctor}
NoCctor == [c \in Classes |-> None]

=============================================================================
