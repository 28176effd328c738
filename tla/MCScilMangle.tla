---------------------------- MODULE MCScilMangle ----------------------------
(***************************************************************************)
(* Instances of ScilMangle: an assembly with two equally named classes,    *)
(* one nested in the other's neighbour, and an assembly with a dotted name *)
(* that repeats a class name.                                              *)
(***************************************************************************)
EXTENDS ScilMangle

CONSTANTS x, y, inner, other

MCAssembly == [c \in ILClasses |-> IF c = other THEN <<"M", "A">> ELSE <<"A">>]
MCNamespace == [c \in ILClasses |-> IF c = other THEN <<>> ELSE <<"N">>]
MCClassName == [c \in ILClasses |->
                  CASE c = x -> "X" [] c = y -> "Y" [] c = inner -> "Y" [] c = other -> "X"]
MCNestedParent == [c \in ILClasses |-> IF c = inner THEN x ELSE NoClass]
MCNative == [t \in Primitives |-> IF t = "bool" THEN "b" ELSE "l"]

Method(o, n, s, ps, r) ==
  [owner |-> o, name |-> n, static |-> s, params |-> ps, result |-> r, varargs |-> FALSE]
\* Parameters that repeat each other's containers, names and types.
Types == {"int32", x, y, inner}
Lists == {<<>>} \cup {<<t>> : t \in Types} \cup {<<t, u>> : t \in {"int32", y}, u \in Types}
MCMethods ==
  {Method(o, "f", FALSE, ps, "int32") : o \in {x, inner}, ps \in Lists}
    \cup {Method(x, ".ctor", FALSE, ps, "int32") : ps \in {<<>>, <<x>>, <<other, other>>}}
    \cup {Method(x, ".cctor", TRUE, <<>>, "int32"), Method(x, "f", FALSE, <<>>, "bool"),
          Method(other, "f", TRUE, <<y>>, "int32"), Method(x, "f", FALSE, <<"nativeint">>, "int32"),
          [Method(y, "g", TRUE, <<"int32">>, "int32") EXCEPT !.varargs = TRUE]}
MCFields == {[owner |-> x, name |-> "f"], [owner |-> inner, name |-> "v"]}
TwoOverloads == {Method(x, "f", FALSE, <<>>, "int32"), Method(x, "f", TRUE, <<x>>, "int32")}

=============================================================================
