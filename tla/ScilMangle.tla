----------------------------- MODULE ScilMangle -----------------------------
(***************************************************************************)
(* Registration and names in the SCIL front end: the trees of assemblies,  *)
(* namespaces and classes, which are found again by their dotted names     *)
(* (scil-class.c, as scil-pnet.c calls it), those of methods, which are    *)
(* found again by name and types (scil-method.c), and the assembler names  *)
(* made from both, with compression of what was written before             *)
(* (scil-mangle.c).  Labels are found again by such a name, too.           *)
(*                                                                         *)
(* An identifier is the sequence of its parts between dots.  A mangled     *)
(* name is a sequence of tokens: a chunk, "%d%s" of its length and itself, *)
(* is one token, which is exact for chunks that do not begin with a digit. *)
(***************************************************************************)
EXTENDS Naturals, Sequences, SequencesExt, FiniteSets, FiniteSetsExt

CONSTANTS
  ILClasses,
  AssemblyName,  \* [ILClasses -> an identifier]
  Namespace,     \* [ILClasses -> the parts of the namespace]
  ClassName,     \* [ILClasses -> a part]
  NestedParent,  \* [ILClasses -> ILClasses, or NoClass]
  ValueTypes,    \* the classes that are value types
  Primitives,
  native_type_trees, \* [Primitives -> the chunk of the built-in type]
  ILMethods,     \* records: owner, name, static, params, result, varargs
  ILFields,      \* static fields, records: owner, name
  Labels,
  DigitNames,    \* the names that begin with a digit
  MaxNames,      \* how many names are made
  NoClass

VARIABLES
  path,    \* SCIL_DECL of assemblies, namespaces and classes:
           \* [identifier -> the trees that contain it, outermost first, and itself]
  decls,   \* methods, static fields, vtables and labels with their names
  tree,    \* get_tree: [the methods registered -> the method tree]
  compression_stack,
  status   \* ok; crashed

vars == <<path, decls, tree, compression_stack, status>>

-----------------------------------------------------------------------------
(* Trees of classes *)

\* The identifiers register_class asks for, outermost first: assembly, each part
\* of the namespace, the classes C is nested in, C.
Requested[c \in ILClasses] ==
  IF NestedParent[c] # NoClass
  THEN LET outer == Requested[NestedParent[c]]
       IN  Append(outer, Append(Last(outer), ClassName[c]))
  ELSE LET a == AssemblyName[c]
           n == Namespace[c]
       IN  Append([k \in 1..(Len(n) + 1) |-> a \o SubSeq(n, 1, k - 1)],
                  a \o n \o <<ClassName[c]>>)
ClassId(c) == Last(Requested[c])

\* What a class file says of a class: an assembly name and a class name, at least,
\* and nesting that ends.  No assembly is called as the model calls the trees that
\* are no classes: Builtin and MemberNode below.
ASSUME ClassesAssumption ==
  /\ IsFiniteSet(ILClasses) /\ NoClass \notin ILClasses
  /\ NestedParent \in [ILClasses -> ILClasses \cup {NoClass}]
  /\ \E depth \in [ILClasses -> 0..Cardinality(ILClasses)] :
       \A c \in ILClasses : NestedParent[c] # NoClass => depth[NestedParent[c]] < depth[c]
  /\ \A c \in ILClasses :
       /\ AssemblyName[c] \in Seq(STRING) \ {<<>>, <<"member">>}
       /\ AssemblyName[c][1] # "builtin"
       /\ Namespace[c] \in Seq(STRING) /\ ClassName[c] \in STRING

\* Members have names, none the one written for .cctor, and types of the program.
ASSUME MembersAssumption ==
  /\ \A m \in ILMethods :
       /\ m.owner \in ILClasses /\ m.name \in STRING \ {"cctor$"}
       /\ m.params \in Seq(ILClasses \cup Primitives)
       /\ m.result \in ILClasses \cup Primitives
  /\ \A f \in ILFields : f.owner \in ILClasses /\ f.name \in STRING \ {"cctor$"}
  /\ Labels \subseteq STRING

\* Nothing that is written as a chunk begins with a digit, so that its length
\* can be told from it.  Identifiers of C# do not, but CIL allows such names, an
\* assembly may have one, and the code does not look: assembly 1x with class C in namespace n...n of 18 letters has the name
\* of assembly x18n...n with class C.
ASSUME ChunksAssumption ==
  /\ \A c \in ILClasses :
       ({AssemblyName[c][1], ClassName[c]} \cup ToSet(Namespace[c])) \cap DigitNames = {}
  /\ \A x \in ILMethods \cup ILFields : x.name \notin DigitNames
  /\ Labels \cap DigitNames = {}

\* Dots in the names of assemblies make no class known by two ways.  The code does
\* not see to this: class X of assembly A.N and class X in namespace N of assembly A
\* have one dotted name, and get one tree.
ASSUME NamesAssumption ==
  /\ MaxNames \in Nat
  /\ \A c, d \in ILClasses :
       \A i \in DOMAIN Requested[c], j \in DOMAIN Requested[d] :
         Requested[c][i] = Requested[d][j]
           => SubSeq(Requested[c], 1, i) = SubSeq(Requested[d], 1, j)

\* Faulty form, for mutation: the container is not set.
Made_NoContext(p, container, id) ==
  [x \in DOMAIN p \cup {id} |-> IF x = id THEN <<id>> ELSE p[x]]

\* A new tree in its container; <<>> for an assembly.
Made(p, container, id) ==
  [x \in DOMAIN p \cup {id} |->
     IF x # id THEN p[x] ELSE IF container = <<>> THEN <<id>> ELSE Append(p[container], id)]

\* register_class: what SCIL_DECL knows is used, the rest is made.
register_class(p, c) ==
  LET ids == Requested[c]
      step(q, k) == IF ids[k] \in DOMAIN q THEN q
                    ELSE Made(q, IF k = 1 THEN <<>> ELSE ids[k - 1], ids[k])
  IN  FoldLeft(step, p, [k \in DOMAIN ids |-> k])

-----------------------------------------------------------------------------
(* Types *)

Builtin(chunk) == <<"builtin", chunk>>

\* get_var_type_tree: classes other than value types are pointers.
get_var_type_tree(t) ==
  [pointer |-> t \in ILClasses \ ValueTypes,
   node |-> IF t \in Primitives THEN Builtin(native_type_trees[t]) ELSE ClassId(t)]

MethodTree(m) ==
  [kind |-> "method", owner |-> ClassId(m.owner), name |-> m.name, static |-> m.static,
   params |-> [k \in DOMAIN m.params |-> get_var_type_tree(m.params[k])],
   result |-> get_var_type_tree(m.result)]

\* TYPE_ARG_TYPES, with the implicit argument of instance methods.
ArgTypes(d) ==
  IF d.static THEN d.params ELSE <<[pointer |-> TRUE, node |-> d.owner]>> \o d.params

types_equal_p(d, e) == d.result = e.result /\ ArgTypes(d) = ArgTypes(e)

-----------------------------------------------------------------------------
(* Mangling *)

\* What is being written: the tokens and the compression stack.
Writer(prefix, stack) == [out |-> <<prefix>>, stack |-> stack]
Write(w, tokens) == [w EXCEPT !.out = @ \o tokens]

\* A tree of the stack is known by its identifier.
MemberNode == <<"member">>
Compressible(node) == node[1] # "builtin"

\* make_chunk: length and unqualified name, that of an assembly with its dots, as
\* one token (see ChunksAssumption).
Chunk(nodes, k) ==
  IF nodes[k][1] = "builtin" THEN nodes[k]
  ELSE <<"chunk", IF k = 1 THEN nodes[k] ELSE <<Last(nodes[k])>> >>

\* Faulty form, for mutation: trees are compared by their unqualified names.
get_compression_id_ByName(stack, node) == SelectInSeq(stack, LAMBDA t : Last(t) = Last(node))

\* Where NODE is on the stack, 0 if it is not.
get_compression_id(stack, node) == SelectInSeq(stack, LAMBDA t : t = node)

\* NODES are a tree and its containers, CHUNKS what is written for each.  The
\* innermost that is on the stack stands for itself and its containers.
write_chunk_or_compression(w, nodes, chunks) ==
  LET n == Len(nodes)
      k == Max({0} \cup {i \in 1..n : Compressible(nodes[i]) /\ get_compression_id(w.stack, nodes[i]) > 0})
      start == IF k = 0 THEN <<>> ELSE <<<<"S", get_compression_id(w.stack, nodes[k])>>>>
      rest == SubSeq(chunks, k + 1, n)
  IN  [out |-> w.out \o (IF k = n THEN start
                         ELSE IF n = 1 THEN rest
                         ELSE <<<<"N">>>> \o start \o rest \o <<<<"E">>>>),
       stack |-> w.stack \o SelectSeq(SubSeq(nodes, k + 1, n), Compressible)]

Chunks(nodes) == [k \in DOMAIN nodes |-> Chunk(nodes, k)]

write_type(w, p, t) ==
  LET nodes == IF Compressible(t.node) THEN p[t.node] ELSE <<t.node>>
  IN  write_chunk_or_compression(IF t.pointer THEN Write(w, <<<<"P">>>>) ELSE w,
                                 nodes, Chunks(nodes))

write_method_type(w, p, params) ==
  IF params = <<>> THEN Write(w, <<<<"v">>>>)
  ELSE FoldLeft(LAMBDA x, t : write_type(x, p, t), w, params)

MemberChunk(name) ==
  CASE name = ".ctor" -> <<"C1">>
    [] name = ".cctor" -> <<"chunk", <<"cctor$">> >>
    [] OTHER -> <<"chunk", <<name>> >>

write_member(w, p, owner, name) ==
  write_chunk_or_compression(w, Append(p[owner], MemberNode),
                             Append(Chunks(p[owner]), MemberChunk(name)))

write_method(w, p, d) == write_method_type(write_member(w, p, d.owner, d.name), p, d.params)

\* The names of the four kinds, P being the trees of the classes.
Mangled(p, stack, d) ==
  CASE d.kind = "method" -> write_method(Writer("_Z", stack), p, d)
    [] d.kind = "field"  -> write_member(Writer("_Z", stack), p, d.owner, d.name)
    [] d.kind = "vtable" -> write_chunk_or_compression(Writer("_ZTV", stack), p[d.owner],
                                                       Chunks(p[d.owner]))
    [] d.kind = "label"  -> Write(write_method(Writer("_ZZ", stack), p, d.method),
                                  <<<<"chunk", <<d.name>> >>, <<"E">>>>)

\* Faulty form, for mutation: the compression stack is not cleaned up.
complete_mangling_Keeps(w) == w.stack

\* What complete_mangling leaves on the compression stack.
complete_mangling(w) == <<>>

-----------------------------------------------------------------------------
(* Operations *)

Init ==
  /\ path = [id \in {} |-> <<>>]
  /\ decls = {}
  /\ tree = [m \in {} |-> <<>>]
  /\ compression_stack = <<>>
  /\ status = "ok"

\* A name is made for D.
MakeName(p, d) ==
  LET w == Mangled(p, compression_stack, d)
  IN  /\ Cardinality(decls) < MaxNames
      /\ decls' = decls \cup {[decl |-> d, assembler_name |-> w.out]}
      /\ compression_stack' = complete_mangling(w)

\* The classes a method type refers to are registered first.
WithTypes(p, m) ==
  FoldLeft(LAMBDA q, t : IF t \in ILClasses THEN register_class(q, t) ELSE q,
           register_class(p, m.owner), <<m.result>> \o m.params)

\* A list of arguments that no void ends is read beyond its end.
register_method(m) ==
  LET p == WithTypes(path, m)
      d == MethodTree(m)
      same == {e \in decls : /\ e.decl.kind = "method" /\ e.decl.owner = d.owner
                             /\ e.decl.name = d.name /\ types_equal_p(e.decl, d)}
  IN
  /\ status = "ok" /\ m \notin DOMAIN tree
  /\ path' = p
  /\ \/ /\ m.varargs
        /\ status' = "crashed"
        /\ UNCHANGED <<decls, tree, compression_stack>>
     \/ /\ ~m.varargs /\ same # {}
        /\ \E e \in same : tree' = [x \in DOMAIN tree \cup {m} |-> IF x = m THEN e.decl ELSE tree[x]]
        /\ UNCHANGED <<decls, compression_stack, status>>
     \/ /\ ~m.varargs /\ same = {}
        /\ MakeName(p, d)
        /\ tree' = [x \in DOMAIN tree \cup {m} |-> IF x = m THEN d ELSE tree[x]]
        /\ UNCHANGED status

NotMade(d) == \A e \in decls : e.decl # d

register_static_field(f) ==
  LET p == register_class(path, f.owner)
      d == [kind |-> "field", owner |-> ClassId(f.owner), name |-> f.name]
  IN  /\ status = "ok" /\ NotMade(d)
      /\ path' = p
      /\ MakeName(p, d)
      /\ UNCHANGED <<tree, status>>

make_vtable(c) ==
  LET p == register_class(path, c)
      d == [kind |-> "vtable", owner |-> ClassId(c)]
  IN  /\ status = "ok" /\ NotMade(d)
      /\ path' = p
      /\ MakeName(p, d)
      /\ UNCHANGED <<tree, status>>

\* A label is made for the method that first asks for its name.
get_label(m, l) ==
  LET d == [kind |-> "label", method |-> tree[m], name |-> l]
      w == Mangled(path, compression_stack, d)
  IN  /\ status = "ok" /\ m \in DOMAIN tree
      /\ \A e \in decls : e.assembler_name # w.out
      /\ MakeName(path, d)
      /\ UNCHANGED <<path, tree, status>>

Next ==
  \/ \E m \in ILMethods : register_method(m)
  \/ \E f \in ILFields : register_static_field(f)
  \/ \E c \in ILClasses : make_vtable(c)
  \/ \E m \in DOMAIN tree, l \in Labels : get_label(m, l)

Spec == Init /\ [][Next]_vars

-----------------------------------------------------------------------------
(* Properties *)

\* State types: the containers of a tree are those its class file names, where dotted
\* names do not clash (NamesAssumption).
TypeOK ==
  /\ \A id \in DOMAIN path :
       /\ Last(path[id]) = id /\ ToSet(path[id]) \subseteq DOMAIN path
       /\ \E c \in ILClasses : IsPrefix(path[id], Requested[c])
  /\ DOMAIN tree \subseteq ILMethods
  /\ \A m \in DOMAIN tree : \E e \in decls : e.decl = tree[m]
  /\ status \in {"ok", "crashed"}

SameButForResult(d, e) ==
  /\ d.kind = "method" /\ e.kind = "method"
  /\ d.owner = e.owner /\ d.name = e.name /\ d.params = e.params

\* No two trees get the same assembler name, whatever is compressed in it: overloads,
\* methods of equally named classes, constructors, fields, vtables and labels.  Names
\* that begin with a digit are left out (ChunksAssumption).
\* The result and the kind of a method are not written: overloads that differ in nothing
\* else (conversion operators) have one name, and one set of labels.
NamesDistinct ==
  \A d, e \in decls :
    d.assembler_name = e.assembler_name => d = e \/ SameButForResult(d.decl, e.decl)

\* A name does not depend on what was named before it: the same class compiled into
\* another program, from another entry point, links.
NamesFixed ==
  \A d \in decls : d.assembler_name = Mangled(path, <<>>, d.decl).out

\* "in order to cope with overloaded method names": every method has a tree of its own.
OverloadsKeptApart ==
  \A m, n \in DOMAIN tree : tree[m] = tree[n] => m = n

=============================================================================
