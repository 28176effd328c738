-------------------------- MODULE CilRuntime_proofs --------------------------
(***************************************************************************)
(* For every program of plain classes, with any number of classes,         *)
(* interfaces and methods, in whatever order its types are parsed and its  *)
(* classes first used: no internal error is reached, the indices of what   *)
(* is parsed never change, a virtual call finds the override nearest to    *)
(* the class of the object, and an interface call finds the implementation *)
(* of the class.                                                           *)
(*                                                                         *)
(* The number that a method gets is a function of the program: Low, the    *)
(* size of the base's table, and behind it the methods of the interfaces   *)
(* in the order of the list and the other new slots in the order of their  *)
(* declaration (Numbered); an override has the number of what it           *)
(* overrides.  Two numberings of a hierarchy are the same (NumbersUnique), *)
(* which is why numbering the bases anew for each class does no harm.  The *)
(* numbers of the new slots of a class are consecutive (NumberIs), so      *)
(* sorting the entries by index, as add_vtable_slot does, puts the method  *)
(* with number i at place i (Dense), where change_vtable_slot and the      *)
(* calls look for it.  The run-time system counts the same slots again     *)
(* when it lays out the interfaces (SlotsBeforeIs).                        *)
(*                                                                         *)
(* The recursion along the bases is by their depth (ClassInduction), and   *)
(* FoldLeft by the lemmas on the folds below.                              *)
(***************************************************************************)
EXTENDS CilRuntime, NaturalLemmas, SequenceTheorems, TLAPS

-----------------------------------------------------------------------------
(* Classes and their bases                                                   *)

\* Bases end: what holds of a class if it holds of its base holds of all classes.
LEMMA ClassInduction ==
  ASSUME NEW p \in Programs, NEW S,
         \A c \in Classes : (p.base[c] = None \/ p.base[c] \in S) => c \in S
  PROVE  Classes \subseteq S
  <1>1. PICK depth \in [Classes -> 0..Cardinality(Classes)] :
          \A c \in Classes : p.base[c] # None => depth[p.base[c]] < depth[c]
    BY ProgramAssumption
  <1>2. \A c \in Classes : depth[c] \in Nat /\ p.base[c] \in Classes \cup {None}
    BY ProgramAssumption, FS_CardinalityType
  <1> DEFINE Bad == {n \in Nat : \E c \in Classes : depth[c] = n /\ c \notin S}
  <1>3. Bad = {}
    <2> SUFFICES ASSUME Bad # {} PROVE FALSE
      OBVIOUS
    <2>1. PICK n \in Bad : \A k \in Bad : n <= k
      BY Least
    <2>2. PICK c \in Classes : depth[c] = n /\ c \notin S
      BY <2>1
    <2>3. p.base[c] # None /\ p.base[c] \notin S /\ p.base[c] \in Classes
      BY <2>2, <1>2
    <2>4. depth[p.base[c]] \in Bad /\ depth[p.base[c]] < n
      BY <2>2, <2>3, <1>1, <1>2
    <2>5. depth[p.base[c]] \in Nat /\ n \in Nat
      BY <2>3, <1>2
    <2>. QED
      BY <2>1, <2>4, <2>5
  <1>. QED
    BY <1>2, <1>3

\* What is defined for a class from what its base has exists: A[c] for a class without a
\* base, G[c] of the base's for the others.
DownShape(p, X, a, G) ==
  \E f \in [Classes -> X] :
    \A c \in Classes : f[c] = IF p.base[c] = None THEN a[c] ELSE G[c][f[p.base[c]]]

\* It does: by the depth of the classes.
LEMMA DownExists ==
  ASSUME NEW p \in Programs, NEW X, NEW a \in [Classes -> X], NEW G \in [Classes -> [X -> X]]
  PROVE  DownShape(p, X, a, G)
  <1>1. PICK depth \in [Classes -> 0..Cardinality(Classes)] :
          \A c \in Classes : p.base[c] # None => depth[p.base[c]] < depth[c]
    BY ProgramAssumption
  <1> DEFINE N == Cardinality(Classes)
             U(f) == [c \in Classes |-> IF p.base[c] = None THEN a[c] ELSE G[c][f[p.base[c]]]]
             Good(f, m) == \A c \in Classes : depth[c] <= m => f[c] = U(f)[c]
             S == {m \in Nat : \E f \in [Classes -> X] : Good(f, m)}
  <1>2. N \in Nat /\ \A c \in Classes : depth[c] \in 0..N
    BY <1>1, ProgramAssumption, FS_CardinalityType
  <1>3. \A c \in Classes : p.base[c] # None => p.base[c] \in Classes
    BY ProgramAssumption
  <1>4. ASSUME NEW f \in [Classes -> X] PROVE U(f) \in [Classes -> X]
    BY <1>3
  <1>5. \A f : \A c \in Classes : U(f)[c] = IF p.base[c] = None THEN a[c] ELSE G[c][f[p.base[c]]]
    OBVIOUS
  <1> HIDE DEF U, N
  <1>6. 0 \in S
    <2>1. Good(a, 0)
      <3>1. ASSUME NEW c \in Classes, depth[c] <= 0 PROVE a[c] = U(a)[c]
        <4>1. p.base[c] = None
          BY <3>1, <1>1, <1>2, <1>3
        <4>. QED
          BY <4>1, <1>5
      <3>. QED
        BY <3>1
    <2>. QED
      BY <2>1
  <1>7. ASSUME NEW k \in 1..N, k - 1 \in S PROVE k \in S
    <2>1. PICK f \in [Classes -> X] : Good(f, k - 1)
      BY <1>7
    <2>2. PICK h \in [Classes -> X] : h = U(f)
      BY <1>4
    <2>3. \A c \in Classes : depth[c] <= k - 1 => h[c] = f[c]
      BY <2>1, <2>2
    <2>4. ASSUME NEW c \in Classes, depth[c] <= k PROVE h[c] = U(h)[c]
      <3>1. CASE p.base[c] = None
        BY <3>1, <2>2, <1>5
      <3>2. CASE p.base[c] # None
        <4> DEFINE b == p.base[c]
        <4>1. b \in Classes /\ depth[b] <= k - 1
          BY <3>2, <2>4, <1>1, <1>2, <1>3
        <4>2. h[b] = f[b]
          BY <4>1, <2>3
        <4>. QED
          BY <4>2, <2>2, <1>5
      <3>. QED
        BY <3>1, <3>2
    <2>5. Good(h, k)
      BY <2>4
    <2>. QED
      BY <2>2, <2>5, <1>2
  <1>8. N \in S
    <2> HIDE DEF S
    <2>1. \A k \in 0..N : k \in S
      BY <1>2, <1>6, <1>7, UpTo
    <2>. QED
      BY <2>1, <1>2
  <1>9. PICK f \in [Classes -> X] : Good(f, N)
    BY <1>8
  <1>10. \A c \in Classes : f[c] = U(f)[c]
    BY <1>9, <1>2
  <1>. QED
    BY <1>10, <1>5 DEF DownShape

\* The recursion of LineageOf has a solution.
LEMMA LineageIs ==
  ASSUME NEW p \in Programs, NEW c \in Classes
  PROVE  /\ LineageOf(p, c) \in Seq(Classes)
         /\ p.base[c] \in Classes \cup {None}
         /\ p.base[c] = None => LineageOf(p, c) = <<c>>
         /\ p.base[c] # None => /\ LineageOf(p, p.base[c]) \in Seq(Classes)
                                /\ LineageOf(p, c) = Append(LineageOf(p, p.base[c]), c)
  <1> DEFINE X == Seq(Classes)
             U(f) == [d \in Classes |-> IF p.base[d] = None THEN <<d>> ELSE Append(f[p.base[d]], d)]
             a == [d \in Classes |-> <<d>>]
             G == [d \in Classes |-> [s \in X |-> Append(s, d)]]
             up == CHOOSE f : f = U(f)
             S == {d \in Classes : up[d] \in X}
  <1>1. \A d \in Classes : LineageOf(p, d) = up[d]
    BY DEF LineageOf
  <1>2. \A d \in Classes : p.base[d] # None => p.base[d] \in Classes
    BY ProgramAssumption
  <1>3. \E f : f = U(f)
    <2>1. a \in [Classes -> X] /\ G \in [Classes -> [X -> X]]
      OBVIOUS
    <2>2. \A d \in Classes : \A s \in X : G[d][s] = Append(s, d)
      OBVIOUS
    <2>3. \A d \in Classes : a[d] = <<d>>
      OBVIOUS
    <2> HIDE DEF a, G, X
    <2>4. PICK f \in [Classes -> X] :
            \A d \in Classes : f[d] = IF p.base[d] = None THEN a[d] ELSE G[d][f[p.base[d]]]
      <3>1. DownShape(p, X, a, G)
        BY <2>1, DownExists
      <3>. QED
        BY ONLY <3>1 DEF DownShape
    <2>5. \A d \in Classes : p.base[d] # None => G[d][f[p.base[d]]] = Append(f[p.base[d]], d)
      BY <2>2, <1>2
    <2>6. f = U(f)
      <3>1. \A d \in Classes : f[d] = IF p.base[d] = None THEN <<d>> ELSE Append(f[p.base[d]], d)
        BY <2>3, <2>4, <2>5
      <3>2. f = [d \in Classes |-> f[d]]
        OBVIOUS
      <3>. QED
        BY <3>1, <3>2
    <2>. QED
      BY <2>6
  <1>4. up = U(up)
    <2> HIDE DEF U
    <2>. QED
      BY <1>3
  <1> HIDE DEF up
  <1>5. \A d \in Classes : up[d] = IF p.base[d] = None THEN <<d>> ELSE Append(up[p.base[d]], d)
    BY <1>4
  <1>6. Classes \subseteq S
    <2>1. ASSUME NEW d \in Classes, p.base[d] = None \/ p.base[d] \in S PROVE d \in S
      <3>1. <<d>> \in X
        OBVIOUS
      <3>2. p.base[d] # None => Append(up[p.base[d]], d) \in X
        BY <2>1
      <3>. QED
        BY <1>5, <3>1, <3>2
    <2> HIDE DEF S
    <2>. QED
      BY <2>1, ClassInduction
  <1>. QED
    BY <1>1, <1>2, <1>5, <1>6

\* A class and its bases.
Anc(p, c) == ToSet(LineageOf(p, c))

\* The members of a sequence that has one more.
AppendShape(s, x, t) == \A y : y \in ToSet(t) <=> y \in ToSet(s) \/ y = x

\* Append adds one member.
LEMMA ToSetAppend ==
  ASSUME NEW S, NEW s \in Seq(S), NEW x \in S, NEW t, t = Append(s, x)
  PROVE  AppendShape(s, x, t)
  <1>1. Append(s, x) \in Seq(S) /\ Len(Append(s, x)) = Len(s) + 1
        /\ Append(s, x)[Len(s) + 1] = x /\ \A k \in 1..Len(s) : Append(s, x)[k] = s[k]
    BY AppendProperties
  <1>2. DOMAIN t = 1..(Len(s) + 1) /\ DOMAIN s = 1..Len(s) /\ Len(s) \in Nat
    BY <1>1
  <1>3. ASSUME NEW y PROVE y \in ToSet(t) <=> y \in ToSet(s) \/ y = x
    <2>1. y \in ToSet(t) <=> \E k \in 1..(Len(s) + 1) : t[k] = y
      BY <1>2 DEF ToSet
    <2>2. y \in ToSet(s) <=> \E k \in 1..Len(s) : s[k] = y
      BY <1>2 DEF ToSet
    <2>3. \A k \in 1..(Len(s) + 1) : k = Len(s) + 1 \/ k \in 1..Len(s)
      BY <1>2
    <2>4. Len(s) + 1 \in 1..(Len(s) + 1) /\ \A k \in 1..Len(s) : k \in 1..(Len(s) + 1)
      BY <1>2
    <2>5. t[Len(s) + 1] = x /\ \A k \in 1..Len(s) : t[k] = s[k]
      BY <1>1
    <2>. QED
      BY ONLY <2>1, <2>2, <2>3, <2>4, <2>5
  <1>. QED
    BY <1>3 DEF AppendShape

\* They are the class and its base's.
LEMMA AncIs ==
  ASSUME NEW p \in Programs, NEW c \in Classes
  PROVE  /\ p.base[c] = None => Anc(p, c) = {c}
         /\ p.base[c] # None => p.base[c] \in Classes /\ Anc(p, c) = Anc(p, p.base[c]) \cup {c}
  <1>1. CASE p.base[c] = None
    <2>1. LineageOf(p, c) = <<c>>
      BY <1>1, LineageIs
    <2>. QED
      BY <1>1, <2>1 DEF Anc, ToSet
  <1>2. CASE p.base[c] # None
    <2> DEFINE s == LineageOf(p, p.base[c])
               t == LineageOf(p, c)
    <2>1. p.base[c] \in Classes /\ s \in Seq(Classes) /\ t = Append(s, c)
      BY <1>2, LineageIs
    <2>2. ToSet(t) = ToSet(s) \cup {c}
      <3> HIDE DEF s, t
      <3>1. AppendShape(s, c, t)
        BY <2>1, ToSetAppend
      <3>. QED
        BY ONLY <3>1 DEF AppendShape
    <2>. QED
      BY <1>2, <2>1, <2>2 DEF Anc
  <1>. QED
    BY <1>1, <1>2

\* No class is among the bases of its base; the bases of a base are bases.
AncShape(p, c) ==
  /\ c \in Anc(p, c) /\ Anc(p, c) \subseteq Classes
  /\ \A d \in Anc(p, c) : Anc(p, d) \subseteq Anc(p, c)
  /\ p.base[c] # None => c \notin Anc(p, p.base[c])

\* By the depth of the classes.
LEMMA AncFacts ==
  ASSUME NEW p \in Programs, NEW c \in Classes
  PROVE  AncShape(p, c)
  <1>1. PICK depth \in [Classes -> 0..Cardinality(Classes)] :
          \A d \in Classes : p.base[d] # None => depth[p.base[d]] < depth[d]
    BY ProgramAssumption
  <1>2. \A d \in Classes : depth[d] \in Nat
    BY <1>1, ProgramAssumption, FS_CardinalityType
  <1> DEFINE S == {d \in Classes : /\ d \in Anc(p, d) /\ Anc(p, d) \subseteq Classes
                                   /\ \A e \in Anc(p, d) : Anc(p, e) \subseteq Anc(p, d)
                                   /\ \A e \in Anc(p, d) : depth[e] <= depth[d]}
  <1>3. ASSUME NEW d \in Classes, p.base[d] = None \/ p.base[d] \in S PROVE d \in S
    <2>1. CASE p.base[d] = None
      <3>1. Anc(p, d) = {d}
        BY <2>1, AncIs
      <3>. QED
        BY <3>1, <1>2
    <2>2. CASE p.base[d] # None
      <3> DEFINE b == p.base[d]
      <3>1. b \in S /\ b \in Classes /\ Anc(p, d) = Anc(p, b) \cup {d}
        BY <2>2, <1>3, AncIs
      <3>2. depth[b] < depth[d] /\ depth[b] \in Nat /\ depth[d] \in Nat
        BY <2>2, <3>1, <1>1, <1>2
      <3> HIDE DEF b
      <3>3. \A e \in Anc(p, d) : depth[e] <= depth[d]
        BY <3>1, <3>2, <1>2
      <3>. QED
        BY <3>1, <3>3
    <2>. QED
      BY <2>1, <2>2
  <1>4. Classes \subseteq S
    <2> HIDE DEF S
    <2>. QED
      BY <1>3, ClassInduction
  <1>5. ASSUME p.base[c] # None PROVE c \notin Anc(p, p.base[c])
    <2> DEFINE b == p.base[c]
    <2>1. b \in Classes /\ depth[b] < depth[c]
      BY <1>5, <1>1, AncIs
    <2>2. \A e \in Anc(p, b) : depth[e] <= depth[b]
      BY <2>1, <1>4
    <2>3. depth[b] \in Nat /\ depth[c] \in Nat
      BY <2>1, <1>2
    <2>. QED
      BY <2>1, <2>2, <2>3
  <1>. QED
    BY <1>4, <1>5 DEF AncShape

-----------------------------------------------------------------------------
(* The folds of the two modules, step by step                                *)

\* The methods of one interface, of the class C.
IfaceNames(st, c, i) == FoldLeft(LAMBDA t, n : IndexImpl(t, c, n), st, prog.names[i])

\* The methods of one class D, entered into the table.
EnterClass(e, idx, d) == FoldLeft(LAMBDA f, n : EnterMethod(f, idx, <<d, n>>), e, prog.names[d])

\* The methods of an interface, one by one.
FoldImplShape(c, X, n, b, s) ==
  \E a \in [0..n -> X] :
    /\ a[0] = b /\ FoldLeft(LAMBDA x, e : IndexImpl(x, c, e), b, s) = a[n]
    /\ \A k \in 1..n : a[k] = IndexImpl(a[k - 1], c, s[k])

\* FoldLeft over the methods of an interface, step by step.
LEMMA FoldImpl ==
  ASSUME NEW c, NEW X, NEW b \in X, NEW n \in Nat, NEW s, DOMAIN s = 1..n,
         \A x \in X : \A k \in 1..n : IndexImpl(x, c, s[k]) \in X
  PROVE  FoldImplShape(c, X, n, b, s)
  <1> DEFINE D == SUBSET (1..n)
             F == [k \in 1..n |-> [x \in X |-> IndexImpl(x, c, s[k])]]
             U(g) == [t \in D |-> IF t = {} THEN b ELSE IndexImpl(g[t \ {Max(t)}], c, s[Max(t)])]
             It == LET iter[t \in SUBSET DOMAIN s] ==
                         IF t = {} THEN b
                         ELSE LET x == Max(t) IN IndexImpl(iter[t \ {x}], c, s[x])
                   IN  iter
  <1>0. SUBSET DOMAIN s = D
    OBVIOUS
  <1>1. FoldLeft(LAMBDA x, e : IndexImpl(x, c, e), b, s) = It[DOMAIN s] /\ It = CHOOSE g : g = U(g)
    BY <1>0 DEF FoldLeft, MapThenFoldSet
  <1>2. F \in [1..n -> [X -> X]] /\ \A k \in 1..n : \A x \in X : F[k][x] = IndexImpl(x, c, s[k])
    OBVIOUS
  <1> HIDE DEF F
  <1>3. PICK g \in [D -> X] :
          /\ g[{}] = b
          /\ \A t \in D :
               t # {} => /\ Max(t) \in 1..n /\ g[t \ {Max(t)}] \in X
                         /\ g[t] = F[Max(t)][g[t \ {Max(t)}]]
    <2>1. IterShape(n, X, b, F)
      BY <1>2, IterExists
    <2>. QED
      BY ONLY <2>1 DEF IterShape
  <1>4. g = U(g)
    BY <1>2, <1>3
  <1>5. It = U(It)
    <2> HIDE DEF It, U
    <2>. QED
      BY <1>1, <1>4
  <1> HIDE DEF It
  <1>6. /\ It[{}] = b
        /\ \A t \in D : t # {} => It[t] = IndexImpl(It[t \ {Max(t)}], c, s[Max(t)])
    BY <1>5
  <1>7. ASSUME NEW t \in D, t # {}, It[t \ {Max(t)}] \in X
        PROVE  It[t] = F[Max(t)][It[t \ {Max(t)}]]
    BY <1>2, <1>3, <1>6, <1>7
  <1>8. PICK a \in [0..n -> X] : a[0] = b /\ a[n] = It[1..n] /\ \A k \in 1..n : a[k] = F[k][a[k - 1]]
    <2>1. StepShape(n, X, b, F, It[1..n])
      <3> HIDE DEF D, U
      <3>1. \A t \in SUBSET (1..n) :
              t # {} /\ It[t \ {Max(t)}] \in X => It[t] = F[Max(t)][It[t \ {Max(t)}]]
        BY <1>7 DEF D
      <3>2. It[{}] = b
        BY <1>6
      <3>. QED
        BY ONLY n \in Nat, b \in X, <1>2, <3>1, <3>2, FoldSteps
    <2>. QED
      BY ONLY <2>1 DEF StepShape
  <1>9. \A k \in 1..n : a[k] = IndexImpl(a[k - 1], c, s[k])
    BY <1>2, <1>8
  <1>. QED
    <2>1. FoldLeft(LAMBDA x, e : IndexImpl(x, c, e), b, s) = a[n]
      BY <1>0, <1>1, <1>8
    <2>. QED
      BY ONLY <2>1, <1>8, <1>9 DEF FoldImplShape

\* The interfaces of a class, one by one.
FoldIfacesShape(c, X, n, b, s) ==
  \E a \in [0..n -> X] :
    /\ a[0] = b /\ FoldLeft(LAMBDA x, e : IfaceNames(x, c, e), b, s) = a[n]
    /\ \A k \in 1..n : a[k] = IfaceNames(a[k - 1], c, s[k])

\* FoldLeft over the interfaces of a class, step by step.
LEMMA FoldIfaces ==
  ASSUME NEW c, NEW X, NEW b \in X, NEW n \in Nat, NEW s, DOMAIN s = 1..n,
         \A x \in X : \A k \in 1..n : IfaceNames(x, c, s[k]) \in X
  PROVE  FoldIfacesShape(c, X, n, b, s)
  <1> DEFINE D == SUBSET (1..n)
             F == [k \in 1..n |-> [x \in X |-> IfaceNames(x, c, s[k])]]
             U(g) == [t \in D |-> IF t = {} THEN b ELSE IfaceNames(g[t \ {Max(t)}], c, s[Max(t)])]
             It == LET iter[t \in SUBSET DOMAIN s] ==
                         IF t = {} THEN b
                         ELSE LET x == Max(t) IN IfaceNames(iter[t \ {x}], c, s[x])
                   IN  iter
  <1>0. SUBSET DOMAIN s = D
    OBVIOUS
  <1>1. FoldLeft(LAMBDA x, e : IfaceNames(x, c, e), b, s) = It[DOMAIN s] /\ It = CHOOSE g : g = U(g)
    BY <1>0 DEF FoldLeft, MapThenFoldSet
  <1>2. F \in [1..n -> [X -> X]] /\ \A k \in 1..n : \A x \in X : F[k][x] = IfaceNames(x, c, s[k])
    OBVIOUS
  <1> HIDE DEF F
  <1>3. PICK g \in [D -> X] :
          /\ g[{}] = b
          /\ \A t \in D :
               t # {} => /\ Max(t) \in 1..n /\ g[t \ {Max(t)}] \in X
                         /\ g[t] = F[Max(t)][g[t \ {Max(t)}]]
    <2>1. IterShape(n, X, b, F)
      BY <1>2, IterExists
    <2>. QED
      BY ONLY <2>1 DEF IterShape
  <1>4. g = U(g)
    BY <1>2, <1>3
  <1>5. It = U(It)
    <2> HIDE DEF It, U
    <2>. QED
      BY <1>1, <1>4
  <1> HIDE DEF It
  <1>6. /\ It[{}] = b
        /\ \A t \in D : t # {} => It[t] = IfaceNames(It[t \ {Max(t)}], c, s[Max(t)])
    BY <1>5
  <1>7. ASSUME NEW t \in D, t # {}, It[t \ {Max(t)}] \in X
        PROVE  It[t] = F[Max(t)][It[t \ {Max(t)}]]
    BY <1>2, <1>3, <1>6, <1>7
  <1>8. PICK a \in [0..n -> X] : a[0] = b /\ a[n] = It[1..n] /\ \A k \in 1..n : a[k] = F[k][a[k - 1]]
    <2>1. StepShape(n, X, b, F, It[1..n])
      <3> HIDE DEF D, U
      <3>1. \A t \in SUBSET (1..n) :
              t # {} /\ It[t \ {Max(t)}] \in X => It[t] = F[Max(t)][It[t \ {Max(t)}]]
        BY <1>7 DEF D
      <3>2. It[{}] = b
        BY <1>6
      <3>. QED
        BY ONLY n \in Nat, b \in X, <1>2, <3>1, <3>2, FoldSteps
    <2>. QED
      BY ONLY <2>1 DEF StepShape
  <1>9. \A k \in 1..n : a[k] = IfaceNames(a[k - 1], c, s[k])
    BY <1>2, <1>8
  <1>. QED
    <2>1. FoldLeft(LAMBDA x, e : IfaceNames(x, c, e), b, s) = a[n]
      BY <1>0, <1>1, <1>8
    <2>. QED
      BY ONLY <2>1, <1>8, <1>9 DEF FoldIfacesShape

\* The methods of a class are numbered one by one.
FoldNamesShape(c, X, n, b, s) ==
  \E a \in [0..n -> X] :
    /\ a[0] = b /\ FoldLeft(LAMBDA x, e : IndexMethod(x, <<c, e>>), b, s) = a[n]
    /\ \A k \in 1..n : a[k] = IndexMethod(a[k - 1], <<c, s[k]>>)

\* FoldLeft over the methods of a class, step by step.
LEMMA FoldNames ==
  ASSUME NEW c, NEW X, NEW b \in X, NEW n \in Nat, NEW s, DOMAIN s = 1..n,
         \A x \in X : \A k \in 1..n : IndexMethod(x, <<c, s[k]>>) \in X
  PROVE  FoldNamesShape(c, X, n, b, s)
  <1> DEFINE D == SUBSET (1..n)
             F == [k \in 1..n |-> [x \in X |-> IndexMethod(x, <<c, s[k]>>)]]
             U(g) == [t \in D |-> IF t = {} THEN b ELSE IndexMethod(g[t \ {Max(t)}], <<c, s[Max(t)]>>)]
             It == LET iter[t \in SUBSET DOMAIN s] ==
                         IF t = {} THEN b
                         ELSE LET x == Max(t) IN IndexMethod(iter[t \ {x}], <<c, s[x]>>)
                   IN  iter
  <1>0. SUBSET DOMAIN s = D
    OBVIOUS
  <1>1. FoldLeft(LAMBDA x, e : IndexMethod(x, <<c, e>>), b, s) = It[DOMAIN s] /\ It = CHOOSE g : g = U(g)
    BY <1>0 DEF FoldLeft, MapThenFoldSet
  <1>2. F \in [1..n -> [X -> X]] /\ \A k \in 1..n : \A x \in X : F[k][x] = IndexMethod(x, <<c, s[k]>>)
    OBVIOUS
  <1> HIDE DEF F
  <1>3. PICK g \in [D -> X] :
          /\ g[{}] = b
          /\ \A t \in D :
               t # {} => /\ Max(t) \in 1..n /\ g[t \ {Max(t)}] \in X
                         /\ g[t] = F[Max(t)][g[t \ {Max(t)}]]
    <2>1. IterShape(n, X, b, F)
      BY <1>2, IterExists
    <2>. QED
      BY ONLY <2>1 DEF IterShape
  <1>4. g = U(g)
    BY <1>2, <1>3
  <1>5. It = U(It)
    <2> HIDE DEF It, U
    <2>. QED
      BY <1>1, <1>4
  <1> HIDE DEF It
  <1>6. /\ It[{}] = b
        /\ \A t \in D : t # {} => It[t] = IndexMethod(It[t \ {Max(t)}], <<c, s[Max(t)]>>)
    BY <1>5
  <1>7. ASSUME NEW t \in D, t # {}, It[t \ {Max(t)}] \in X
        PROVE  It[t] = F[Max(t)][It[t \ {Max(t)}]]
    BY <1>2, <1>3, <1>6, <1>7
  <1>8. PICK a \in [0..n -> X] : a[0] = b /\ a[n] = It[1..n] /\ \A k \in 1..n : a[k] = F[k][a[k - 1]]
    <2>1. StepShape(n, X, b, F, It[1..n])
      <3> HIDE DEF D, U
      <3>1. \A t \in SUBSET (1..n) :
              t # {} /\ It[t \ {Max(t)}] \in X => It[t] = F[Max(t)][It[t \ {Max(t)}]]
        BY <1>7 DEF D
      <3>2. It[{}] = b
        BY <1>6
      <3>. QED
        BY ONLY n \in Nat, b \in X, <1>2, <3>1, <3>2, FoldSteps
    <2>. QED
      BY ONLY <2>1 DEF StepShape
  <1>9. \A k \in 1..n : a[k] = IndexMethod(a[k - 1], <<c, s[k]>>)
    BY <1>2, <1>8
  <1>. QED
    <2>1. FoldLeft(LAMBDA x, e : IndexMethod(x, <<c, e>>), b, s) = a[n]
      BY <1>0, <1>1, <1>8
    <2>. QED
      BY ONLY <2>1, <1>8, <1>9 DEF FoldNamesShape

\* The classes of a hierarchy, one by one.
FoldClassesShape(X, n, b, s) ==
  \E a \in [0..n -> X] :
    /\ a[0] = b /\ FoldLeft(IndexClass, b, s) = a[n]
    /\ \A k \in 1..n : a[k] = IndexClass(a[k - 1], s[k])

\* FoldLeft over the classes of a hierarchy, step by step.
LEMMA FoldClasses ==
  ASSUME NEW X, NEW b \in X, NEW n \in Nat, NEW s, DOMAIN s = 1..n,
         \A x \in X : \A k \in 1..n : IndexClass(x, s[k]) \in X
  PROVE  FoldClassesShape(X, n, b, s)
  <1> DEFINE D == SUBSET (1..n)
             F == [k \in 1..n |-> [x \in X |-> IndexClass(x, s[k])]]
             U(g) == [t \in D |-> IF t = {} THEN b ELSE IndexClass(g[t \ {Max(t)}], s[Max(t)])]
             It == LET iter[t \in SUBSET DOMAIN s] ==
                         IF t = {} THEN b
                         ELSE LET x == Max(t) IN IndexClass(iter[t \ {x}], s[x])
                   IN  iter
  <1>0. SUBSET DOMAIN s = D
    OBVIOUS
  <1>1. FoldLeft(IndexClass, b, s) = It[DOMAIN s] /\ It = CHOOSE g : g = U(g)
    BY <1>0 DEF FoldLeft, MapThenFoldSet
  <1>2. F \in [1..n -> [X -> X]] /\ \A k \in 1..n : \A x \in X : F[k][x] = IndexClass(x, s[k])
    OBVIOUS
  <1> HIDE DEF F
  <1>3. PICK g \in [D -> X] :
          /\ g[{}] = b
          /\ \A t \in D :
               t # {} => /\ Max(t) \in 1..n /\ g[t \ {Max(t)}] \in X
                         /\ g[t] = F[Max(t)][g[t \ {Max(t)}]]
    <2>1. IterShape(n, X, b, F)
      BY <1>2, IterExists
    <2>. QED
      BY ONLY <2>1 DEF IterShape
  <1>4. g = U(g)
    BY <1>2, <1>3
  <1>5. It = U(It)
    <2> HIDE DEF It, U
    <2>. QED
      BY <1>1, <1>4
  <1> HIDE DEF It
  <1>6. /\ It[{}] = b
        /\ \A t \in D : t # {} => It[t] = IndexClass(It[t \ {Max(t)}], s[Max(t)])
    BY <1>5
  <1>7. ASSUME NEW t \in D, t # {}, It[t \ {Max(t)}] \in X
        PROVE  It[t] = F[Max(t)][It[t \ {Max(t)}]]
    BY <1>2, <1>3, <1>6, <1>7
  <1>8. PICK a \in [0..n -> X] : a[0] = b /\ a[n] = It[1..n] /\ \A k \in 1..n : a[k] = F[k][a[k - 1]]
    <2>1. StepShape(n, X, b, F, It[1..n])
      <3> HIDE DEF D, U
      <3>1. \A t \in SUBSET (1..n) :
              t # {} /\ It[t \ {Max(t)}] \in X => It[t] = F[Max(t)][It[t \ {Max(t)}]]
        BY <1>7 DEF D
      <3>2. It[{}] = b
        BY <1>6
      <3>. QED
        BY ONLY n \in Nat, b \in X, <1>2, <3>1, <3>2, FoldSteps
    <2>. QED
      BY ONLY <2>1 DEF StepShape
  <1>9. \A k \in 1..n : a[k] = IndexClass(a[k - 1], s[k])
    BY <1>2, <1>8
  <1>. QED
    <2>1. FoldLeft(IndexClass, b, s) = a[n]
      BY <1>0, <1>1, <1>8
    <2>. QED
      BY ONLY <2>1, <1>8, <1>9 DEF FoldClassesShape

\* The methods of a class are entered into the table one by one.
FoldEnterShape(idx, d, X, n, b, s) ==
  \E a \in [0..n -> X] :
    /\ a[0] = b /\ FoldLeft(LAMBDA x, e : EnterMethod(x, idx, <<d, e>>), b, s) = a[n]
    /\ \A k \in 1..n : a[k] = EnterMethod(a[k - 1], idx, <<d, s[k]>>)

\* FoldLeft over the methods that are entered into the table, step by step.
LEMMA FoldEnter ==
  ASSUME NEW idx, NEW d, NEW X, NEW b \in X, NEW n \in Nat, NEW s, DOMAIN s = 1..n,
         \A x \in X : \A k \in 1..n : EnterMethod(x, idx, <<d, s[k]>>) \in X
  PROVE  FoldEnterShape(idx, d, X, n, b, s)
  <1> DEFINE D == SUBSET (1..n)
             F == [k \in 1..n |-> [x \in X |-> EnterMethod(x, idx, <<d, s[k]>>)]]
             U(g) == [t \in D |-> IF t = {} THEN b ELSE EnterMethod(g[t \ {Max(t)}], idx, <<d, s[Max(t)]>>)]
             It == LET iter[t \in SUBSET DOMAIN s] ==
                         IF t = {} THEN b
                         ELSE LET x == Max(t) IN EnterMethod(iter[t \ {x}], idx, <<d, s[x]>>)
                   IN  iter
  <1>0. SUBSET DOMAIN s = D
    OBVIOUS
  <1>1. FoldLeft(LAMBDA x, e : EnterMethod(x, idx, <<d, e>>), b, s) = It[DOMAIN s] /\ It = CHOOSE g : g = U(g)
    BY <1>0 DEF FoldLeft, MapThenFoldSet
  <1>2. F \in [1..n -> [X -> X]] /\ \A k \in 1..n : \A x \in X : F[k][x] = EnterMethod(x, idx, <<d, s[k]>>)
    OBVIOUS
  <1> HIDE DEF F
  <1>3. PICK g \in [D -> X] :
          /\ g[{}] = b
          /\ \A t \in D :
               t # {} => /\ Max(t) \in 1..n /\ g[t \ {Max(t)}] \in X
                         /\ g[t] = F[Max(t)][g[t \ {Max(t)}]]
    <2>1. IterShape(n, X, b, F)
      BY <1>2, IterExists
    <2>. QED
      BY ONLY <2>1 DEF IterShape
  <1>4. g = U(g)
    BY <1>2, <1>3
  <1>5. It = U(It)
    <2> HIDE DEF It, U
    <2>. QED
      BY <1>1, <1>4
  <1> HIDE DEF It
  <1>6. /\ It[{}] = b
        /\ \A t \in D : t # {} => It[t] = EnterMethod(It[t \ {Max(t)}], idx, <<d, s[Max(t)]>>)
    BY <1>5
  <1>7. ASSUME NEW t \in D, t # {}, It[t \ {Max(t)}] \in X
        PROVE  It[t] = F[Max(t)][It[t \ {Max(t)}]]
    BY <1>2, <1>3, <1>6, <1>7
  <1>8. PICK a \in [0..n -> X] : a[0] = b /\ a[n] = It[1..n] /\ \A k \in 1..n : a[k] = F[k][a[k - 1]]
    <2>1. StepShape(n, X, b, F, It[1..n])
      <3> HIDE DEF D, U
      <3>1. \A t \in SUBSET (1..n) :
              t # {} /\ It[t \ {Max(t)}] \in X => It[t] = F[Max(t)][It[t \ {Max(t)}]]
        BY <1>7 DEF D
      <3>2. It[{}] = b
        BY <1>6
      <3>. QED
        BY ONLY n \in Nat, b \in X, <1>2, <3>1, <3>2, FoldSteps
    <2>. QED
      BY ONLY <2>1 DEF StepShape
  <1>9. \A k \in 1..n : a[k] = EnterMethod(a[k - 1], idx, <<d, s[k]>>)
    BY <1>2, <1>8
  <1>. QED
    <2>1. FoldLeft(LAMBDA x, e : EnterMethod(x, idx, <<d, e>>), b, s) = a[n]
      BY <1>0, <1>1, <1>8
    <2>. QED
      BY ONLY <2>1, <1>8, <1>9 DEF FoldEnterShape

\* The classes of a hierarchy, one by one, entered into the table.
FoldTablesShape(idx, X, n, b, s) ==
  \E a \in [0..n -> X] :
    /\ a[0] = b /\ FoldLeft(LAMBDA x, e : EnterClass(x, idx, e), b, s) = a[n]
    /\ \A k \in 1..n : a[k] = EnterClass(a[k - 1], idx, s[k])

\* FoldLeft over the classes that are entered into the table, step by step.
LEMMA FoldTables ==
  ASSUME NEW idx, NEW X, NEW b \in X, NEW n \in Nat, NEW s, DOMAIN s = 1..n,
         \A x \in X : \A k \in 1..n : EnterClass(x, idx, s[k]) \in X
  PROVE  FoldTablesShape(idx, X, n, b, s)
  <1> DEFINE D == SUBSET (1..n)
             F == [k \in 1..n |-> [x \in X |-> EnterClass(x, idx, s[k])]]
             U(g) == [t \in D |-> IF t = {} THEN b ELSE EnterClass(g[t \ {Max(t)}], idx, s[Max(t)])]
             It == LET iter[t \in SUBSET DOMAIN s] ==
                         IF t = {} THEN b
                         ELSE LET x == Max(t) IN EnterClass(iter[t \ {x}], idx, s[x])
                   IN  iter
  <1>0. SUBSET DOMAIN s = D
    OBVIOUS
  <1>1. FoldLeft(LAMBDA x, e : EnterClass(x, idx, e), b, s) = It[DOMAIN s] /\ It = CHOOSE g : g = U(g)
    BY <1>0 DEF FoldLeft, MapThenFoldSet
  <1>2. F \in [1..n -> [X -> X]] /\ \A k \in 1..n : \A x \in X : F[k][x] = EnterClass(x, idx, s[k])
    OBVIOUS
  <1> HIDE DEF F
  <1>3. PICK g \in [D -> X] :
          /\ g[{}] = b
          /\ \A t \in D :
               t # {} => /\ Max(t) \in 1..n /\ g[t \ {Max(t)}] \in X
                         /\ g[t] = F[Max(t)][g[t \ {Max(t)}]]
    <2>1. IterShape(n, X, b, F)
      BY <1>2, IterExists
    <2>. QED
      BY ONLY <2>1 DEF IterShape
  <1>4. g = U(g)
    BY <1>2, <1>3
  <1>5. It = U(It)
    <2> HIDE DEF It, U
    <2>. QED
      BY <1>1, <1>4
  <1> HIDE DEF It
  <1>6. /\ It[{}] = b
        /\ \A t \in D : t # {} => It[t] = EnterClass(It[t \ {Max(t)}], idx, s[Max(t)])
    BY <1>5
  <1>7. ASSUME NEW t \in D, t # {}, It[t \ {Max(t)}] \in X
        PROVE  It[t] = F[Max(t)][It[t \ {Max(t)}]]
    BY <1>2, <1>3, <1>6, <1>7
  <1>8. PICK a \in [0..n -> X] : a[0] = b /\ a[n] = It[1..n] /\ \A k \in 1..n : a[k] = F[k][a[k - 1]]
    <2>1. StepShape(n, X, b, F, It[1..n])
      <3> HIDE DEF D, U
      <3>1. \A t \in SUBSET (1..n) :
              t # {} /\ It[t \ {Max(t)}] \in X => It[t] = F[Max(t)][It[t \ {Max(t)}]]
        BY <1>7 DEF D
      <3>2. It[{}] = b
        BY <1>6
      <3>. QED
        BY ONLY n \in Nat, b \in X, <1>2, <3>1, <3>2, FoldSteps
    <2>. QED
      BY ONLY <2>1 DEF StepShape
  <1>9. \A k \in 1..n : a[k] = EnterClass(a[k - 1], idx, s[k])
    BY <1>2, <1>8
  <1>. QED
    <2>1. FoldLeft(LAMBDA x, e : EnterClass(x, idx, e), b, s) = a[n]
      BY <1>0, <1>1, <1>8
    <2>. QED
      BY ONLY <2>1, <1>8, <1>9 DEF FoldTablesShape

\* The slots of interfaces, added up.
FoldSlotsShape(X, n, b, s) ==
  \E a \in [0..n -> X] :
    /\ a[0] = b /\ FoldLeft(LAMBDA x, e : x + Len(prog.names[e]), b, s) = a[n]
    /\ \A k \in 1..n : a[k] = a[k - 1] + Len(prog.names[s[k]])

\* FoldLeft over the interfaces whose slots are counted, step by step.
LEMMA FoldSlots ==
  ASSUME NEW X, NEW b \in X, NEW n \in Nat, NEW s, DOMAIN s = 1..n,
         \A x \in X : \A k \in 1..n : x + Len(prog.names[s[k]]) \in X
  PROVE  FoldSlotsShape(X, n, b, s)
  <1> DEFINE D == SUBSET (1..n)
             F == [k \in 1..n |-> [x \in X |-> x + Len(prog.names[s[k]])]]
             U(g) == [t \in D |-> IF t = {} THEN b ELSE g[t \ {Max(t)}] + Len(prog.names[s[Max(t)]])]
             It == LET iter[t \in SUBSET DOMAIN s] ==
                         IF t = {} THEN b
                         ELSE LET x == Max(t) IN iter[t \ {x}] + Len(prog.names[s[x]])
                   IN  iter
  <1>0. SUBSET DOMAIN s = D
    OBVIOUS
  <1>1. FoldLeft(LAMBDA x, e : x + Len(prog.names[e]), b, s) = It[DOMAIN s] /\ It = CHOOSE g : g = U(g)
    BY <1>0 DEF FoldLeft, MapThenFoldSet
  <1>2. F \in [1..n -> [X -> X]] /\ \A k \in 1..n : \A x \in X : F[k][x] = x + Len(prog.names[s[k]])
    OBVIOUS
  <1> HIDE DEF F
  <1>3. PICK g \in [D -> X] :
          /\ g[{}] = b
          /\ \A t \in D :
               t # {} => /\ Max(t) \in 1..n /\ g[t \ {Max(t)}] \in X
                         /\ g[t] = F[Max(t)][g[t \ {Max(t)}]]
    <2>1. IterShape(n, X, b, F)
      BY <1>2, IterExists
    <2>. QED
      BY ONLY <2>1 DEF IterShape
  <1>4. g = U(g)
    BY <1>2, <1>3
  <1>5. It = U(It)
    <2> HIDE DEF It, U
    <2>. QED
      BY <1>1, <1>4
  <1> HIDE DEF It
  <1>6. /\ It[{}] = b
        /\ \A t \in D : t # {} => It[t] = It[t \ {Max(t)}] + Len(prog.names[s[Max(t)]])
    BY <1>5
  <1>7. ASSUME NEW t \in D, t # {}, It[t \ {Max(t)}] \in X
        PROVE  It[t] = F[Max(t)][It[t \ {Max(t)}]]
    BY <1>2, <1>3, <1>6, <1>7
  <1>8. PICK a \in [0..n -> X] : a[0] = b /\ a[n] = It[1..n] /\ \A k \in 1..n : a[k] = F[k][a[k - 1]]
    <2>1. StepShape(n, X, b, F, It[1..n])
      <3> HIDE DEF D, U
      <3>1. \A t \in SUBSET (1..n) :
              t # {} /\ It[t \ {Max(t)}] \in X => It[t] = F[Max(t)][It[t \ {Max(t)}]]
        BY <1>7 DEF D
      <3>2. It[{}] = b
        BY <1>6
      <3>. QED
        BY ONLY n \in Nat, b \in X, <1>2, <3>1, <3>2, FoldSteps
    <2>. QED
      BY ONLY <2>1 DEF StepShape
  <1>9. \A k \in 1..n : a[k] = a[k - 1] + Len(prog.names[s[k]])
    BY <1>2, <1>8
  <1>. QED
    <2>1. FoldLeft(LAMBDA x, e : x + Len(prog.names[e]), b, s) = a[n]
      BY <1>0, <1>1, <1>8
    <2>. QED
      BY ONLY <2>1, <1>8, <1>9 DEF FoldSlotsShape

\* The interfaces of a class are initialised one by one.
FoldInterfacesShape(X, n, b, s) ==
  \E a \in [0..n -> X] :
    /\ a[0] = b /\ FoldLeft(init_interface, b, s) = a[n]
    /\ \A k \in 1..n : a[k] = init_interface(a[k - 1], s[k])

\* FoldLeft over the interfaces that are initialised, step by step.
LEMMA FoldInterfaces ==
  ASSUME NEW X, NEW b \in X, NEW n \in Nat, NEW s, DOMAIN s = 1..n,
         \A x \in X : \A k \in 1..n : init_interface(x, s[k]) \in X
  PROVE  FoldInterfacesShape(X, n, b, s)
  <1> DEFINE D == SUBSET (1..n)
             F == [k \in 1..n |-> [x \in X |-> init_interface(x, s[k])]]
             U(g) == [t \in D |-> IF t = {} THEN b ELSE init_interface(g[t \ {Max(t)}], s[Max(t)])]
             It == LET iter[t \in SUBSET DOMAIN s] ==
                         IF t = {} THEN b
                         ELSE LET x == Max(t) IN init_interface(iter[t \ {x}], s[x])
                   IN  iter
  <1>0. SUBSET DOMAIN s = D
    OBVIOUS
  <1>1. FoldLeft(init_interface, b, s) = It[DOMAIN s] /\ It = CHOOSE g : g = U(g)
    BY <1>0 DEF FoldLeft, MapThenFoldSet
  <1>2. F \in [1..n -> [X -> X]] /\ \A k \in 1..n : \A x \in X : F[k][x] = init_interface(x, s[k])
    OBVIOUS
  <1> HIDE DEF F
  <1>3. PICK g \in [D -> X] :
          /\ g[{}] = b
          /\ \A t \in D :
               t # {} => /\ Max(t) \in 1..n /\ g[t \ {Max(t)}] \in X
                         /\ g[t] = F[Max(t)][g[t \ {Max(t)}]]
    <2>1. IterShape(n, X, b, F)
      BY <1>2, IterExists
    <2>. QED
      BY ONLY <2>1 DEF IterShape
  <1>4. g = U(g)
    BY <1>2, <1>3
  <1>5. It = U(It)
    <2> HIDE DEF It, U
    <2>. QED
      BY <1>1, <1>4
  <1> HIDE DEF It
  <1>6. /\ It[{}] = b
        /\ \A t \in D : t # {} => It[t] = init_interface(It[t \ {Max(t)}], s[Max(t)])
    BY <1>5
  <1>7. ASSUME NEW t \in D, t # {}, It[t \ {Max(t)}] \in X
        PROVE  It[t] = F[Max(t)][It[t \ {Max(t)}]]
    BY <1>2, <1>3, <1>6, <1>7
  <1>8. PICK a \in [0..n -> X] : a[0] = b /\ a[n] = It[1..n] /\ \A k \in 1..n : a[k] = F[k][a[k - 1]]
    <2>1. StepShape(n, X, b, F, It[1..n])
      <3> HIDE DEF D, U
      <3>1. \A t \in SUBSET (1..n) :
              t # {} /\ It[t \ {Max(t)}] \in X => It[t] = F[Max(t)][It[t \ {Max(t)}]]
        BY <1>7 DEF D
      <3>2. It[{}] = b
        BY <1>6
      <3>. QED
        BY ONLY n \in Nat, b \in X, <1>2, <3>1, <3>2, FoldSteps
    <2>. QED
      BY ONLY <2>1 DEF StepShape
  <1>9. \A k \in 1..n : a[k] = init_interface(a[k - 1], s[k])
    BY <1>2, <1>8
  <1>. QED
    <2>1. FoldLeft(init_interface, b, s) = a[n]
      BY <1>0, <1>1, <1>8
    <2>. QED
      BY ONLY <2>1, <1>8, <1>9 DEF FoldInterfacesShape

\* The classes of a hierarchy are initialised one by one.
FoldInitShape(X, n, b, s) ==
  \E a \in [0..n -> X] :
    /\ a[0] = b /\ FoldLeft(InitOne, b, s) = a[n]
    /\ \A k \in 1..n : a[k] = InitOne(a[k - 1], s[k])

\* FoldLeft over the classes that are initialised, step by step.
LEMMA FoldInit ==
  ASSUME NEW X, NEW b \in X, NEW n \in Nat, NEW s, DOMAIN s = 1..n,
         \A x \in X : \A k \in 1..n : InitOne(x, s[k]) \in X
  PROVE  FoldInitShape(X, n, b, s)
  <1> DEFINE D == SUBSET (1..n)
             F == [k \in 1..n |-> [x \in X |-> InitOne(x, s[k])]]
             U(g) == [t \in D |-> IF t = {} THEN b ELSE InitOne(g[t \ {Max(t)}], s[Max(t)])]
             It == LET iter[t \in SUBSET DOMAIN s] ==
                         IF t = {} THEN b
                         ELSE LET x == Max(t) IN InitOne(iter[t \ {x}], s[x])
                   IN  iter
  <1>0. SUBSET DOMAIN s = D
    OBVIOUS
  <1>1. FoldLeft(InitOne, b, s) = It[DOMAIN s] /\ It = CHOOSE g : g = U(g)
    BY <1>0 DEF FoldLeft, MapThenFoldSet
  <1>2. F \in [1..n -> [X -> X]] /\ \A k \in 1..n : \A x \in X : F[k][x] = InitOne(x, s[k])
    OBVIOUS
  <1> HIDE DEF F
  <1>3. PICK g \in [D -> X] :
          /\ g[{}] = b
          /\ \A t \in D :
               t # {} => /\ Max(t) \in 1..n /\ g[t \ {Max(t)}] \in X
                         /\ g[t] = F[Max(t)][g[t \ {Max(t)}]]
    <2>1. IterShape(n, X, b, F)
      BY <1>2, IterExists
    <2>. QED
      BY ONLY <2>1 DEF IterShape
  <1>4. g = U(g)
    BY <1>2, <1>3
  <1>5. It = U(It)
    <2> HIDE DEF It, U
    <2>. QED
      BY <1>1, <1>4
  <1> HIDE DEF It
  <1>6. /\ It[{}] = b
        /\ \A t \in D : t # {} => It[t] = InitOne(It[t \ {Max(t)}], s[Max(t)])
    BY <1>5
  <1>7. ASSUME NEW t \in D, t # {}, It[t \ {Max(t)}] \in X
        PROVE  It[t] = F[Max(t)][It[t \ {Max(t)}]]
    BY <1>2, <1>3, <1>6, <1>7
  <1>8. PICK a \in [0..n -> X] : a[0] = b /\ a[n] = It[1..n] /\ \A k \in 1..n : a[k] = F[k][a[k - 1]]
    <2>1. StepShape(n, X, b, F, It[1..n])
      <3> HIDE DEF D, U
      <3>1. \A t \in SUBSET (1..n) :
              t # {} /\ It[t \ {Max(t)}] \in X => It[t] = F[Max(t)][It[t \ {Max(t)}]]
        BY <1>7 DEF D
      <3>2. It[{}] = b
        BY <1>6
      <3>. QED
        BY ONLY n \in Nat, b \in X, <1>2, <3>1, <3>2, FoldSteps
    <2>. QED
      BY ONLY <2>1 DEF StepShape
  <1>9. \A k \in 1..n : a[k] = InitOne(a[k - 1], s[k])
    BY <1>2, <1>8
  <1>. QED
    <2>1. FoldLeft(InitOne, b, s) = a[n]
      BY <1>0, <1>1, <1>8
    <2>. QED
      BY ONLY <2>1, <1>8, <1>9 DEF FoldInitShape

-----------------------------------------------------------------------------
(* Sums of the first numbers of a sequence                                   *)

SumsOf(n, g, f) == f[0] = 0 /\ \A k \in 1..n : f[k] = f[k - 1] + g[k]

\* F[K] is the sum of the first K of the N numbers G.
Sums(n, g) == CHOOSE f \in [0..n -> Nat] : SumsOf(n, g, f)

\* There are such sums.
LEMMA SumsAre ==
  ASSUME NEW n \in Nat, NEW g \in [1..n -> Nat]
  PROVE  Sums(n, g) \in [0..n -> Nat] /\ SumsOf(n, g, Sums(n, g))
  <1> DEFINE F == [k \in 1..n |-> [x \in Nat |-> x + g[k]]]
  <1>1. F \in [1..n -> [Nat -> Nat]] /\ \A k \in 1..n : \A x \in Nat : F[k][x] = x + g[k]
    OBVIOUS
  <1> HIDE DEF F
  <1>2. IterShape(n, Nat, 0, F)
    BY <1>1, IterExists
  <1>3. PICK h \in [SUBSET (1..n) -> Nat] :
          /\ h[{}] = 0
          /\ \A t \in SUBSET (1..n) : t # {} => h[t] = F[Max(t)][h[t \ {Max(t)}]]
    BY ONLY <1>2 DEF IterShape
  <1>4. StepShape(n, Nat, 0, F, h[1..n])
    BY <1>1, <1>3, FoldSteps
  <1>5. PICK f \in [0..n -> Nat] : f[0] = 0 /\ \A k \in 1..n : f[k] = F[k][f[k - 1]]
    BY ONLY <1>4 DEF StepShape
  <1>6. SumsOf(n, g, f)
    <2>1. \A k \in 1..n : f[k - 1] \in Nat
      OBVIOUS
    <2>. QED
      BY <1>1, <1>5, <2>1 DEF SumsOf
  <1>. QED
    BY <1>6 DEF Sums

\* Sums grow, and every number below the last is within one of the steps.
GrowShape(n, f) ==
  /\ \A j, k \in 0..n : j <= k => f[j] <= f[k]
  /\ \A v \in Nat : v < f[n] => \E k \in 1..n : f[k - 1] <= v /\ v < f[k]

\* That is so for all sums of natural numbers.
LEMMA SumsGrow ==
  ASSUME NEW n \in Nat, NEW g \in [1..n -> Nat], NEW f \in [0..n -> Nat], SumsOf(n, g, f)
  PROVE  GrowShape(n, f)
  <1>1. f[0] = 0 /\ \A k \in 1..n : f[k - 1] <= f[k]
    BY DEF SumsOf
  <1>2. ASSUME NEW j \in 0..n PROVE \A k \in 0..n : j <= k => f[j] <= f[k]
    <2> DEFINE S == {k \in 0..n : j <= k => f[j] <= f[k]}
    <2>1. 0 \in S
      OBVIOUS
    <2>2. \A k \in 1..n : k - 1 \in S => k \in S
      BY <1>1
    <2> HIDE DEF S
    <2>3. \A k \in 0..n : k \in S
      BY <2>1, <2>2, UpTo
    <2>. QED
      BY <2>3 DEF S
  <1>3. ASSUME NEW v \in Nat, v < f[n] PROVE \E k \in 1..n : f[k - 1] <= v /\ v < f[k]
    <2> DEFINE B == {k \in Nat : k <= n /\ v < f[k]}
    <2>1. PICK k \in B : \A j \in B : k <= j
      <3>1. B \subseteq Nat /\ n \in B
        BY <1>3
      <3>. QED
        BY <3>1, Least
    <2>2. k \in 1..n /\ k - 1 \notin B
      BY <2>1, <1>1
    <2>. QED
      BY <2>1, <2>2
  <1>. QED
    BY <1>2, <1>3 DEF GrowShape

-----------------------------------------------------------------------------
(* Lists and methods of a program                                            *)

ListShape(s, S) ==
  /\ s \in Seq(S) /\ Len(s) \in Nat /\ DOMAIN s = 1..Len(s)
  /\ \A k \in 1..Len(s) : s[k] \in S
  /\ \A x \in ToSet(s) : x \in S /\ \E k \in 1..Len(s) : s[k] = x
  /\ \A k \in 1..Len(s) : s[k] \in ToSet(s)
  /\ \A j, k \in 1..Len(s) : s[j] = s[k] => j = k

\* A list without repetition, by its positions.
LEMMA ListIs ==
  ASSUME NEW S, NEW s \in Seq(S), IsInjective(s)
  PROVE  ListShape(s, S)
  <1>1. Len(s) \in Nat /\ DOMAIN s = 1..Len(s) /\ \A k \in 1..Len(s) : s[k] \in S
    OBVIOUS
  <1>2. \A x : x \in ToSet(s) <=> \E k \in 1..Len(s) : s[k] = x
    BY <1>1 DEF ToSet
  <1>3. \A j, k \in 1..Len(s) : s[j] = s[k] => j = k
    BY <1>1 DEF IsInjective
  <1>. QED
    BY <1>1, <1>2, <1>3 DEF ListShape

\* The lists of a program have no repetition.
LEMMA ProgramLists ==
  ASSUME NEW p \in Programs, NEW t \in Types
  PROVE  ListShape(p.names[t], NamesOf(p, t)) /\ ListShape(p.lists[t], Interfaces)
  <1>1. /\ p.lists[t] \in Seq(Interfaces) /\ IsInjective(p.lists[t])
        /\ p.names[t] \in Seq(NamesOf(p, t)) /\ IsInjective(p.names[t])
    BY ProgramAssumption
  <1>. QED
    BY <1>1, ListIs

\* The methods are the names, with their owners.
LEMMA MethodIs ==
  ASSUME NEW p \in Programs
  PROVE  /\ \A t, n : <<t, n>> \in MethodsOf(p) <=> t \in Types /\ n \in NamesOf(p, t)
         /\ \A m \in MethodsOf(p) : m = <<m[1], m[2]>> /\ m[1] \in Types /\ m[2] \in NamesOf(p, m[1])
         /\ \A c, n : <<c, n>> \in p.newslot => c \in Classes /\ n \in NamesOf(p, c)
         /\ None \notin MethodsOf(p)
  <1>1. \A t, n : <<t, n>> \in MethodsOf(p) <=> t \in Types /\ n \in NamesOf(p, t)
    BY DEF MethodsOf
  <1>2. \A m \in MethodsOf(p) : m = <<m[1], m[2]>> /\ m[1] \in Types /\ m[2] \in NamesOf(p, m[1])
    BY DEF MethodsOf
  <1>3. /\ p.newslot \subseteq MethodsOf(p) /\ \A m \in p.newslot : m[1] \in Classes
        /\ None \notin MethodsOf(p)
    BY ProgramAssumption
  <1>4. ASSUME NEW c, NEW n, <<c, n>> \in p.newslot PROVE c \in Classes /\ n \in NamesOf(p, c)
    BY <1>1, <1>3, <1>4
  <1>. QED
    BY <1>1, <1>2, <1>3, <1>4

\* Classes and interfaces are types.
LEMMA TypesAre ==
  Classes \subseteq Types /\ Interfaces \subseteq Types /\ None \notin Types
  BY ProgramAssumption DEF Types

-----------------------------------------------------------------------------
(* The nearest class                                                         *)

LastShape(s, T) ==
  /\ ToSet(s) \cap T = {} => LastIn(s, T) = None
  /\ ToSet(s) \cap T # {} => LastIn(s, T) \in ToSet(s) \cap T

\* The last member that is in T is a member that is in T.
LEMMA LastInIs ==
  ASSUME NEW S, NEW s \in Seq(S), NEW T
  PROVE  LastShape(s, T)
  <1> DEFINE I == {i \in DOMAIN s : s[i] \in T}
  <1>1. ASSUME ToSet(s) \cap T # {} PROVE s[Max(I)] \in ToSet(s) \cap T
    <2>1. I \subseteq Nat /\ I # {} /\ \A i \in I : i <= Len(s)
      BY <1>1 DEF ToSet
    <2>2. Max(I) \in I
      <3> HIDE DEF I
      <3>1. Len(s) \in Nat
        OBVIOUS
      <3>. QED
        BY <2>1, <3>1, MaxIs
    <2>. QED
      BY <2>2 DEF ToSet
  <1>. QED
    BY <1>1 DEF LastIn, LastShape

\* The last member that is in T, of a sequence that has one more.
LEMMA LastInAppend ==
  ASSUME NEW S, NEW s \in Seq(S), NEW x \in S, NEW T
  PROVE  LastIn(Append(s, x), T) = IF x \in T THEN x ELSE LastIn(s, T)
  <1> DEFINE t == Append(s, x)
             I == {i \in DOMAIN s : s[i] \in T}
             J == {i \in DOMAIN t : t[i] \in T}
             n == Len(s)
  <1>1. /\ n \in Nat /\ DOMAIN s = 1..n /\ DOMAIN t = 1..(n + 1) /\ t[n + 1] = x
        /\ \A k \in 1..n : t[k] = s[k]
    BY AppendProperties
  <1>2. ToSet(t) = ToSet(s) \cup {x}
    <2>1. t = Append(s, x)
      OBVIOUS
    <2> HIDE DEF t
    <2>. QED
      <3>1. AppendShape(s, x, t)
        BY <2>1, ToSetAppend
      <3>. QED
        BY ONLY <3>1 DEF AppendShape
  <1> HIDE DEF t, n
  <1>3. CASE x \in T
    <2>1. J \subseteq Nat /\ n + 1 \in J /\ \A i \in J : i <= n + 1
      BY <1>1, <1>3
    <2>2. Max(J) = n + 1
      <3> HIDE DEF J
      <3> DEFINE m == Max(J)
      <3>1. m \in J /\ \A i \in J : i <= m
        BY <1>1, <2>1, MaxIs
      <3> HIDE DEF m
      <3>2. m = n + 1
        BY <3>1, <2>1, <1>1
      <3>. QED
        BY <3>2 DEF m
    <2>3. ToSet(t) \cap T # {}
      BY <1>2, <1>3
    <2>. QED
      BY <2>2, <2>3, <1>1, <1>3 DEF LastIn, t
  <1>4. CASE x \notin T
    <2>1. I = J
      BY <1>1, <1>4
    <2>2. ToSet(t) \cap T = ToSet(s) \cap T
      BY <1>2, <1>4
    <2>3. ASSUME ToSet(s) \cap T # {} PROVE t[Max(J)] = s[Max(I)]
      <3>1. I \subseteq Nat /\ I # {} /\ (\A i \in I : i <= n) /\ I \subseteq 1..n
        BY <2>3, <1>1 DEF ToSet
      <3>2. Max(I) \in I
        <4> HIDE DEF I
        <4>. QED
          BY <3>1, <1>1, MaxIs
      <3> HIDE DEF I, J
      <3>. QED
        BY <2>1, <3>1, <3>2, <1>1
    <2>4. LastIn(t, T) = LastIn(s, T)
      BY <2>2, <2>3 DEF LastIn
    <2>. QED
      BY <2>4, <1>4 DEF t
  <1>. QED
    BY <1>3, <1>4

\* The classes that declare a virtual method N.
DeclaringIn(p, n) == {d \in Classes : n \in NamesOf(p, d)}

\* The class nearest to C that declares N.
Nearest(p, c, n) == LastIn(LineageOf(p, c), DeclaringIn(p, n))

NearestShape(p, c, n) ==
  /\ n \in NamesOf(p, c) => Nearest(p, c, n) = c
  /\ n \notin NamesOf(p, c) /\ p.base[c] # None => Nearest(p, c, n) = Nearest(p, p.base[c], n)
  /\ \A d \in Anc(p, c) : n \in NamesOf(p, d) =>
       Nearest(p, c, n) \in Anc(p, c) /\ n \in NamesOf(p, Nearest(p, c, n))

\* The nearest class is the class itself, or the nearest to its base.
LEMMA NearestIs ==
  ASSUME NEW p \in Programs, NEW c \in Classes, NEW n
  PROVE  NearestShape(p, c, n)
  <1> DEFINE T == DeclaringIn(p, n)
             s == LineageOf(p, c)
  <1>1. s \in Seq(Classes) /\ c \in Classes /\ Anc(p, c) = ToSet(s) /\ Anc(p, c) \subseteq Classes /\ c \in Anc(p, c)
    BY LineageIs, AncFacts DEF Anc, AncShape
  <1>2. \A d : d \in T <=> d \in Classes /\ n \in NamesOf(p, d)
    BY DEF DeclaringIn
  <1>3. Nearest(p, c, n) = LastIn(s, T)
    BY DEF Nearest
  <1>4. LastShape(s, T)
    <2> HIDE DEF s, T
    <2>. QED
      BY <1>1, LastInIs
  <1>5. ASSUME NEW d \in Anc(p, c), n \in NamesOf(p, d)
        PROVE  Nearest(p, c, n) \in Anc(p, c) /\ n \in NamesOf(p, Nearest(p, c, n))
    <2> HIDE DEF s, T
    <2>1. d \in ToSet(s) \cap T
      BY <1>1, <1>2, <1>5
    <2>. QED
      BY <1>1, <1>2, <1>3, <1>4, <2>1 DEF LastShape
  <1>6. CASE p.base[c] = None
    <2>1. Anc(p, c) = {c}
      BY <1>6, AncIs
    <2>2. n \in NamesOf(p, c) => Nearest(p, c, n) = c
      BY <1>5, <2>1
    <2>. QED
      BY <1>5, <1>6, <2>2 DEF NearestShape
  <1>7. CASE p.base[c] # None
    <2> DEFINE u == LineageOf(p, p.base[c])
    <2>1. u \in Seq(Classes) /\ s = Append(u, c)
      BY <1>7, LineageIs
    <2>2. Nearest(p, p.base[c], n) = LastIn(u, T)
      BY DEF Nearest
    <2> HIDE DEF u, s, T
    <2>3. LastIn(s, T) = IF c \in T THEN c ELSE LastIn(u, T)
      BY <2>1, LastInAppend
    <2>4. c \in T <=> n \in NamesOf(p, c)
      BY <1>2
    <2>. QED
      BY <1>3, <1>5, <2>2, <2>3, <2>4 DEF NearestShape
  <1>. QED
    BY <1>6, <1>7

-----------------------------------------------------------------------------
(* The sizes of vtables and the numbers of their slots                       *)

\* The slots of the first interfaces that C lists.
Off(p, c) == Sums(Len(p.lists[c]), [a \in 1..Len(p.lists[c]) |-> Len(p.names[p.lists[c][a]])])

\* The methods of the interfaces that C lists; the other new slots of C.
IfaceMethods(p, c) == UNION {NamesOf(p, i) : i \in ToSet(p.lists[c])}
Fresh(p, c) == {n \in NamesOf(p, c) : <<c, n>> \in p.newslot} \ IfaceMethods(p, c)

\* The number of these among the first methods of C.
Rank(p, c) == Sums(Len(p.names[c]), [k \in 1..Len(p.names[c]) |->
                                       IF p.names[c][k] \in Fresh(p, c) THEN 1 ELSE 0])

\* The slots that C has of its own, and the size of its vtable.
Own(p, c) == Off(p, c)[Len(p.lists[c])] + Rank(p, c)[Len(p.names[c])]
SizeOf(p, f) == \A c \in Classes : f[c] = (IF p.base[c] = None THEN 0 ELSE f[p.base[c]]) + Own(p, c)
Size(p) == CHOOSE f \in [Classes -> Nat] : SizeOf(p, f)

\* The first slot that C has of its own.
Low(p, c) == IF p.base[c] = None THEN 0 ELSE Size(p)[p.base[c]]

OffShape(p, c) ==
  /\ Off(p, c) \in [0..Len(p.lists[c]) -> Nat]
  /\ Off(p, c)[0] = 0
  /\ \A a \in 1..Len(p.lists[c]) : Off(p, c)[a] = Off(p, c)[a - 1] + Len(p.names[p.lists[c][a]])
  /\ GrowShape(Len(p.lists[c]), Off(p, c))

\* The slots of the interfaces, one after the other.
LEMMA OffIs ==
  ASSUME NEW p \in Programs, NEW c \in Classes
  PROVE  OffShape(p, c)
  <1> DEFINE n == Len(p.lists[c])
             g == [a \in 1..n |-> Len(p.names[p.lists[c][a]])]
  <1>1. n \in Nat /\ \A a \in 1..n : p.lists[c][a] \in Interfaces
    BY ProgramLists, TypesAre DEF ListShape
  <1>2. \A i \in Interfaces : Len(p.names[i]) \in Nat
    BY ProgramLists, TypesAre DEF ListShape
  <1>3. g \in [1..n -> Nat] /\ Off(p, c) = Sums(n, g)
    BY <1>1, <1>2 DEF Off
  <1>4. \A a \in 1..n : g[a] = Len(p.names[p.lists[c][a]])
    OBVIOUS
  <1> HIDE DEF g, n
  <1>5. Off(p, c) \in [0..n -> Nat] /\ SumsOf(n, g, Off(p, c))
    BY <1>1, <1>3, SumsAre
  <1>6. GrowShape(n, Off(p, c))
    BY <1>1, <1>3, <1>5, SumsGrow
  <1>7. Off(p, c)[0] = 0 /\ \A a \in 1..n : Off(p, c)[a] = Off(p, c)[a - 1] + g[a]
    BY <1>5 DEF SumsOf
  <1>. QED
    BY <1>4, <1>5, <1>6, <1>7 DEF OffShape, n

RankShape(p, c) ==
  /\ Rank(p, c) \in [0..Len(p.names[c]) -> Nat]
  /\ Rank(p, c)[0] = 0
  /\ \A k \in 1..Len(p.names[c]) :
       Rank(p, c)[k] = Rank(p, c)[k - 1] + (IF p.names[c][k] \in Fresh(p, c) THEN 1 ELSE 0)
  /\ GrowShape(Len(p.names[c]), Rank(p, c))

\* The fresh methods, one after the other.
LEMMA RankIs ==
  ASSUME NEW p \in Programs, NEW c \in Classes
  PROVE  RankShape(p, c)
  <1> DEFINE n == Len(p.names[c])
             g == [k \in 1..n |-> IF p.names[c][k] \in Fresh(p, c) THEN 1 ELSE 0]
  <1>1. n \in Nat
    BY ProgramLists, TypesAre DEF ListShape
  <1>3. g \in [1..n -> Nat] /\ Rank(p, c) = Sums(n, g)
    BY <1>1 DEF Rank
  <1>4. \A k \in 1..n : g[k] = IF p.names[c][k] \in Fresh(p, c) THEN 1 ELSE 0
    OBVIOUS
  <1> HIDE DEF g, n
  <1>5. Rank(p, c) \in [0..n -> Nat] /\ SumsOf(n, g, Rank(p, c))
    BY <1>1, <1>3, SumsAre
  <1>6. GrowShape(n, Rank(p, c))
    BY <1>1, <1>3, <1>5, SumsGrow
  <1>7. Rank(p, c)[0] = 0 /\ \A k \in 1..n : Rank(p, c)[k] = Rank(p, c)[k - 1] + g[k]
    BY <1>5 DEF SumsOf
  <1>. QED
    BY <1>4, <1>5, <1>6, <1>7 DEF RankShape, n

\* They are finitely many.
LEMMA OwnIsNat ==
  ASSUME NEW p \in Programs, NEW c \in Classes
  PROVE  Own(p, c) \in Nat
  <1>1. Len(p.lists[c]) \in Nat /\ Len(p.names[c]) \in Nat
    BY ProgramLists, TypesAre DEF ListShape
  <1>2. Off(p, c) \in [0..Len(p.lists[c]) -> Nat] /\ Rank(p, c) \in [0..Len(p.names[c]) -> Nat]
    BY OffIs, RankIs DEF OffShape, RankShape
  <1>3. Off(p, c)[Len(p.lists[c])] \in Nat /\ Rank(p, c)[Len(p.names[c])] \in Nat
    BY <1>1, <1>2
  <1>. QED
    BY <1>3 DEF Own

SizeShape(p, c) ==
  /\ Size(p)[c] \in Nat /\ Low(p, c) \in Nat
  /\ Size(p)[c] = Low(p, c) + Own(p, c)
  /\ p.base[c] = None => Low(p, c) = 0
  /\ p.base[c] # None => Low(p, c) = Size(p)[p.base[c]]

\* The size of a table is that of the base and what the class adds.
LEMMA SizeIs ==
  ASSUME NEW p \in Programs, NEW c \in Classes
  PROVE  SizeShape(p, c)
  <1> DEFINE own == [d \in Classes |-> Own(p, d)]
             G == [d \in Classes |-> [x \in Nat |-> x + own[d]]]
  <1>1. own \in [Classes -> Nat] /\ \A d \in Classes : own[d] = Own(p, d)
    BY OwnIsNat
  <1> HIDE DEF own
  <1>2. G \in [Classes -> [Nat -> Nat]] /\ \A d \in Classes : \A x \in Nat : G[d][x] = x + own[d]
    BY <1>1
  <1> HIDE DEF G
  <1>3. DownShape(p, Nat, own, G)
    BY <1>1, <1>2, DownExists
  <1>4. PICK f \in [Classes -> Nat] :
          \A d \in Classes : f[d] = IF p.base[d] = None THEN own[d] ELSE G[d][f[p.base[d]]]
    BY ONLY <1>3 DEF DownShape
  <1>5. \A d \in Classes : p.base[d] # None => p.base[d] \in Classes
    BY AncIs
  <1>6. SizeOf(p, f)
    <2>1. ASSUME NEW d \in Classes
          PROVE  f[d] = (IF p.base[d] = None THEN 0 ELSE f[p.base[d]]) + Own(p, d)
      <3>1. CASE p.base[d] = None
        BY <3>1, <1>1, <1>4
      <3>2. CASE p.base[d] # None
        <4>1. f[p.base[d]] \in Nat
          BY <3>2, <1>5
        <4>2. G[d][f[p.base[d]]] = f[p.base[d]] + own[d]
          BY <4>1, <1>2
        <4>3. f[d] = f[p.base[d]] + Own(p, d)
          BY <3>2, <4>2, <1>1, <1>4
        <4>. QED
          BY <3>2, <4>3
      <3>. QED
        BY <3>1, <3>2
    <2>. QED
      BY <2>1 DEF SizeOf
  <1>7. Size(p) \in [Classes -> Nat] /\ SizeOf(p, Size(p))
    BY <1>6 DEF Size
  <1>8. Size(p)[c] = (IF p.base[c] = None THEN 0 ELSE Size(p)[p.base[c]]) + Own(p, c)
    BY <1>7 DEF SizeOf
  <1>. QED
    BY <1>5, <1>7, <1>8 DEF SizeShape, Low

\* The table of a class has at least the slots of its bases.
LEMMA SizeGrows ==
  ASSUME NEW p \in Programs, NEW c \in Classes
  PROVE  \A d \in Anc(p, c) : Size(p)[d] <= Size(p)[c]
  <1> DEFINE S == {e \in Classes : \A d \in Anc(p, e) : Size(p)[d] <= Size(p)[e]}
  <1>1. ASSUME NEW e \in Classes, p.base[e] = None \/ p.base[e] \in S PROVE e \in S
    <2>1. Size(p)[e] \in Nat
      BY SizeIs DEF SizeShape
    <2>2. CASE p.base[e] = None
      <3>1. Anc(p, e) = {e}
        BY <2>2, AncIs
      <3>. QED
        BY <3>1, <2>1
    <2>3. CASE p.base[e] # None
      <3> DEFINE b == p.base[e]
      <3>1. b \in Classes /\ b \in S /\ Anc(p, e) = Anc(p, b) \cup {e}
        BY <1>1, <2>3, AncIs
      <3>2. Size(p)[b] \in Nat /\ Own(p, e) \in Nat /\ Size(p)[e] = Size(p)[b] + Own(p, e)
        BY <2>3, <3>1, SizeIs, OwnIsNat DEF SizeShape
      <3>3. \A d \in Anc(p, b) : Size(p)[d] \in Nat
        BY <3>1, AncFacts, SizeIs DEF AncShape, SizeShape
      <3> HIDE DEF b
      <3>4. \A d \in Anc(p, b) : Size(p)[d] <= Size(p)[e]
        BY <3>1, <3>2, <3>3
      <3>. QED
        BY <3>1, <3>4, <2>1
    <2>. QED
      BY <2>2, <2>3
  <1>2. Classes \subseteq S
    <2> HIDE DEF S
    <2>. QED
      BY <1>1, ClassInduction
  <1>. QED
    BY <1>2

-----------------------------------------------------------------------------
(* Which method is in which slot                                             *)

PlainShape(p, c) ==
  /\ p.base[c] = None => p.lists[c] = <<>> /\ p.names[c] # <<>> /\ \A n \in NamesOf(p, c) : <<c, n>> \in p.newslot
  /\ \A n \in NamesOf(p, c) : <<c, n>> \in p.newslot => \A d \in Anc(p, c) : d # c => n \notin NamesOf(p, d)
  /\ \A n \in NamesOf(p, c) : <<c, n>> \notin p.newslot => \E d \in Anc(p, c) : d # c /\ <<d, n>> \in p.newslot
  /\ \A i \in ToSet(p.lists[c]) : \A n \in NamesOf(p, i) :
       /\ <<c, n>> \in p.newslot /\ n \in NamesOf(p, c)
       /\ \A j \in ToSet(p.lists[c]) : n \in NamesOf(p, j) => j = i

\* PlainAssumption, by the bases of a class.
LEMMA PlainIs ==
  ASSUME NEW p \in Programs, NEW c \in Classes
  PROVE  PlainShape(p, c)
  <1>1. /\ p.base[c] = None => p.lists[c] = <<>> /\ p.names[c] # <<>>
        /\ \A n \in NamesOf(p, c) :
             IF <<c, n>> \in p.newslot
             THEN \A d \in Anc(p, c) \ {c} : n \notin NamesOf(p, d)
             ELSE \E d \in Anc(p, c) \ {c} : <<d, n>> \in p.newslot
        /\ \A i \in ToSet(p.lists[c]) : \A n \in NamesOf(p, i) :
             /\ <<c, n>> \in p.newslot
             /\ \A j \in ToSet(p.lists[c]) \ {i} : n \notin NamesOf(p, j)
    BY PlainAssumption DEF Anc
  <1>2. p.base[c] = None => Anc(p, c) = {c}
    BY AncIs
  <1>3. \A n : <<c, n>> \in p.newslot => n \in NamesOf(p, c)
    BY MethodIs
  <1>. QED
    BY <1>1, <1>2, <1>3 DEF PlainShape

\* Of two bases of a class, one is a base of the other.
LEMMA Chain ==
  ASSUME NEW p \in Programs, NEW c \in Classes, NEW d \in Anc(p, c), NEW e \in Anc(p, c)
  PROVE  d \in Anc(p, e) \/ e \in Anc(p, d)
  <1> DEFINE S == {x \in Classes : \A y, z \in Anc(p, x) : y \in Anc(p, z) \/ z \in Anc(p, y)}
  <1>1. ASSUME NEW x \in Classes, p.base[x] = None \/ p.base[x] \in S PROVE x \in S
    <2>1. CASE p.base[x] = None
      <3>1. Anc(p, x) = {x}
        BY <2>1, AncIs
      <3>. QED
        BY <3>1
    <2>2. CASE p.base[x] # None
      <3>1. Anc(p, x) = Anc(p, p.base[x]) \cup {x}
        BY <2>2, AncIs
      <3>2. x \in Anc(p, x)
        BY <3>1
      <3>. QED
        BY <3>1, <3>2, <1>1, <2>2
    <2>. QED
      BY <2>1, <2>2
  <1>2. Classes \subseteq S
    <2> HIDE DEF S
    <2>. QED
      BY <1>1, ClassInduction
  <1>. QED
    BY <1>2

\* A method is a new slot once in a hierarchy.
LEMMA OneSlot ==
  ASSUME NEW p \in Programs, NEW c \in Classes, NEW n, NEW d \in Anc(p, c), NEW e \in Anc(p, c),
         <<d, n>> \in p.newslot, <<e, n>> \in p.newslot
  PROVE  d = e
  <1>1. d \in Classes /\ e \in Classes /\ n \in NamesOf(p, d) /\ n \in NamesOf(p, e)
    BY MethodIs
  <1>2. d \in Anc(p, e) \/ e \in Anc(p, d)
    BY Chain
  <1>3. PlainShape(p, d) /\ PlainShape(p, e)
    BY <1>1, PlainIs
  <1>. QED
    BY <1>1, <1>2, <1>3 DEF PlainShape

\* IDX numbers the methods of C: those of its interfaces, in their order, its other new
\* slots, and what overrides as what is overridden.
ByIface(p, idx, c) ==
  \A a \in 1..Len(p.lists[c]) : \A b \in 1..Len(p.names[p.lists[c][a]]) :
    idx[<<c, p.names[p.lists[c][a]][b]>>] = Low(p, c) + Off(p, c)[a - 1] + (b - 1)
ByRank(p, idx, c) ==
  \A k \in 1..Len(p.names[c]) : p.names[c][k] \in Fresh(p, c) =>
    idx[<<c, p.names[c][k]>>] = Low(p, c) + Off(p, c)[Len(p.lists[c])] + Rank(p, c)[k - 1]
ByBase(p, idx, c) ==
  \A n \in NamesOf(p, c) : <<c, n>> \notin p.newslot =>
    \A d \in Anc(p, c) : <<d, n>> \in p.newslot => idx[<<c, n>>] = idx[<<d, n>>]

Numbered(p, idx, c) == ByIface(p, idx, c) /\ ByRank(p, idx, c) /\ ByBase(p, idx, c)

\* A new slot is of an interface that the class lists, or fresh.
SlotShape(p, c, n) ==
  \/ \E a \in 1..Len(p.lists[c]) : \E b \in 1..Len(p.names[p.lists[c][a]]) :
       n = p.names[p.lists[c][a]][b]
  \/ \E k \in 1..Len(p.names[c]) : n = p.names[c][k] /\ n \in Fresh(p, c)

\* That is all a new slot can be.
LEMMA SlotIs ==
  ASSUME NEW p \in Programs, NEW c \in Classes, NEW n, <<c, n>> \in p.newslot
  PROVE  SlotShape(p, c, n)
  <1>1. n \in NamesOf(p, c)
    BY MethodIs
  <1>2. ListShape(p.lists[c], Interfaces) /\ ListShape(p.names[c], NamesOf(p, c))
    BY ProgramLists, TypesAre
  <1>3. CASE n \in IfaceMethods(p, c)
    <2>1. PICK i \in ToSet(p.lists[c]) : n \in NamesOf(p, i)
      BY <1>3 DEF IfaceMethods
    <2>2. PICK a \in 1..Len(p.lists[c]) : p.lists[c][a] = i
      BY <1>2 DEF ListShape
    <2>3. ListShape(p.names[i], NamesOf(p, i))
      <3>1. i \in Types
        BY <1>2, TypesAre DEF ListShape
      <3>. QED
        BY <3>1, ProgramLists
    <2>4. PICK b \in 1..Len(p.names[i]) : p.names[i][b] = n
      BY <2>1, <2>3 DEF ListShape, NamesOf
    <2>. QED
      BY <2>2, <2>4 DEF SlotShape
  <1>4. CASE n \notin IfaceMethods(p, c)
    <2>1. n \in Fresh(p, c)
      BY <1>1, <1>4 DEF Fresh
    <2>2. PICK k \in 1..Len(p.names[c]) : p.names[c][k] = n
      BY <1>1, <1>2 DEF ListShape, NamesOf
    <2>. QED
      BY <2>1, <2>2 DEF SlotShape
  <1>. QED
    BY <1>3, <1>4

\* Two numberings of a class and its bases are the same.
LEMMA NumbersUnique ==
  ASSUME NEW p \in Programs, NEW c \in Classes, NEW f, NEW g,
         \A d \in Anc(p, c) : Numbered(p, f, d) /\ Numbered(p, g, d)
  PROVE  \A n \in NamesOf(p, c) : f[<<c, n>>] = g[<<c, n>>]
  <1>1. ASSUME NEW d \in Anc(p, c), NEW n, <<d, n>> \in p.newslot PROVE f[<<d, n>>] = g[<<d, n>>]
    <2>1. SlotShape(p, d, n)
      BY <1>1, SlotIs, MethodIs
    <2>2. CASE \E a \in 1..Len(p.lists[d]) : \E b \in 1..Len(p.names[p.lists[d][a]]) :
                 n = p.names[p.lists[d][a]][b]
      <3>1. PICK a \in 1..Len(p.lists[d]) : \E b \in 1..Len(p.names[p.lists[d][a]]) :
              n = p.names[p.lists[d][a]][b]
        BY <2>2
      <3>2. PICK b \in 1..Len(p.names[p.lists[d][a]]) : n = p.names[p.lists[d][a]][b]
        BY <3>1
      <3>3. ByIface(p, f, d) /\ ByIface(p, g, d)
        BY DEF Numbered
      <3>4. f[<<d, n>>] = Low(p, d) + Off(p, d)[a - 1] + (b - 1)
        BY <3>2, <3>3 DEF ByIface
      <3>5. g[<<d, n>>] = Low(p, d) + Off(p, d)[a - 1] + (b - 1)
        BY <3>2, <3>3 DEF ByIface
      <3>. QED
        BY <3>4, <3>5
    <2>3. CASE \E k \in 1..Len(p.names[d]) : n = p.names[d][k] /\ n \in Fresh(p, d)
      BY <2>3 DEF Numbered, ByRank
    <2>. QED
      BY <2>1, <2>2, <2>3 DEF SlotShape
  <1>2. ASSUME NEW n \in NamesOf(p, c), <<c, n>> \notin p.newslot PROVE f[<<c, n>>] = g[<<c, n>>]
    <2>1. PICK d \in Anc(p, c) : <<d, n>> \in p.newslot
      BY <1>2, PlainIs DEF PlainShape
    <2>2. f[<<c, n>>] = f[<<d, n>>] /\ g[<<c, n>>] = g[<<d, n>>]
      BY <1>2, <2>1, AncFacts DEF AncShape, Numbered, ByBase
    <2>. QED
      BY <1>1, <2>1, <2>2
  <1>3. c \in Anc(p, c)
    BY AncFacts DEF AncShape
  <1>. QED
    BY <1>1, <1>2, <1>3

\* A method has the same number in all classes of a hierarchy.
LEMMA SameNumber ==
  ASSUME NEW p \in Programs, NEW c \in Classes, NEW f, \A d \in Anc(p, c) : Numbered(p, f, d),
         NEW n, NEW d \in Anc(p, c), NEW e \in Anc(p, c), n \in NamesOf(p, d), n \in NamesOf(p, e)
  PROVE  f[<<d, n>>] = f[<<e, n>>]
  <1>1. ASSUME NEW x \in Anc(p, c), n \in NamesOf(p, x)
        PROVE  \E y \in Anc(p, c) : <<y, n>> \in p.newslot /\ f[<<x, n>>] = f[<<y, n>>]
    <2>1. x \in Classes /\ Anc(p, x) \subseteq Anc(p, c)
      BY AncFacts DEF AncShape
    <2>2. CASE <<x, n>> \notin p.newslot
      <3>1. PICK y \in Anc(p, x) : <<y, n>> \in p.newslot
        BY <2>1, <2>2, <1>1, PlainIs DEF PlainShape
      <3>2. f[<<x, n>>] = f[<<y, n>>]
        BY <1>1, <2>2, <3>1 DEF Numbered, ByBase
      <3>. QED
        BY <2>1, <3>1, <3>2
    <2>. QED
      BY <2>2
  <1>2. PICK y \in Anc(p, c) : <<y, n>> \in p.newslot /\ f[<<d, n>>] = f[<<y, n>>]
    BY <1>1
  <1>3. PICK z \in Anc(p, c) : <<z, n>> \in p.newslot /\ f[<<e, n>>] = f[<<z, n>>]
    BY <1>1
  <1>4. y = z
    BY <1>2, <1>3, OneSlot
  <1>. QED
    BY <1>2, <1>3, <1>4

\* The new slots of C have the numbers from LOW to SIZE, each one.
NumberShape(p, f, c) ==
  /\ \A n : <<c, n>> \in p.newslot =>
       f[<<c, n>>] \in Nat /\ Low(p, c) <= f[<<c, n>>] /\ f[<<c, n>>] < Size(p)[c]
  /\ \A n, m : <<c, n>> \in p.newslot /\ <<c, m>> \in p.newslot /\ f[<<c, n>>] = f[<<c, m>>] => n = m
  /\ \A v \in Nat : Low(p, c) <= v /\ v < Size(p)[c] =>
       \E k \in 1..Len(p.names[c]) : <<c, p.names[c][k]>> \in p.newslot /\ f[<<c, p.names[c][k]>>] = v

\* The number of the method at B of the interface at A.
LEMMA IfaceNumber ==
  ASSUME NEW p \in Programs, NEW c \in Classes, NEW f, ByIface(p, f, c),
         NEW a \in 1..Len(p.lists[c]), NEW b \in 1..Len(p.names[p.lists[c][a]])
  PROVE  \E v \in Nat : /\ f[<<c, p.names[p.lists[c][a]][b]>>] = Low(p, c) + v
                        /\ Off(p, c)[a - 1] <= v /\ v < Off(p, c)[a] /\ b = v - Off(p, c)[a - 1] + 1
                        /\ Off(p, c)[a] <= Off(p, c)[Len(p.lists[c])]
  <1> DEFINE o == Off(p, c)
             n == Len(p.lists[c])
             l == Len(p.names[p.lists[c][a]])
  <1>1. n \in Nat /\ p.lists[c][a] \in Types
    BY ProgramLists, TypesAre DEF ListShape
  <1>2. l \in Nat
    BY <1>1, ProgramLists DEF ListShape
  <1>3. o \in [0..n -> Nat] /\ o[a] = o[a - 1] + l /\ o[a] <= o[n]
    <2>1. o \in [0..n -> Nat] /\ o[a] = o[a - 1] + l /\ \A j, k \in 0..n : j <= k => o[j] <= o[k]
      BY OffIs DEF OffShape, GrowShape
    <2>. QED
      BY <2>1, <1>1
  <1>4. f[<<c, p.names[p.lists[c][a]][b]>>] = Low(p, c) + o[a - 1] + (b - 1)
    BY DEF ByIface
  <1>5. Low(p, c) \in Nat
    BY SizeIs DEF SizeShape
  <1>6. o[a - 1] \in Nat /\ o[a] \in Nat /\ o[n] \in Nat /\ b \in Nat /\ b >= 1 /\ b <= l
    BY <1>1, <1>2, <1>3
  <1> HIDE DEF o, n, l
  <1> DEFINE v == o[a - 1] + (b - 1)
  <1>7. /\ v \in Nat /\ Low(p, c) + o[a - 1] + (b - 1) = Low(p, c) + v
        /\ o[a - 1] <= v /\ v < o[a] /\ b = v - o[a - 1] + 1
    <2> DEFINE x == o[a - 1]
               y == o[a]
               low == Low(p, c)
    <2>1. x \in Nat /\ y = x + l /\ l \in Nat /\ low \in Nat /\ b \in Nat /\ b >= 1 /\ b <= l
      BY <1>2, <1>3, <1>5, <1>6
    <2> HIDE DEF x, y, low
    <2>2. /\ x + (b - 1) \in Nat /\ low + x + (b - 1) = low + (x + (b - 1))
          /\ x <= x + (b - 1) /\ x + (b - 1) < y /\ b = x + (b - 1) - x + 1
      BY <2>1
    <2>. QED
      <3>1. v = x + (b - 1)
        BY DEF x
      <3> HIDE DEF v
      <3>2. v \in Nat /\ low + x + (b - 1) = low + v /\ x <= v /\ v < y /\ b = v - x + 1
        BY <3>1, <2>1, <2>2
      <3>. QED
        BY <3>2 DEF x, y, low
  <1> HIDE DEF v
  <1>8. f[<<c, p.names[p.lists[c][a]][b]>>] = Low(p, c) + v
    BY <1>4, <1>7
  <1>. QED
    BY <1>3, <1>7, <1>8 DEF o, n

\* The number of the fresh method at K.
LEMMA FreshNumber ==
  ASSUME NEW p \in Programs, NEW c \in Classes, NEW f, ByRank(p, f, c),
         NEW k \in 1..Len(p.names[c]), p.names[c][k] \in Fresh(p, c)
  PROVE  \E v \in Nat : /\ f[<<c, p.names[c][k]>>] = Low(p, c) + Off(p, c)[Len(p.lists[c])] + v
                        /\ Rank(p, c)[k - 1] = v /\ Rank(p, c)[k] = v + 1
                        /\ v < Rank(p, c)[Len(p.names[c])]
  <1> DEFINE r == Rank(p, c)
             n == Len(p.names[c])
  <1>1. n \in Nat
    BY ProgramLists, TypesAre DEF ListShape
  <1>2. r \in [0..n -> Nat] /\ r[k] = r[k - 1] + 1 /\ \A i, j \in 0..n : i <= j => r[i] <= r[j]
    BY RankIs DEF RankShape, GrowShape
  <1>3. r[k - 1] \in Nat /\ r[k] \in Nat /\ r[n] \in Nat /\ r[k] <= r[n]
    BY <1>1, <1>2
  <1>4. f[<<c, p.names[c][k]>>] = Low(p, c) + Off(p, c)[Len(p.lists[c])] + r[k - 1]
    BY DEF ByRank
  <1> HIDE DEF r, n
  <1>5. PICK v \in Nat : v = r[k - 1] /\ r[k] = v + 1 /\ v < r[n]
    BY <1>2, <1>3
  <1>. QED
    BY <1>4, <1>5 DEF r, n

\* So a numbering gives the new slots of a class consecutive numbers.
LEMMA NumberIs ==
  ASSUME NEW p \in Programs, NEW c \in Classes, NEW f, Numbered(p, f, c)
  PROVE  NumberShape(p, f, c)
  <1> DEFINE L == Len(p.lists[c])
             M == Len(p.names[c])
             o == Off(p, c)
             r == Rank(p, c)
             low == Low(p, c)
             size == Size(p)[c]
             Iface(n, a, b, v) ==
               /\ n = p.names[p.lists[c][a]][b] /\ f[<<c, n>>] = low + v
               /\ o[a - 1] <= v /\ v < o[a] /\ b = v - o[a - 1] + 1 /\ v < o[L]
             Fr(n, k, v) ==
               /\ n = p.names[c][k] /\ f[<<c, n>>] = low + o[L] + v
               /\ r[k - 1] = v /\ r[k] = v + 1 /\ v < r[M]
  <1>1. L \in Nat /\ M \in Nat /\ \A a \in 1..L : p.lists[c][a] \in Types
    BY ProgramLists, TypesAre DEF ListShape
  <1>2. /\ o \in [0..L -> Nat] /\ r \in [0..M -> Nat] /\ low \in Nat /\ size \in Nat
        /\ size = low + (o[L] + r[M]) /\ o[L] \in Nat /\ r[M] \in Nat
    <2>1. o \in [0..L -> Nat] /\ r \in [0..M -> Nat] /\ low \in Nat /\ size \in Nat
      BY OffIs, RankIs, SizeIs DEF OffShape, RankShape, SizeShape
    <2>2. size = low + (o[L] + r[M])
      BY SizeIs DEF SizeShape, Own
    <2>. QED
      BY <1>1, <2>1, <2>2
  <1>3. ASSUME NEW n, <<c, n>> \in p.newslot
        PROVE  \/ \E a \in 1..L : \E b \in 1..Len(p.names[p.lists[c][a]]) : \E v \in Nat : Iface(n, a, b, v)
               \/ \E k \in 1..M : \E v \in Nat : Fr(n, k, v)
    <2>1. SlotShape(p, c, n)
      BY <1>3, SlotIs
    <2>2. CASE \E a \in 1..L : \E b \in 1..Len(p.names[p.lists[c][a]]) : n = p.names[p.lists[c][a]][b]
      <3>1. PICK a \in 1..L : \E b \in 1..Len(p.names[p.lists[c][a]]) : n = p.names[p.lists[c][a]][b]
        BY <2>2
      <3>2. PICK b \in 1..Len(p.names[p.lists[c][a]]) : n = p.names[p.lists[c][a]][b]
        BY <3>1
      <3>3. ByIface(p, f, c)
        BY DEF Numbered
      <3>4. \E v \in Nat : /\ f[<<c, p.names[p.lists[c][a]][b]>>] = low + v
                           /\ o[a - 1] <= v /\ v < o[a] /\ b = v - o[a - 1] + 1 /\ o[a] <= o[L]
        BY <3>3, IfaceNumber
      <3> HIDE DEF o, low, L
      <3>5. o[a] \in Nat
        BY <1>1, <1>2
      <3>6. \E v \in Nat : Iface(n, a, b, v)
        BY <3>2, <3>4, <3>5, <1>2
      <3>. QED
        BY <3>6
    <2>3. CASE \E k \in 1..M : n = p.names[c][k] /\ n \in Fresh(p, c)
      <3>1. PICK k \in 1..M : n = p.names[c][k] /\ n \in Fresh(p, c)
        BY <2>3
      <3>2. ByRank(p, f, c)
        BY DEF Numbered
      <3>3. \E v \in Nat : /\ f[<<c, p.names[c][k]>>] = low + o[L] + v
                           /\ r[k - 1] = v /\ r[k] = v + 1 /\ v < r[M]
        BY <3>1, <3>2, FreshNumber
      <3> HIDE DEF o, r, low, L, M
      <3>. QED
        BY <3>1, <3>3
    <2>. QED
      BY <2>1, <2>2, <2>3 DEF SlotShape
  <1> HIDE DEF o, r, low, size, L, M
  <1>4. ASSUME NEW n, <<c, n>> \in p.newslot
        PROVE  f[<<c, n>>] \in Nat /\ low <= f[<<c, n>>] /\ f[<<c, n>>] < size
    <2>1. ASSUME NEW a, NEW b, NEW v \in Nat, Iface(n, a, b, v)
          PROVE  f[<<c, n>>] \in Nat /\ low <= f[<<c, n>>] /\ f[<<c, n>>] < size
      <3>1. f[<<c, n>>] = low + v /\ v < o[L]
        BY <2>1
      <3>. QED
        BY <3>1, <1>2
    <2>2. ASSUME NEW k, NEW v \in Nat, Fr(n, k, v)
          PROVE  f[<<c, n>>] \in Nat /\ low <= f[<<c, n>>] /\ f[<<c, n>>] < size
      <3>1. f[<<c, n>>] = low + o[L] + v /\ v < r[M]
        BY <2>2
      <3>. QED
        BY <3>1, <1>2
    <2> HIDE DEF Iface, Fr
    <2>. QED
      BY <1>3, <1>4, <2>1, <2>2
  <1>5. /\ GrowShape(L, o) /\ GrowShape(M, r)
    BY OffIs, RankIs DEF OffShape, RankShape, o, r, L, M
  <1>6. ASSUME NEW n, NEW m, <<c, n>> \in p.newslot, <<c, m>> \in p.newslot, f[<<c, n>>] = f[<<c, m>>]
        PROVE  n = m
    <2>1. ASSUME NEW a \in 1..L, NEW b, NEW x \in 1..L, NEW y, NEW v \in Nat, NEW w \in Nat,
                 Iface(n, a, b, v), Iface(m, x, y, w)
          PROVE  n = m
      <3>1. v = w
        BY <2>1, <1>2, <1>6
      <3>2. \A i, j \in 0..L : i <= j => o[i] <= o[j]
        BY <1>5 DEF GrowShape
      <3>3. /\ o[a - 1] \in Nat /\ o[a] \in Nat /\ o[x - 1] \in Nat /\ o[x] \in Nat
            /\ (a < x => o[a] <= o[x - 1]) /\ (x < a => o[x] <= o[a - 1])
        BY <1>1, <1>2, <3>2
      <3>4. a = x
        BY <2>1, <3>1, <3>3
      <3>5. b = y
        BY <2>1, <3>1, <3>4
      <3>. QED
        BY <2>1, <3>4, <3>5
    <2>2. ASSUME NEW k \in 1..M, NEW j \in 1..M, NEW v \in Nat, NEW w \in Nat, Fr(n, k, v), Fr(m, j, w)
          PROVE  n = m
      <3>1. v = w
        BY <2>2, <1>2, <1>6
      <3>2. \A x, y \in 0..M : x <= y => r[x] <= r[y]
        BY <1>5 DEF GrowShape
      <3>3. /\ r[k - 1] \in Nat /\ r[k] \in Nat /\ r[j - 1] \in Nat /\ r[j] \in Nat
            /\ (k < j => r[k] <= r[j - 1]) /\ (j < k => r[j] <= r[k - 1])
        BY <1>1, <1>2, <3>2
      <3>4. k = j
        BY <2>2, <3>1, <3>3
      <3>. QED
        BY <2>2, <3>4
    <2>3. ASSUME NEW a, NEW b, NEW k, NEW v \in Nat, NEW w \in Nat, NEW x, NEW y, Iface(x, a, b, v), Fr(y, k, w),
                 f[<<c, x>>] = f[<<c, y>>]
          PROVE  FALSE
      BY <2>3, <1>2
    <2> HIDE DEF Iface, Fr
    <2>. QED
      BY <1>3, <1>6, <2>1, <2>2, <2>3
  <1>7. ASSUME NEW v \in Nat, low <= v, v < size
        PROVE  \E k \in 1..M : <<c, p.names[c][k]>> \in p.newslot /\ f[<<c, p.names[c][k]>>] = v
    <2>1. CASE v - low < o[L]
      <3> DEFINE w == v - low
      <3>1. w \in Nat /\ w < o[L]
        BY <2>1, <1>7, <1>2
      <3> HIDE DEF w
      <3>2. PICK a \in 1..L : o[a - 1] <= w /\ w < o[a]
        BY <3>1, <1>5 DEF GrowShape
      <3> DEFINE i == p.lists[c][a]
                 b == w - o[a - 1] + 1
      <3>3. /\ o[a] = o[a - 1] + Len(p.names[i]) /\ i \in Types /\ i \in ToSet(p.lists[c])
            /\ Len(p.names[i]) \in Nat
        <4>1. o[a] = o[a - 1] + Len(p.names[i])
          BY OffIs DEF OffShape, o, L
        <4>2. i \in Types /\ i \in ToSet(p.lists[c])
          BY <1>1, ProgramLists, TypesAre DEF ListShape, L
        <4>3. Len(p.names[i]) \in Nat
          BY <4>2, ProgramLists DEF ListShape
        <4>. QED
          BY <4>1, <4>2, <4>3
      <3>4. o[a - 1] \in Nat /\ o[a] \in Nat
        BY <1>1, <1>2
      <3>5. b \in 1..Len(p.names[i])
        <4> DEFINE l == Len(p.names[i])
                   x == o[a - 1]
        <4>1. l \in Nat /\ x \in Nat /\ w \in Nat /\ x <= w /\ w < x + l
          BY <3>1, <3>2, <3>3, <3>4
        <4> HIDE DEF l, x
        <4>2. w - x + 1 \in 1..l
          BY <4>1
        <4>. QED
          BY <4>2 DEF l, x
      <3>6. f[<<c, p.names[i][b]>>] = low + o[a - 1] + (b - 1)
        BY <3>5 DEF Numbered, ByIface, low, o, L
      <3>7. low + o[a - 1] + (b - 1) = v
        BY <3>1, <3>4, <1>2 DEF w
      <3>8. p.names[i][b] \in NamesOf(p, i)
        BY <3>3, <3>5, ProgramLists DEF ListShape
      <3> DEFINE n == p.names[i][b]
      <3> HIDE DEF i, b
      <3>9. <<c, n>> \in p.newslot /\ n \in NamesOf(p, c)
        BY <3>3, <3>8, PlainIs DEF PlainShape
      <3> HIDE DEF n
      <3>10. PICK k \in 1..M : p.names[c][k] = n
        <4>1. ListShape(p.names[c], NamesOf(p, c)) /\ n \in ToSet(p.names[c])
          BY <3>9, ProgramLists, TypesAre DEF NamesOf
        <4>. QED
          BY <4>1 DEF ListShape, M
      <3>. QED
        BY <3>6, <3>7, <3>9, <3>10 DEF n
    <2>2. CASE v - low >= o[L]
      <3> DEFINE w == v - low - o[L]
      <3>1. w \in Nat /\ w < r[M]
        BY <2>2, <1>7, <1>2
      <3> HIDE DEF w
      <3>2. PICK k \in 1..M : r[k - 1] <= w /\ w < r[k]
        BY <3>1, <1>5 DEF GrowShape
      <3>3. r[k] = r[k - 1] + (IF p.names[c][k] \in Fresh(p, c) THEN 1 ELSE 0)
        BY RankIs DEF RankShape, r, M
      <3>4. r[k - 1] \in Nat /\ r[k] \in Nat
        BY <1>1, <1>2
      <3>5. p.names[c][k] \in Fresh(p, c) /\ r[k - 1] = w
        BY <3>1, <3>2, <3>3, <3>4
      <3>6. f[<<c, p.names[c][k]>>] = low + o[L] + r[k - 1]
        BY <3>5 DEF Numbered, ByRank, low, o, L, r, M
      <3>7. low + o[L] + w = v
        BY <3>1, <1>2 DEF w
      <3>8. <<c, p.names[c][k]>> \in p.newslot
        BY <3>5 DEF Fresh
      <3>. QED
        BY <3>5, <3>6, <3>7, <3>8
    <2>3. v - low < o[L] \/ v - low >= o[L]
      BY <1>2
    <2>. QED
      BY <2>1, <2>2, <2>3
  <1>. QED
    BY <1>4, <1>6, <1>7 DEF NumberShape, low, size, M

-----------------------------------------------------------------------------
(* The hierarchy, class by class                                             *)

PathShape(p, c, s) ==
  /\ s \in Seq(Classes) /\ Len(s) \in Nat \ {0} /\ DOMAIN s = 1..Len(s)
  /\ s[Len(s)] = c /\ p.base[s[1]] = None
  /\ \A k \in 1..Len(s) : s[k] \in Classes
  /\ \A k \in 1..Len(s) : k > 1 => p.base[s[k]] = s[k - 1]
  /\ \A k \in 1..Len(s) : \A d : d \in Anc(p, s[k]) <=> \E j \in 1..k : s[j] = d
  /\ \A j, k \in 1..Len(s) : s[j] = s[k] => j = k

\* The hierarchy of a class is that of its base and the class.
LEMMA PathAppend ==
  ASSUME NEW p \in Programs, NEW c \in Classes, p.base[c] # None, NEW u, PathShape(p, p.base[c], u),
         NEW s, s = Append(u, c)
  PROVE  PathShape(p, c, s)
  <1> DEFINE n == Len(u)
  <1>1. /\ u \in Seq(Classes) /\ n \in Nat /\ n > 0 /\ DOMAIN u = 1..n
        /\ u[n] = p.base[c] /\ p.base[u[1]] = None /\ (\A k \in 1..n : u[k] \in Classes)
        /\ (\A k \in 1..n : k > 1 => p.base[u[k]] = u[k - 1])
        /\ (\A k \in 1..n : \A d : d \in Anc(p, u[k]) <=> \E j \in 1..k : u[j] = d)
        /\ (\A j, k \in 1..n : u[j] = u[k] => j = k)
    BY DEF PathShape
  <1>2. /\ s \in Seq(Classes) /\ Len(s) = n + 1 /\ s[n + 1] = c
        /\ \A k \in 1..n : s[k] = u[k]
    BY <1>1, AppendProperties
  <1>3. /\ p.base[c] \in Classes /\ (\A d : d \in Anc(p, c) <=> d \in Anc(p, p.base[c]) \/ d = c)
        /\ c \notin Anc(p, p.base[c])
    BY AncIs, AncFacts DEF AncShape
  <1> HIDE DEF n
  <1>4. \A k \in 1..(n + 1) : k \in 1..n \/ k = n + 1
    BY <1>1
  <1>5. \A d : d \in Anc(p, p.base[c]) <=> \E j \in 1..n : u[j] = d
    BY <1>1
  <1>6. ASSUME NEW k \in 1..(n + 1), NEW d
        PROVE  d \in Anc(p, s[k]) <=> \E j \in 1..k : s[j] = d
    <2>1. CASE k \in 1..n
      <3>1. \A j \in 1..k : s[j] = u[j]
        BY <2>1, <1>1, <1>2
      <3>. QED
        BY <2>1, <3>1, <1>1, <1>2
    <2>2. CASE k = n + 1
      <3>1. d \in Anc(p, s[k]) <=> (\E j \in 1..n : u[j] = d) \/ d = c
        BY <2>2, <1>2, <1>3, <1>5
      <3>2. (\E j \in 1..n : u[j] = d) <=> \E j \in 1..n : s[j] = d
        BY <1>2
      <3>3. (\E j \in 1..k : s[j] = d) <=> (\E j \in 1..n : s[j] = d) \/ s[n + 1] = d
        BY <2>2, <1>1, <1>4
      <3>. QED
        BY <3>1, <3>2, <3>3, <1>2
    <2>. QED
      BY <2>1, <2>2, <1>4
  <1>7. \A k \in 1..n : u[k] # c
    BY <1>3, <1>5
  <1>8. \A j, k \in 1..(n + 1) : s[j] = s[k] => j = k
    BY <1>1, <1>2, <1>4, <1>7
  <1>9. \A k \in 1..(n + 1) : s[k] \in Classes /\ (k > 1 => p.base[s[k]] = s[k - 1])
    <2>1. ASSUME NEW k \in 1..n PROVE s[k] \in Classes /\ (k > 1 => p.base[s[k]] = s[k - 1])
      <3>1. k > 1 => k - 1 \in 1..n
        BY <1>1
      <3>. QED
        BY <3>1, <1>1, <1>2
    <2>2. p.base[s[n + 1]] = s[n] /\ n + 1 - 1 = n
      BY <1>1, <1>2
    <2>3. ASSUME NEW k, k = n + 1 PROVE s[k] \in Classes /\ p.base[s[k]] = s[k - 1]
      <3>1. k - 1 = n
        BY <2>3, <1>1
      <3>. QED
        BY <3>1, <2>2, <2>3, <1>2
    <2>. QED
      BY <2>1, <2>3, <1>4
  <1>10. DOMAIN s = 1..(n + 1) /\ n + 1 \in Nat \ {0} /\ p.base[s[1]] = None
    BY <1>1, <1>2
  <1>. QED
    BY <1>2, <1>6, <1>8, <1>9, <1>10 DEF PathShape

\* LineageOf is the hierarchy, from the root down.
LEMMA PathIs ==
  ASSUME NEW p \in Programs, NEW c \in Classes
  PROVE  PathShape(p, c, LineageOf(p, c))
  <1> DEFINE S == {d \in Classes : PathShape(p, d, LineageOf(p, d))}
  <1>1. ASSUME NEW d \in Classes, p.base[d] = None \/ p.base[d] \in S PROVE d \in S
    <2> DEFINE s == LineageOf(p, d)
    <2>1. CASE p.base[d] = None
      <3>1. s = <<d>>
        BY <2>1, LineageIs
      <3>2. \A x : x \in Anc(p, d) <=> x = d
        BY <2>1, AncIs
      <3>3. Len(s) = 1 /\ s[1] = d /\ s \in Seq(Classes) /\ DOMAIN s = 1..1
        BY <3>1
      <3> HIDE DEF s
      <3>4. \A k \in 1..1 : k = 1
        OBVIOUS
      <3>5. ASSUME NEW k \in 1..1, NEW x PROVE x \in Anc(p, s[k]) <=> \E j \in 1..k : s[j] = x
        BY <3>2, <3>3, <3>4
      <3>6. PathShape(p, d, s)
        BY <2>1, <3>3, <3>4, <3>5 DEF PathShape
      <3>. QED
        BY <3>6 DEF s
    <2>2. CASE p.base[d] # None
      <3> DEFINE u == LineageOf(p, p.base[d])
      <3>1. PathShape(p, p.base[d], u) /\ s = Append(u, d)
        BY <1>1, <2>2, LineageIs
      <3> HIDE DEF u, s
      <3>2. PathShape(p, d, s)
        BY <2>2, <3>1, PathAppend
      <3>. QED
        BY <3>2 DEF s
    <2>. QED
      BY <2>1, <2>2
  <1>2. Classes \subseteq S
    <2> HIDE DEF S
    <2>. QED
      BY <1>1, ClassInduction
  <1>. QED
    BY <1>2

\* The bases of a class, without the class.
LEMMA FrontIs ==
  ASSUME NEW p \in Programs, NEW c \in Classes, NEW s, s = LineageOf(p, c)
  PROVE  Front(s) \in Seq(Classes) /\ \A d : d \in ToSet(Front(s)) <=> d \in Anc(p, c) /\ d # c
  <1> DEFINE n == Len(s)
             u == Front(s)
  <1>1. PathShape(p, c, s)
    BY PathIs
  <1>2. /\ n \in Nat /\ n > 0 /\ s[n] = c /\ (\A k \in 1..n : s[k] \in Classes)
        /\ (\A d : d \in Anc(p, s[n]) <=> \E j \in 1..n : s[j] = d)
        /\ (\A j, k \in 1..n : s[j] = s[k] => j = k)
    BY <1>1 DEF PathShape
  <1> HIDE DEF n
  <1>3. /\ u \in Seq(Classes) /\ Len(u) = n - 1 /\ \A k \in 1..(n - 1) : u[k] = s[k]
    <2> DEFINE m == n - 1
    <2>1. m \in Int /\ 1 \in Int /\ m >= 0 /\ (\A k \in 1..m : s[k] \in Classes) /\ u = SubSeq(s, 1, m)
      BY <1>2 DEF Front, n
    <2> HIDE DEF u, m
    <2>2. /\ u \in Seq(Classes) /\ Len(u) = (IF 1 <= m THEN m - 1 + 1 ELSE 0)
          /\ \A i \in 1..(m - 1 + 1) : u[i] = s[1 + i - 1]
      <3>1. /\ SubSeq(s, 1, m) \in Seq(Classes)
            /\ Len(SubSeq(s, 1, m)) = (IF 1 <= m THEN m - 1 + 1 ELSE 0)
            /\ \A i \in 1..(m - 1 + 1) : SubSeq(s, 1, m)[i] = s[1 + i - 1]
        BY ONLY <2>1, SubSeqProperties
      <3>. QED
        BY <3>1, <2>1
    <2>3. m - 1 + 1 = m /\ \A i \in 1..m : 1 + i - 1 = i
      BY <2>1
    <2>. QED
      BY <2>1, <2>2, <2>3 DEF m
  <1> HIDE DEF u
  <1>4. DOMAIN u = 1..(n - 1)
    BY <1>2, <1>3
  <1>5. ASSUME NEW d PROVE d \in ToSet(u) <=> d \in Anc(p, c) /\ d # c
    <2>1. d \in ToSet(u) <=> \E k \in 1..(n - 1) : s[k] = d
      BY <1>3, <1>4 DEF ToSet
    <2>2. \A k \in 1..n : k \in 1..(n - 1) \/ k = n
      BY <1>2
    <2>3. \A k \in 1..(n - 1) : k \in 1..n /\ k # n
      BY <1>2
    <2>4. n \in 1..n
      BY <1>2
    <2>. QED
      BY <2>1, <2>2, <2>3, <2>4, <1>2
  <1>. QED
    BY <1>3, <1>5 DEF u

-----------------------------------------------------------------------------
(* The numbering of the methods                                              *)

\* What a method of a class overrides.
OverrideShape(c, n) ==
  /\ <<c, n>> \in prog.newslot => MemberBase(<<c, n>>) = None
  /\ <<c, n>> \notin prog.newslot =>
       /\ MemberBase(<<c, n>>) # None
       /\ \E d \in Anc(prog, c) : d # c /\ <<d, n>> \in prog.newslot /\ MemberBase(<<c, n>>) = <<d, n>>

\* ILMemberGetBase finds what a method overrides if it is no new slot.
LEMMA OverrideIs ==
  ASSUME prog \in Programs, NEW c \in Classes, NEW n \in NamesOf(prog, c)
  PROVE  OverrideShape(c, n)
  <1> DEFINE T == {e \in Classes : <<e, n>> \in prog.newslot}
             s == LineageOf(prog, c)
             u == Front(s)
             d == LastIn(u, T)
  <1>1. u \in Seq(Classes) /\ \A e : e \in ToSet(u) <=> e \in Anc(prog, c) /\ e # c
    BY FrontIs
  <1>2. LastShape(u, T)
    <2> HIDE DEF u, T
    <2>. QED
      BY <1>1, LastInIs
  <1>3. MemberBase(<<c, n>>) = IF d = None THEN None ELSE <<d, n>>
    BY DEF MemberBase, Lineage
  <1>4. \A e : e \in T <=> <<e, n>> \in prog.newslot
    BY MethodIs
  <1>5. PlainShape(prog, c)
    BY PlainIs
  <1>6. None \notin Classes /\ \A e : <<e, n>> \in prog.newslot => e \in Classes /\ <<e, n>> # None /\ n \in NamesOf(prog, e)
    <2>1. \A e : <<e, n>> \in prog.newslot => e \in Classes /\ n \in NamesOf(prog, e)
      BY MethodIs
    <2>2. \A e \in Classes : n \in NamesOf(prog, e) => <<e, n>> \in MethodsOf(prog)
      BY MethodIs, TypesAre
    <2>. QED
      BY <2>1, <2>2, MethodIs, TypesAre
  <1> HIDE DEF u, s, T
  <1>7. CASE <<c, n>> \in prog.newslot
    <2>1. ToSet(u) \cap T = {}
      BY <1>1, <1>4, <1>5, <1>6, <1>7 DEF PlainShape
    <2>2. d = None
      BY <2>1, <1>2 DEF LastShape
    <2>. QED
      BY <1>3, <1>7, <2>2 DEF OverrideShape
  <1>8. CASE <<c, n>> \notin prog.newslot
    <2>1. ToSet(u) \cap T # {}
      BY <1>1, <1>4, <1>5, <1>8 DEF PlainShape
    <2>2. d \in ToSet(u) \cap T
      BY <2>1, <1>2 DEF LastShape
    <2> HIDE DEF d
    <2>3. d \in Anc(prog, c) /\ d # c /\ <<d, n>> \in prog.newslot /\ d # None /\ <<d, n>> # None
      BY <2>2, <1>1, <1>4, <1>6
    <2>. QED
      BY <1>3, <1>8, <2>3 DEF OverrideShape
  <1>. QED
    BY <1>7, <1>8

\* What create_virtual_methods_indices works on.
States(p) == [index : [MethodsOf(p) -> Nat], count : SUBSET MethodsOf(p), next : Nat, ok : BOOLEAN]

\* One method M gets the next index.
Next1(st, y, m) ==
  /\ y \in States(prog) /\ y.ok = st.ok /\ y.next = st.next + 1
  /\ y.count = st.count \cup {m}
  /\ y.index = [st.index EXCEPT ![m] = st.next]

\* A method of an interface that a class lists is a new slot of the class and gets the next index.
LEMMA ImplIs ==
  ASSUME prog \in Programs, NEW c, NEW n, <<c, n>> \in prog.newslot, NEW st \in States(prog)
  PROVE  Next1(st, IndexImpl(st, c, n), <<c, n>>)
  <1> DEFINE m == <<c, n>>
  <1>1. m \in MethodsOf(prog) /\ m # None
    BY ProgramAssumption
  <1>2. MethodImpl(c, n) = m
    BY DEF MethodImpl
  <1> HIDE DEF m
  <1> DEFINE y == [st EXCEPT !.index[m] = st.next, !.count = @ \cup {m}, !.next = @ + 1]
  <1>3. IndexImpl(st, c, n) = y
    BY <1>1, <1>2 DEF IndexImpl
  <1>4. /\ y.ok = st.ok /\ y.next = st.next + 1 /\ y.count = st.count \cup {m}
        /\ y.index = [st.index EXCEPT ![m] = st.next]
    BY DEF States
  <1>5. y \in States(prog)
    <2> DEFINE f == [st.index EXCEPT ![m] = st.next]
               q == st.count \cup {m}
               v == st.next + 1
    <2>1. /\ st.index \in [MethodsOf(prog) -> Nat] /\ st.count \in SUBSET MethodsOf(prog)
          /\ st.next \in Nat /\ st.ok \in BOOLEAN
      BY DEF States
    <2>2. f \in [MethodsOf(prog) -> Nat] /\ q \in SUBSET MethodsOf(prog) /\ v \in Nat
      BY <1>1, <2>1
    <2>3. y = [index |-> f, count |-> q, next |-> v, ok |-> st.ok]
      <3>1. y = [st EXCEPT !.index = f, !.count = q, !.next = v]
        OBVIOUS
      <3>2. st = [index |-> st.index, count |-> st.count, next |-> st.next, ok |-> st.ok]
        BY DEF States
      <3> HIDE DEF f, q, v, y
      <3>. QED
        BY <3>1, <3>2
    <2> HIDE DEF f, q, v, y
    <2>. QED
      BY <2>1, <2>2, <2>3 DEF States
  <1>6. Next1(st, y, m)
    BY <1>4, <1>5 DEF Next1
  <1>. QED
    BY <1>3, <1>6 DEF m

\* The first K of the names S were given indices, for the class C.
GivenShape(st, y, c, s, k) ==
  /\ y \in States(prog) /\ y.ok = st.ok /\ y.next = st.next + k
  /\ \A m : m \in y.count <=> m \in st.count \/ \E b \in 1..k : m = <<c, s[b]>>
  /\ \A b \in 1..k : y.index[<<c, s[b]>>] = st.next + (b - 1)
  /\ \A m \in MethodsOf(prog) : (\A b \in 1..k : m # <<c, s[b]>>) => y.index[m] = st.index[m]

\* One more name.
LEMMA GivenStep ==
  ASSUME prog \in Programs, NEW c, NEW s, NEW k \in Nat \ {0}, <<c, s[k]>> \in MethodsOf(prog),
         \A b \in 1..k : s[b] = s[k] => b = k, NEW st \in States(prog),
         NEW y, GivenShape(st, y, c, s, k - 1), NEW z, Next1(y, z, <<c, s[k]>>)
  PROVE  GivenShape(st, z, c, s, k)
  <1> DEFINE m == <<c, s[k]>>
  <1>1. /\ y \in States(prog) /\ y.ok = st.ok /\ y.next = st.next + (k - 1)
        /\ (\A x : x \in y.count <=> x \in st.count \/ \E b \in 1..(k - 1) : x = <<c, s[b]>>)
        /\ (\A b \in 1..(k - 1) : y.index[<<c, s[b]>>] = st.next + (b - 1))
        /\ \A x \in MethodsOf(prog) : (\A b \in 1..(k - 1) : x # <<c, s[b]>>) => y.index[x] = st.index[x]
    BY DEF GivenShape
  <1>2. /\ z \in States(prog) /\ z.ok = y.ok /\ z.next = y.next + 1
        /\ z.count = y.count \cup {m} /\ z.index = [y.index EXCEPT ![m] = y.next]
    BY DEF Next1
  <1>3. st.next \in Nat /\ y.index \in [MethodsOf(prog) -> Nat]
    BY <1>1 DEF States
  <1>4. z.next = st.next + k
    BY <1>1, <1>2, <1>3
  <1>5. \A b \in 1..k : b \in 1..(k - 1) \/ b = k
    OBVIOUS
  <1>6. \A b \in 1..(k - 1) : b \in 1..k /\ b # k /\ <<c, s[b]>> # m
    OBVIOUS
  <1>7. z.index[m] = st.next + (k - 1) /\ \A x \in MethodsOf(prog) : x # m => z.index[x] = y.index[x]
    BY <1>1, <1>2, <1>3
  <1>8. k \in 1..k
    OBVIOUS
  <1>9. \A b \in 1..k : z.index[<<c, s[b]>>] = st.next + (b - 1)
    <2> SUFFICES ASSUME NEW b \in 1..k PROVE z.index[<<c, s[b]>>] = st.next + (b - 1)
      OBVIOUS
    <2>1. CASE b = k
      BY <2>1, <1>7
    <2>2. CASE b \in 1..(k - 1)
      <3> DEFINE x == <<c, s[b]>>
      <3>1. x # m
        BY <2>2, <1>6
      <3> HIDE DEF x, m
      <3>2. z.index[x] = y.index[x]
        BY <3>1, <1>2, <1>3
      <3>. QED
        BY <2>2, <3>2, <1>1 DEF x
    <2>. QED
      BY <2>1, <2>2, <1>5
  <1>10. ASSUME NEW x PROVE x \in z.count <=> x \in st.count \/ \E b \in 1..k : x = <<c, s[b]>>
    BY <1>1, <1>2, <1>5, <1>6, <1>8
  <1>11. ASSUME NEW x \in MethodsOf(prog), \A b \in 1..k : x # <<c, s[b]>> PROVE z.index[x] = st.index[x]
    BY <1>1, <1>6, <1>7, <1>8, <1>11
  <1>. QED
    BY <1>1, <1>2, <1>4, <1>9, <1>10, <1>11 DEF GivenShape

\* All methods of an interface that C lists.
LEMMA IfaceNamesIs ==
  ASSUME prog \in Programs, NEW c \in Classes, NEW i \in ToSet(prog.lists[c]), NEW st \in States(prog)
  PROVE  GivenShape(st, IfaceNames(st, c, i), c, prog.names[i], Len(prog.names[i]))
  <1> DEFINE s == prog.names[i]
             n == Len(s)
             X == States(prog)
  <1>1. i \in Types
    BY ProgramLists, TypesAre DEF ListShape
  <1>2. n \in Nat /\ DOMAIN s = 1..n /\ (\A k \in 1..n : s[k] \in NamesOf(prog, i)) /\ \A j, k \in 1..n : s[j] = s[k] => j = k
    BY <1>1, ProgramLists DEF ListShape
  <1>3. \A k \in 1..n : <<c, s[k]>> \in prog.newslot /\ <<c, s[k]>> \in MethodsOf(prog)
    <2>1. \A k \in 1..n : <<c, s[k]>> \in prog.newslot
      BY <1>2, PlainIs DEF PlainShape
    <2>. QED
      BY <2>1, ProgramAssumption
  <1>0. IfaceNames(st, c, i) = FoldLeft(LAMBDA x, e : IndexImpl(x, c, e), st, s)
    BY DEF IfaceNames
  <1> HIDE DEF s, n, X
  <1>4. \A x \in X : \A k \in 1..n : Next1(x, IndexImpl(x, c, s[k]), <<c, s[k]>>)
    BY <1>3, ImplIs DEF X
  <1>5. \A x \in X : \A k \in 1..n : IndexImpl(x, c, s[k]) \in X
    BY <1>4 DEF Next1, X
  <1>6. FoldImplShape(c, X, n, st, s)
    BY ONLY st \in States(prog), <1>2, <1>5, FoldImpl DEF X
  <1>7. PICK a \in [0..n -> X] :
          /\ a[0] = st /\ FoldLeft(LAMBDA x, e : IndexImpl(x, c, e), st, s) = a[n]
          /\ \A k \in 1..n : a[k] = IndexImpl(a[k - 1], c, s[k])
    BY ONLY <1>6 DEF FoldImplShape
  <1> DEFINE S == {k \in 0..n : GivenShape(st, a[k], c, s, k)}
  <1>8. 0 \in S
    <2>1. st.next \in Nat /\ 1..0 = {}
      BY DEF States
    <2>2. st.next = st.next + 0 /\ \A b \in 1..0 : FALSE
      BY <2>1
    <2>3. GivenShape(st, st, c, s, 0)
      BY <2>2 DEF GivenShape
    <2>4. 0 \in 0..n
      BY <1>2
    <2>. QED
      BY <1>7, <2>3, <2>4
  <1>9. ASSUME NEW k \in 1..n, k - 1 \in S PROVE k \in S
    <2>1. GivenShape(st, a[k - 1], c, s, k - 1) /\ a[k - 1] \in X /\ k \in Nat \ {0}
      BY <1>9, <1>2
    <2>2. Next1(a[k - 1], a[k], <<c, s[k]>>)
      BY <2>1, <1>4, <1>7
    <2>3. \A b \in 1..k : s[b] = s[k] => b = k
      BY <1>2
    <2>4. GivenShape(st, a[k], c, s, k)
      <3> DEFINE y == a[k - 1]
                 z == a[k]
      <3> HIDE DEF y, z
      <3>1. GivenShape(st, y, c, s, k - 1) /\ Next1(y, z, <<c, s[k]>>)
        BY <2>1, <2>2 DEF y, z
      <3>2. GivenShape(st, z, c, s, k)
        BY <3>1, <2>1, <2>3, <1>3, GivenStep
      <3>. QED
        BY <3>2 DEF z
    <2>. QED
      BY <2>4
  <1>10. n \in S
    <2> HIDE DEF S
    <2>. QED
      BY <1>2, <1>8, <1>9, UpTo
  <1>. QED
    BY <1>0, <1>7, <1>10 DEF s, n

\* The first K interfaces of C were given indices.
IfacesShape(st, y, c, k) ==
  LET nm(a) == prog.names[prog.lists[c][a]] IN
  /\ y \in States(prog) /\ y.ok = st.ok /\ y.next = st.next + Off(prog, c)[k]
  /\ \A m : m \in y.count <=>
       m \in st.count \/ \E a \in 1..k : \E b \in 1..Len(nm(a)) : m = <<c, nm(a)[b]>>
  /\ \A a \in 1..k : \A b \in 1..Len(nm(a)) :
       y.index[<<c, nm(a)[b]>>] = st.next + Off(prog, c)[a - 1] + (b - 1)
  /\ \A m \in MethodsOf(prog) : m[1] # c => y.index[m] = st.index[m]

\* One more interface.
LEMMA IfacesStep ==
  ASSUME prog \in Programs, NEW c \in Classes, NEW k \in 1..Len(prog.lists[c]), NEW st \in States(prog),
         NEW y, IfacesShape(st, y, c, k - 1), NEW z,
         GivenShape(y, z, c, prog.names[prog.lists[c][k]], Len(prog.names[prog.lists[c][k]]))
  PROVE  IfacesShape(st, z, c, k)
  <1> DEFINE o == Off(prog, c)
             L == Len(prog.lists[c])
             nm(a) == prog.names[prog.lists[c][a]]
             len(a) == Len(nm(a))
  <1>1. /\ y \in States(prog) /\ y.ok = st.ok /\ y.next = st.next + o[k - 1]
        /\ (\A m : m \in y.count <=>
             m \in st.count \/ \E a \in 1..(k - 1) : \E b \in 1..len(a) : m = <<c, nm(a)[b]>>)
        /\ (\A a \in 1..(k - 1) : \A b \in 1..len(a) :
             y.index[<<c, nm(a)[b]>>] = st.next + o[a - 1] + (b - 1))
        /\ \A m \in MethodsOf(prog) : m[1] # c => y.index[m] = st.index[m]
    BY DEF IfacesShape
  <1>2. /\ z \in States(prog) /\ z.ok = y.ok /\ z.next = y.next + len(k)
        /\ (\A m : m \in z.count <=> m \in y.count \/ \E b \in 1..len(k) : m = <<c, nm(k)[b]>>)
        /\ (\A b \in 1..len(k) : z.index[<<c, nm(k)[b]>>] = y.next + (b - 1))
        /\ \A m \in MethodsOf(prog) : (\A b \in 1..len(k) : m # <<c, nm(k)[b]>>) => z.index[m] = y.index[m]
    BY DEF GivenShape
  <1>3. /\ L \in Nat /\ (\A a \in 1..L : prog.lists[c][a] \in Types /\ prog.lists[c][a] \in ToSet(prog.lists[c]))
        /\ \A a, b \in 1..L : prog.lists[c][a] = prog.lists[c][b] => a = b
    BY ProgramLists, TypesAre DEF ListShape
  <1>4. \A a \in 1..L : len(a) \in Nat /\ \A b \in 1..len(a) : nm(a)[b] \in NamesOf(prog, prog.lists[c][a])
    BY <1>3, ProgramLists DEF ListShape
  <1>5. o[k] = o[k - 1] + len(k) /\ o[k - 1] \in Nat /\ o[k] \in Nat
    <2>1. o \in [0..L -> Nat] /\ o[k] = o[k - 1] + len(k)
      BY OffIs DEF OffShape
    <2>. QED
      BY <2>1, <1>3
  <1>6. st.next \in Nat
    BY DEF States
  <1>7. \A a \in 1..L : \A b \in 1..len(a) :
          <<c, nm(a)[b]>> \in MethodsOf(prog) /\ \A j \in 1..L : nm(a)[b] \in NamesOf(prog, prog.lists[c][j]) => j = a
    <2>1. PlainShape(prog, c)
      BY PlainIs
    <2>2. ASSUME NEW a \in 1..L, NEW b \in 1..len(a)
          PROVE  /\ <<c, nm(a)[b]>> \in MethodsOf(prog)
                 /\ \A j \in 1..L : nm(a)[b] \in NamesOf(prog, prog.lists[c][j]) => j = a
      <3> DEFINE n == nm(a)[b]
                 i == prog.lists[c][a]
      <3>1. n \in NamesOf(prog, i) /\ i \in ToSet(prog.lists[c])
        BY <1>3, <1>4
      <3> HIDE DEF n, i
      <3>2. /\ n \in NamesOf(prog, c)
            /\ \A j \in ToSet(prog.lists[c]) : n \in NamesOf(prog, j) => j = i
        BY <2>1, <3>1 DEF PlainShape
      <3>3. <<c, n>> \in MethodsOf(prog)
        BY <3>2, MethodIs, TypesAre
      <3>4. \A j \in 1..L : n \in NamesOf(prog, prog.lists[c][j]) => j = a
        BY <3>2, <1>3 DEF i
      <3>. QED
        BY <3>3, <3>4 DEF n
    <2>. QED
      BY <2>2
  <1>8. /\ \A a \in 1..(k - 1) : a \in 1..L /\ a # k /\ a \in 1..k
        /\ \A a \in 1..k : a \in 1..(k - 1) \/ a = k
        /\ k \in 1..k /\ k \in 1..L
    BY <1>3
  <1> HIDE DEF o, L, nm, len
  <1>9. z.next = st.next + o[k]
    BY <1>1, <1>2, <1>5, <1>6, <1>4, <1>8
  <1>10. ASSUME NEW m
         PROVE  m \in z.count <=>
                  m \in st.count \/ \E a \in 1..k : \E b \in 1..len(a) : m = <<c, nm(a)[b]>>
    <2>1. (\E a \in 1..k : \E b \in 1..len(a) : m = <<c, nm(a)[b]>>) <=>
            \/ \E a \in 1..(k - 1) : \E b \in 1..len(a) : m = <<c, nm(a)[b]>>
            \/ \E b \in 1..len(k) : m = <<c, nm(k)[b]>>
      BY <1>8
    <2>2. m \in y.count <=>
            m \in st.count \/ \E a \in 1..(k - 1) : \E b \in 1..len(a) : m = <<c, nm(a)[b]>>
      BY <1>1
    <2>3. m \in z.count <=> m \in y.count \/ \E b \in 1..len(k) : m = <<c, nm(k)[b]>>
      BY <1>2
    <2>. QED
      BY ONLY <2>1, <2>2, <2>3
  <1>11. ASSUME NEW a \in 1..k, NEW b \in 1..len(a)
         PROVE  z.index[<<c, nm(a)[b]>>] = st.next + o[a - 1] + (b - 1)
    <2>1. CASE a = k
      <3>1. z.index[<<c, nm(a)[b]>>] = y.next + (b - 1) /\ y.next = st.next + o[a - 1]
        BY <2>1, <1>1, <1>2
      <3>. QED
        BY <3>1
    <2>2. CASE a # k
      <3> DEFINE m == <<c, nm(a)[b]>>
      <3>1. a \in 1..(k - 1) /\ a \in 1..L
        BY <2>2, <1>8
      <3>2. m \in MethodsOf(prog)
        BY <3>1, <1>7
      <3>3. \A x \in 1..len(k) : m # <<c, nm(k)[x]>>
        <4> SUFFICES ASSUME NEW x \in 1..len(k), nm(a)[b] = nm(k)[x] PROVE FALSE
          OBVIOUS
        <4>1. nm(a)[b] \in NamesOf(prog, prog.lists[c][k])
          BY <1>4, <1>8
        <4>. QED
          BY <4>1, <1>7, <1>8, <2>2, <3>1
      <3>4. y.index[m] = st.next + o[a - 1] + (b - 1)
        BY <3>1, <1>1
      <3> HIDE DEF m
      <3>5. z.index[m] = y.index[m]
        BY <3>2, <3>3, <1>2
      <3>. QED
        BY <3>4, <3>5 DEF m
    <2>. QED
      BY <2>1, <2>2
  <1>12. ASSUME NEW m \in MethodsOf(prog), m[1] # c PROVE z.index[m] = st.index[m]
    <2>1. \A b \in 1..len(k) : m # <<c, nm(k)[b]>>
      BY <1>12
    <2>. QED
      BY <2>1, <1>1, <1>2, <1>12
  <1>. QED
    BY <1>1, <1>2, <1>9, <1>10, <1>11, <1>12 DEF IfacesShape, o, nm, len

\* All interfaces of a class.
LEMMA IfacesAre ==
  ASSUME prog \in Programs, NEW c \in Classes, NEW st \in States(prog)
  PROVE  IfacesShape(st, create_virtual_methods_indices_for_interfaces(st, c), c, Len(prog.lists[c]))
  <1> DEFINE s == prog.lists[c]
             n == Len(s)
             X == States(prog)
  <1>1. n \in Nat /\ DOMAIN s = 1..n /\ \A k \in 1..n : s[k] \in ToSet(s)
    BY ProgramLists, TypesAre DEF ListShape
  <1>2. create_virtual_methods_indices_for_interfaces(st, c) =
          FoldLeft(LAMBDA x, e : IfaceNames(x, c, e), st, s)
    BY DEF create_virtual_methods_indices_for_interfaces, IfaceNames
  <1>3. \A x \in X : \A k \in 1..n : GivenShape(x, IfaceNames(x, c, s[k]), c, prog.names[s[k]], Len(prog.names[s[k]]))
    BY <1>1, IfaceNamesIs
  <1> HIDE DEF s, n, X
  <1>4. \A x \in X : \A k \in 1..n : IfaceNames(x, c, s[k]) \in X
    BY <1>3 DEF GivenShape, X
  <1>5. FoldIfacesShape(c, X, n, st, s)
    BY ONLY st \in States(prog), <1>1, <1>4, FoldIfaces DEF X
  <1>6. PICK a \in [0..n -> X] :
          /\ a[0] = st /\ FoldLeft(LAMBDA x, e : IfaceNames(x, c, e), st, s) = a[n]
          /\ \A k \in 1..n : a[k] = IfaceNames(a[k - 1], c, s[k])
    BY ONLY <1>5 DEF FoldIfacesShape
  <1> DEFINE S == {k \in 0..n : IfacesShape(st, a[k], c, k)}
  <1>7. 0 \in S
    <2>1. st.next \in Nat /\ Off(prog, c)[0] = 0
      BY OffIs DEF States, OffShape
    <2>2. st.next = st.next + Off(prog, c)[0] /\ \A b \in 1..0 : FALSE
      BY <2>1
    <2>3. IfacesShape(st, st, c, 0)
      BY <2>2 DEF IfacesShape
    <2>4. 0 \in 0..n
      BY <1>1
    <2>. QED
      BY <1>6, <2>3, <2>4
  <1>8. ASSUME NEW k \in 1..n, k - 1 \in S PROVE k \in S
    <2> DEFINE y == a[k - 1]
               z == a[k]
    <2>1. IfacesShape(st, y, c, k - 1) /\ y \in X /\ k \in 0..n
      BY <1>8, <1>1
    <2>2. GivenShape(y, z, c, prog.names[s[k]], Len(prog.names[s[k]]))
      BY <2>1, <1>3, <1>6
    <2> HIDE DEF y, z
    <2>3. IfacesShape(st, z, c, k)
      BY <2>1, <2>2, IfacesStep DEF s, n
    <2>. QED
      BY <2>1, <2>3 DEF z
  <1>9. n \in S
    <2> HIDE DEF S
    <2>. QED
      BY <1>1, <1>7, <1>8, UpTo
  <1>. QED
    BY <1>2, <1>6, <1>9 DEF s, n

\* One method that overrides: it gets the index of what it overrides.
Copy1(st, y, m, b) ==
  /\ y \in States(prog) /\ y.ok = st.ok /\ y.next = st.next
  /\ y.count = st.count \cup {m}
  /\ y.index = [st.index EXCEPT ![m] = st.index[b]]

\* One virtual method that is not of an interface.
LEMMA MethodStep ==
  ASSUME prog \in Programs, NEW c \in Classes, NEW n \in NamesOf(prog, c), NEW st \in States(prog)
  PROVE  /\ IndexMethod(st, <<c, n>>) \in States(prog)
         /\ <<c, n>> \in st.count => IndexMethod(st, <<c, n>>) = st
         /\ <<c, n>> \notin st.count /\ <<c, n>> \in prog.newslot =>
              Next1(st, IndexMethod(st, <<c, n>>), <<c, n>>)
         /\ <<c, n>> \notin st.count /\ <<c, n>> \notin prog.newslot =>
              \E d \in Anc(prog, c) :
                d # c /\ <<d, n>> \in prog.newslot /\ Copy1(st, IndexMethod(st, <<c, n>>), <<c, n>>, <<d, n>>)
  <1> DEFINE m == <<c, n>>
             r == IndexMethod(st, m)
  <1>1. m \in MethodsOf(prog)
    BY MethodIs, TypesAre
  <1>2. /\ m \in prog.newslot => MemberBase(m) = None
        /\ m \notin prog.newslot =>
             /\ MemberBase(m) # None
             /\ \E d \in Anc(prog, c) : d # c /\ <<d, n>> \in prog.newslot /\ MemberBase(m) = <<d, n>>
    BY OverrideIs DEF OverrideShape
  <1>3. /\ st.index \in [MethodsOf(prog) -> Nat] /\ st.count \in SUBSET MethodsOf(prog)
        /\ st.next \in Nat /\ st.ok \in BOOLEAN
        /\ st = [index |-> st.index, count |-> st.count, next |-> st.next, ok |-> st.ok]
    BY DEF States
  <1>4. \A d : <<d, n>> \in prog.newslot => <<d, n>> \in MethodsOf(prog)
    BY ProgramAssumption
  <1> HIDE DEF m
  <1>5. CASE m \in st.count
    <2>1. r = st
      BY <1>5 DEF IndexMethod
    <2>. QED
      BY <1>5, <2>1 DEF m
  <1>6. CASE m \notin st.count /\ m \in prog.newslot
    <2> DEFINE f == [st.index EXCEPT ![m] = st.next]
               q == st.count \cup {m}
               v == st.next + 1
               y == [st EXCEPT !.index[m] = st.next, !.count = @ \cup {m}, !.next = @ + 1]
    <2>1. r = y
      BY <1>2, <1>6 DEF IndexMethod
    <2>2. f \in [MethodsOf(prog) -> Nat] /\ q \in SUBSET MethodsOf(prog) /\ v \in Nat
      BY <1>1, <1>3
    <2>3. y = [st EXCEPT !.index = f, !.count = q, !.next = v]
      OBVIOUS
    <2>4. y = [index |-> f, count |-> q, next |-> v, ok |-> st.ok]
      <3> HIDE DEF f, q, v, y
      <3>. QED
        BY <2>3, <1>3
    <2>5. y \in States(prog) /\ y.index = f /\ y.count = q /\ y.next = v /\ y.ok = st.ok
      <3> HIDE DEF f, q, v, y
      <3>. QED
        BY <2>2, <2>4, <1>3 DEF States
    <2>6. Next1(st, y, m)
      <3> HIDE DEF y
      <3>. QED
        BY <2>5 DEF Next1
    <2>. QED
      BY <1>6, <2>1, <2>5, <2>6 DEF m
  <1>7. CASE m \notin st.count /\ m \notin prog.newslot
    <2>1. PICK d \in Anc(prog, c) : d # c /\ <<d, n>> \in prog.newslot /\ MemberBase(m) = <<d, n>>
      BY <1>2, <1>7
    <2> DEFINE b == <<d, n>>
    <2>2. b \in MethodsOf(prog) /\ MemberBase(m) = b /\ b # None
      BY <2>1, <1>2, <1>4, <1>7
    <2> HIDE DEF b
    <2> DEFINE f == [st.index EXCEPT ![m] = st.index[b]]
               q == st.count \cup {m}
               y == [st EXCEPT !.index[m] = st.index[b], !.count = @ \cup {m}]
    <2>3. r = y
      BY <2>2, <1>7 DEF IndexMethod
    <2>4. f \in [MethodsOf(prog) -> Nat] /\ q \in SUBSET MethodsOf(prog)
      BY <1>1, <1>3, <2>2
    <2>5. y = [st EXCEPT !.index = f, !.count = q]
      OBVIOUS
    <2>6. y = [index |-> f, count |-> q, next |-> st.next, ok |-> st.ok]
      <3> HIDE DEF f, q, y
      <3>. QED
        BY <2>5, <1>3
    <2>7. y \in States(prog) /\ y.index = f /\ y.count = q /\ y.next = st.next /\ y.ok = st.ok
      <3> HIDE DEF f, q, y
      <3>. QED
        BY <2>4, <2>6, <1>3 DEF States
    <2>8. Copy1(st, y, m, b)
      <3> HIDE DEF y
      <3>. QED
        BY <2>7 DEF Copy1
    <2>9. r \in States(prog) /\ Copy1(st, r, m, b)
      BY <2>3, <2>7, <2>8
    <2> HIDE DEF r, y
    <2>. QED
      BY <1>7, <2>1, <2>9 DEF m, b, r
  <1>. QED
    BY <1>5, <1>6, <1>7 DEF m

\* The interfaces of C and its first K names were given indices, from ST on.
NamedShape(st, y, c, k) ==
  LET s == prog.names[c] IN
  /\ y \in States(prog) /\ y.ok = st.ok
  /\ y.next = st.next + Off(prog, c)[Len(prog.lists[c])] + Rank(prog, c)[k]
  /\ \A m : m \in y.count <=>
       \/ \E n \in IfaceMethods(prog, c) : m = <<c, n>>
       \/ \E j \in 1..k : m = <<c, s[j]>>
  /\ ByIface(prog, y.index, c)
  /\ \A j \in 1..k : s[j] \in Fresh(prog, c) =>
       y.index[<<c, s[j]>>] = st.next + Off(prog, c)[Len(prog.lists[c])] + Rank(prog, c)[j - 1]
  /\ \A j \in 1..k : <<c, s[j]>> \notin prog.newslot =>
       \E d \in Anc(prog, c) : d # c /\ <<d, s[j]>> \in prog.newslot /\ y.index[<<c, s[j]>>] = st.index[<<d, s[j]>>]
  /\ \A m \in MethodsOf(prog) : m[1] # c => y.index[m] = st.index[m]

\* The methods of the interfaces, as positions in the lists.
LEMMA IfaceMethodIs ==
  ASSUME NEW p \in Programs, NEW c \in Classes
  PROVE  /\ \A a \in 1..Len(p.lists[c]) : \A b \in 1..Len(p.names[p.lists[c][a]]) :
              p.names[p.lists[c][a]][b] \in IfaceMethods(p, c)
         /\ \A n \in IfaceMethods(p, c) :
              /\ <<c, n>> \in p.newslot /\ n \in NamesOf(p, c) /\ n \notin Fresh(p, c)
              /\ \E a \in 1..Len(p.lists[c]) : \E b \in 1..Len(p.names[p.lists[c][a]]) :
                   n = p.names[p.lists[c][a]][b]
  <1>1. ASSUME NEW a \in 1..Len(p.lists[c]), NEW b \in 1..Len(p.names[p.lists[c][a]])
        PROVE  p.names[p.lists[c][a]][b] \in IfaceMethods(p, c)
    <2> DEFINE i == p.lists[c][a]
    <2>1. i \in Types /\ i \in ToSet(p.lists[c])
      BY ProgramLists, TypesAre DEF ListShape
    <2>2. p.names[i][b] \in NamesOf(p, i)
      BY <2>1, ProgramLists DEF ListShape
    <2>. QED
      BY <2>1, <2>2 DEF IfaceMethods
  <1>2. ASSUME NEW n \in IfaceMethods(p, c)
        PROVE  /\ <<c, n>> \in p.newslot /\ n \in NamesOf(p, c) /\ n \notin Fresh(p, c)
               /\ \E a \in 1..Len(p.lists[c]) : \E b \in 1..Len(p.names[p.lists[c][a]]) :
                    n = p.names[p.lists[c][a]][b]
    <2>1. <<c, n>> \in p.newslot /\ n \in NamesOf(p, c)
      BY PlainIs DEF IfaceMethods, PlainShape
    <2>2. n \notin Fresh(p, c)
      BY DEF Fresh
    <2>3. SlotShape(p, c, n)
      BY <2>1, SlotIs
    <2>. QED
      BY <2>1, <2>2, <2>3 DEF SlotShape
  <1>. QED
    BY <1>1, <1>2

\* The numbers of the interface methods stay.
LEMMA IfaceKept ==
  ASSUME NEW p \in Programs, NEW c \in Classes, NEW f, NEW g, ByIface(p, f, c),
         \A n \in IfaceMethods(p, c) : g[<<c, n>>] = f[<<c, n>>]
  PROVE  ByIface(p, g, c)
  <1> SUFFICES ASSUME NEW a \in 1..Len(p.lists[c]), NEW b \in 1..Len(p.names[p.lists[c][a]])
               PROVE  g[<<c, p.names[p.lists[c][a]][b]>>] = Low(p, c) + Off(p, c)[a - 1] + (b - 1)
    BY DEF ByIface
  <1> DEFINE n == p.names[p.lists[c][a]][b]
  <1>1. n \in IfaceMethods(p, c)
    BY IfaceMethodIs
  <1>2. f[<<c, n>>] = Low(p, c) + Off(p, c)[a - 1] + (b - 1)
    BY DEF ByIface
  <1> HIDE DEF n
  <1>3. g[<<c, n>>] = f[<<c, n>>]
    BY <1>1
  <1>. QED
    BY <1>2, <1>3 DEF n

\* One more method of the class.
LEMMA NamedStep ==
  ASSUME prog \in Programs, NEW c \in Classes, NEW k \in 1..Len(prog.names[c]),
         NEW st \in States(prog), st.count = {},
         NEW y, NamedShape(st, y, c, k - 1), NEW z, z = IndexMethod(y, <<c, prog.names[c][k]>>)
  PROVE  NamedShape(st, z, c, k)
  <1> DEFINE s == prog.names[c]
             M == Len(s)
             n == s[k]
             m == <<c, n>>
             R == Rank(prog, c)
             O == Off(prog, c)[Len(prog.lists[c])]
  <1>1. /\ y \in States(prog) /\ y.ok = st.ok /\ y.next = st.next + O + R[k - 1]
        /\ (\A x : x \in y.count <=> (\E l \in IfaceMethods(prog, c) : x = <<c, l>>) \/ \E j \in 1..(k - 1) : x = <<c, s[j]>>)
        /\ ByIface(prog, y.index, c)
        /\ (\A j \in 1..(k - 1) : s[j] \in Fresh(prog, c) => y.index[<<c, s[j]>>] = st.next + O + R[j - 1])
        /\ (\A j \in 1..(k - 1) : <<c, s[j]>> \notin prog.newslot =>
              \E d \in Anc(prog, c) : d # c /\ <<d, s[j]>> \in prog.newslot /\ y.index[<<c, s[j]>>] = st.index[<<d, s[j]>>])
        /\ \A x \in MethodsOf(prog) : x[1] # c => y.index[x] = st.index[x]
    BY DEF NamedShape
  <1>2. M \in Nat /\ n \in NamesOf(prog, c) /\ \A i, j \in 1..M : s[i] = s[j] => i = j
    BY ProgramLists, TypesAre DEF ListShape
  <1>3. /\ R[k - 1] \in Nat /\ R[k] \in Nat
        /\ R[k] = R[k - 1] + (IF n \in Fresh(prog, c) THEN 1 ELSE 0)
    <2>1. R \in [0..M -> Nat] /\ R[k] = R[k - 1] + (IF n \in Fresh(prog, c) THEN 1 ELSE 0)
      BY RankIs DEF RankShape
    <2>. QED
      BY <2>1, <1>2
  <1>4. O \in Nat /\ st.next \in Nat
    <2>1. Off(prog, c) \in [0..Len(prog.lists[c]) -> Nat] /\ Len(prog.lists[c]) \in Nat
      BY OffIs, ProgramLists, TypesAre DEF OffShape, ListShape
    <2>. QED
      BY <2>1 DEF States
  <1>5. /\ \A j \in 1..(k - 1) : j \in 1..M /\ j # k /\ j \in 1..k /\ s[j] # n
        /\ \A j \in 1..k : j \in 1..(k - 1) \/ j = k
        /\ k \in 1..k
    BY <1>2
  <1>6. m \in MethodsOf(prog) /\ \A l \in NamesOf(prog, c) : <<c, l>> \in MethodsOf(prog)
    BY <1>2, MethodIs, TypesAre
  <1>7. m \in y.count <=> n \in IfaceMethods(prog, c)
    BY <1>1, <1>5
  <1>8. n \in Fresh(prog, c) <=> n \notin IfaceMethods(prog, c) /\ m \in prog.newslot
    BY <1>2 DEF Fresh
  <1>9. /\ z \in States(prog)
        /\ m \in y.count => z = y
        /\ m \notin y.count /\ m \in prog.newslot => Next1(y, z, m)
        /\ m \notin y.count /\ m \notin prog.newslot =>
             \E d \in Anc(prog, c) : d # c /\ <<d, n>> \in prog.newslot /\ Copy1(y, z, m, <<d, n>>)
    BY <1>1, <1>2, MethodStep
  <1>10. \A l \in IfaceMethods(prog, c) : l \in NamesOf(prog, c) /\ <<c, l>> \in prog.newslot
    BY IfaceMethodIs
  <1>11. \A j \in 1..M : s[j] \in NamesOf(prog, c)
    BY ProgramLists, TypesAre DEF ListShape
  <1>12. y.index \in [MethodsOf(prog) -> Nat]
    BY <1>1 DEF States
  <1>13. \A d : <<d, n>> \in prog.newslot => <<d, n>> \in MethodsOf(prog)
    BY ProgramAssumption
  <1> HIDE DEF s, M, n, R, O
  <1>14. ASSUME z.ok = y.ok, z.next = st.next + O + R[k],
                \A x : x \in z.count <=> x \in y.count \/ x = m,
                \A x \in MethodsOf(prog) : x # m => z.index[x] = y.index[x],
                n \in Fresh(prog, c) => z.index[m] = st.next + O + R[k - 1],
                m \notin prog.newslot =>
                  \E d \in Anc(prog, c) : d # c /\ <<d, n>> \in prog.newslot /\ z.index[m] = st.index[<<d, n>>],
                n \in IfaceMethods(prog, c) => z.index[m] = y.index[m]
         PROVE  NamedShape(st, z, c, k)
    <2>1. ASSUME NEW x
          PROVE  x \in z.count <=> (\E l \in IfaceMethods(prog, c) : x = <<c, l>>) \/ \E j \in 1..k : x = <<c, s[j]>>
      <3>1. (\E j \in 1..k : x = <<c, s[j]>>) <=> (\E j \in 1..(k - 1) : x = <<c, s[j]>>) \/ x = m
        BY <1>5 DEF n
      <3>2. x \in y.count <=> (\E l \in IfaceMethods(prog, c) : x = <<c, l>>) \/ \E j \in 1..(k - 1) : x = <<c, s[j]>>
        BY <1>1
      <3>3. x \in z.count <=> x \in y.count \/ x = m
        BY <1>14
      <3>. QED
        BY ONLY <3>1, <3>2, <3>3
    <2>2. ByIface(prog, z.index, c)
      <3>1. \A l \in IfaceMethods(prog, c) : z.index[<<c, l>>] = y.index[<<c, l>>]
        BY <1>6, <1>10, <1>14
      <3>. QED
        BY <3>1, <1>1, IfaceKept
    <2>3. \A j \in 1..(k - 1) : z.index[<<c, s[j]>>] = y.index[<<c, s[j]>>]
      BY <1>5, <1>6, <1>11, <1>14
    <2>4. ASSUME NEW j \in 1..k, s[j] \in Fresh(prog, c)
          PROVE  z.index[<<c, s[j]>>] = st.next + O + R[j - 1]
      <3>1. CASE j = k
        BY <3>1, <2>4, <1>14 DEF n
      <3>2. CASE j \in 1..(k - 1)
        BY <3>2, <2>3, <2>4, <1>1
      <3>. QED
        BY <3>1, <3>2, <1>5
    <2>5. ASSUME NEW j \in 1..k, <<c, s[j]>> \notin prog.newslot
          PROVE  \E d \in Anc(prog, c) : d # c /\ <<d, s[j]>> \in prog.newslot /\ z.index[<<c, s[j]>>] = st.index[<<d, s[j]>>]
      <3>1. CASE j = k
        BY <3>1, <2>5, <1>14 DEF n
      <3>2. CASE j \in 1..(k - 1)
        BY <3>2, <2>3, <2>5, <1>1
      <3>. QED
        BY <3>1, <3>2, <1>5
    <2>6. ASSUME NEW x \in MethodsOf(prog), x[1] # c PROVE z.index[x] = st.index[x]
      <3>1. x # m
        BY <2>6
      <3>. QED
        BY <3>1, <2>6, <1>1, <1>14
    <2>7. z.ok = st.ok
      BY <1>1, <1>14
    <2>8. z.next = st.next + O + R[k]
      BY <1>14
    <2>. QED
      BY <1>9, <2>1, <2>2, <2>4, <2>5, <2>6, <2>7, <2>8 DEF NamedShape, s, R, O
  <1>15. CASE m \in y.count
    <2>1. z = y /\ n \in IfaceMethods(prog, c)
      BY <1>7, <1>9, <1>15
    <2>2. n \notin Fresh(prog, c) /\ m \in prog.newslot
      BY <1>8, <1>10, <2>1
    <2>3. z.next = st.next + O + R[k]
      BY <1>1, <1>3, <1>4, <2>1, <2>2
    <2>. QED
      BY <1>14, <1>15, <2>1, <2>2, <2>3
  <1>16. CASE m \notin y.count /\ m \in prog.newslot
    <2>1. /\ z.ok = y.ok /\ z.next = y.next + 1 /\ z.count = y.count \cup {m}
          /\ z.index = [y.index EXCEPT ![m] = y.next]
      BY <1>9, <1>16 DEF Next1
    <2>2. n \in Fresh(prog, c) /\ n \notin IfaceMethods(prog, c)
      BY <1>7, <1>8, <1>16
    <2> HIDE DEF m
    <2>3. z.next = st.next + O + R[k]
      BY <1>1, <1>3, <1>4, <2>1, <2>2
    <2>4. z.index[m] = st.next + O + R[k - 1] /\ \A x \in MethodsOf(prog) : x # m => z.index[x] = y.index[x]
      BY <1>1, <1>6, <1>12, <2>1
    <2>5. \A x : x \in z.count <=> x \in y.count \/ x = m
      BY <2>1
    <2>. QED
      BY <1>14, <1>16, <2>1, <2>2, <2>3, <2>4, <2>5
  <1>17. CASE m \notin y.count /\ m \notin prog.newslot
    <2>1. PICK d \in Anc(prog, c) : d # c /\ <<d, n>> \in prog.newslot /\ Copy1(y, z, m, <<d, n>>)
      BY <1>9, <1>17
    <2> DEFINE b == <<d, n>>
    <2>2. b \in MethodsOf(prog) /\ b[1] # c
      BY <2>1, <1>13
    <2>3. /\ z.ok = y.ok /\ z.next = y.next /\ z.count = y.count \cup {m}
          /\ z.index = [y.index EXCEPT ![m] = y.index[b]]
      BY <2>1 DEF Copy1
    <2> HIDE DEF m, b
    <2>4. n \notin Fresh(prog, c) /\ n \notin IfaceMethods(prog, c)
      BY <1>7, <1>8, <1>17
    <2>5. z.next = st.next + O + R[k]
      BY <1>1, <1>3, <1>4, <2>3, <2>4
    <2>6. z.index[m] = st.index[b] /\ \A x \in MethodsOf(prog) : x # m => z.index[x] = y.index[x]
      BY <1>1, <1>6, <1>12, <2>2, <2>3
    <2>7. \A x : x \in z.count <=> x \in y.count \/ x = m
      BY <2>3
    <2>8. \E e \in Anc(prog, c) : e # c /\ <<e, n>> \in prog.newslot /\ z.index[m] = st.index[<<e, n>>]
      BY <2>1, <2>6 DEF b
    <2>. QED
      BY <1>14, <1>17, <2>3, <2>4, <2>5, <2>6, <2>7, <2>8
  <1>. QED
    BY <1>15, <1>16, <1>17

\* The counts of C are taken back.
LEMMA InvalidIs ==
  ASSUME prog \in Programs, NEW c, NEW st \in States(prog)
  PROVE  LET y == set_method_indices_to_invalid(st, c)
         IN  /\ y \in States(prog) /\ y.ok = st.ok /\ y.next = st.next /\ y.index = st.index
             /\ y.count = {m \in st.count : m[1] # c}
  <1> DEFINE q == {m \in st.count : m[1] # c}
             y == set_method_indices_to_invalid(st, c)
  <1>1. y = [st EXCEPT !.count = q]
    BY DEF set_method_indices_to_invalid
  <1>2. /\ st.index \in [MethodsOf(prog) -> Nat] /\ st.count \in SUBSET MethodsOf(prog)
        /\ st.next \in Nat /\ st.ok \in BOOLEAN
        /\ st = [index |-> st.index, count |-> st.count, next |-> st.next, ok |-> st.ok]
    BY DEF States
  <1>3. q \in SUBSET MethodsOf(prog)
    BY <1>2
  <1> HIDE DEF y
  <1>4. y = [index |-> st.index, count |-> q, next |-> st.next, ok |-> st.ok]
    <2> HIDE DEF q
    <2>. QED
      BY <1>1, <1>2
  <1>5. y \in States(prog) /\ y.ok = st.ok /\ y.next = st.next /\ y.index = st.index /\ y.count = q
    <2> HIDE DEF q
    <2>. QED
      BY <1>2, <1>3, <1>4 DEF States
  <1>. QED
    BY <1>5 DEF y

\* The names of a class are given indices one by one, from W on.
LEMMA NamesFold ==
  ASSUME prog \in Programs, NEW c \in Classes, NEW w \in States(prog)
  PROVE  FoldNamesShape(c, States(prog), Len(prog.names[c]), w, prog.names[c])
  <1> DEFINE s == prog.names[c]
             n == Len(s)
             X == States(prog)
  <1>1. n \in Nat /\ DOMAIN s = 1..n /\ \A k \in 1..n : s[k] \in NamesOf(prog, c)
    BY ProgramLists, TypesAre DEF ListShape
  <1>2. \A x \in X : \A k \in 1..n : IndexMethod(x, <<c, s[k]>>) \in X
    BY <1>1, MethodStep
  <1>3. w \in X
    OBVIOUS
  <1> HIDE DEF s, n, X
  <1>4. FoldNamesShape(c, X, n, w, s)
    BY ONLY <1>1, <1>2, <1>3, FoldNames
  <1>. QED
    BY <1>4 DEF s, n, X

\* What IndexClass leaves: the class is numbered.
ClassShape(st, y, c) ==
  /\ y \in States(prog) /\ y.ok = st.ok /\ y.count = {} /\ y.next = Size(prog)[c]
  /\ Numbered(prog, y.index, c)
  /\ \A m \in MethodsOf(prog) : m[1] # c => y.index[m] = st.index[m]

\* IndexClass numbers a class, starting with the size of its base.
LEMMA IndexClassIs ==
  ASSUME prog \in Programs, NEW c \in Classes, NEW st \in States(prog)
  PROVE  /\ IndexClass(st, c) \in States(prog)
         /\ st.count = {} /\ st.next = Low(prog, c) => ClassShape(st, IndexClass(st, c), c)
  <1> DEFINE s == prog.names[c]
             n == Len(s)
             X == States(prog)
             w == create_virtual_methods_indices_for_interfaces(st, c)
             r == FoldLeft(LAMBDA x, e : IndexMethod(x, <<c, e>>), w, s)
             L == Len(prog.lists[c])
             O == Off(prog, c)[L]
             R == Rank(prog, c)
  <1>1. IfacesShape(st, w, c, L)
    BY IfacesAre
  <1>2. w \in X
    BY <1>1 DEF IfacesShape
  <1>3. IndexClass(st, c) = set_method_indices_to_invalid(r, c)
    BY DEF IndexClass
  <1>4. n \in Nat /\ \A x \in NamesOf(prog, c) : \E k \in 1..n : s[k] = x
    BY ProgramLists, TypesAre DEF ListShape, NamesOf
  <1> HIDE DEF w
  <1>5. FoldNamesShape(c, X, n, w, s)
    BY <1>2, NamesFold
  <1> HIDE DEF s, n, X
  <1>6. PICK a \in [0..n -> X] :
          /\ a[0] = w /\ r = a[n]
          /\ \A k \in 1..n : a[k] = IndexMethod(a[k - 1], <<c, s[k]>>)
    BY ONLY <1>5 DEF FoldNamesShape
  <1> HIDE DEF r
  <1> DEFINE z == a[n]
             y == set_method_indices_to_invalid(z, c)
  <1>7. z \in States(prog) /\ IndexClass(st, c) = y
    <2>1. n \in 0..n
      BY <1>4
    <2>2. z \in X
      BY <2>1
    <2>. QED
      BY <2>2, <1>3, <1>6 DEF X
  <1> HIDE DEF z
  <1>8. /\ y \in States(prog) /\ y.ok = z.ok /\ y.next = z.next /\ y.index = z.index
        /\ y.count = {m \in z.count : m[1] # c}
    BY <1>7, InvalidIs
  <1> HIDE DEF y
  <1>9. ASSUME st.count = {}, st.next = Low(prog, c) PROVE ClassShape(st, y, c)
    <2> DEFINE S == {k \in 0..n : NamedShape(st, a[k], c, k)}
    <2>1. 0 \in S
      <3>1. /\ w.ok = st.ok /\ w.next = st.next + O
            /\ \A m \in MethodsOf(prog) : m[1] # c => w.index[m] = st.index[m]
        BY <1>1 DEF IfacesShape
      <3>2. R[0] = 0 /\ O \in Nat /\ st.next \in Nat
        <4>1. Off(prog, c) \in [0..L -> Nat] /\ L \in Nat /\ R[0] = 0
          BY OffIs, RankIs, ProgramLists, TypesAre DEF OffShape, RankShape, ListShape
        <4>. QED
          BY <4>1 DEF States
      <3>3. w.next = st.next + O + R[0]
        BY <3>1, <3>2
      <3>4. ASSUME NEW m PROVE m \in w.count <=> \E x \in IfaceMethods(prog, c) : m = <<c, x>>
        <4>1. m \in w.count <=> \E i \in 1..L : \E b \in 1..Len(prog.names[prog.lists[c][i]]) :
                                  m = <<c, prog.names[prog.lists[c][i]][b]>>
          BY <1>1, <1>9 DEF IfacesShape
        <4>2. ASSUME NEW x \in IfaceMethods(prog, c)
              PROVE  \E i \in 1..L : \E b \in 1..Len(prog.names[prog.lists[c][i]]) :
                       x = prog.names[prog.lists[c][i]][b]
          <5>1. <<c, x>> \in prog.newslot /\ x \notin Fresh(prog, c)
            BY IfaceMethodIs
          <5>2. SlotShape(prog, c, x)
            BY <5>1, SlotIs
          <5>. QED
            BY <5>1, <5>2 DEF SlotShape
        <4>3. ASSUME NEW i \in 1..L, NEW b \in 1..Len(prog.names[prog.lists[c][i]])
              PROVE  prog.names[prog.lists[c][i]][b] \in IfaceMethods(prog, c)
          BY IfaceMethodIs
        <4>4. ASSUME m \in w.count PROVE \E x \in IfaceMethods(prog, c) : m = <<c, x>>
          BY <4>1, <4>3, <4>4
        <4>5. ASSUME NEW x \in IfaceMethods(prog, c), m = <<c, x>> PROVE m \in w.count
          <5>1. PICK i \in 1..L : \E b \in 1..Len(prog.names[prog.lists[c][i]]) :
                  x = prog.names[prog.lists[c][i]][b]
            BY <4>2
          <5>. QED
            BY <4>1, <4>5, <5>1
        <4>. QED
          BY <4>4, <4>5
      <3>5. ByIface(prog, w.index, c)
        BY <1>1, <1>9 DEF IfacesShape, ByIface
      <3>6. \A b \in 1..0 : FALSE
        OBVIOUS
      <3>7. NamedShape(st, w, c, 0)
        BY <1>2, <3>1, <3>3, <3>4, <3>5, <3>6 DEF NamedShape, X
      <3>8. 0 \in 0..n
        BY <1>4
      <3>. QED
        BY <1>6, <3>7, <3>8
    <2>2. ASSUME NEW k \in 1..n, k - 1 \in S PROVE k \in S
      <3> DEFINE u == a[k - 1]
                 v == a[k]
      <3>1. NamedShape(st, u, c, k - 1) /\ v = IndexMethod(u, <<c, prog.names[c][k]>>) /\ k \in 0..n
        <4>1. k - 1 \in S /\ k \in 0..n
          BY <2>2, <1>4
        <4>2. NamedShape(st, u, c, k - 1)
          BY <4>1
        <4>3. v = IndexMethod(u, <<c, s[k]>>)
          BY <1>6
        <4>. QED
          BY <4>1, <4>2, <4>3 DEF s
      <3> HIDE DEF u, v
      <3>2. NamedShape(st, v, c, k)
        BY <3>1, <1>9, NamedStep DEF n, s
      <3>. QED
        BY <3>1, <3>2 DEF v
    <2>3. NamedShape(st, z, c, n)
      <3>1. n \in S
        <4> HIDE DEF S
        <4>. QED
          BY <1>4, <2>1, <2>2, UpTo
      <3>. QED
        BY <3>1 DEF z
    <2>4. /\ z.ok = st.ok /\ z.next = st.next + O + R[n]
          /\ (\A m : m \in z.count <=> (\E x \in IfaceMethods(prog, c) : m = <<c, x>>) \/ \E j \in 1..n : m = <<c, s[j]>>)
          /\ ByIface(prog, z.index, c)
          /\ (\A j \in 1..n : s[j] \in Fresh(prog, c) => z.index[<<c, s[j]>>] = st.next + O + R[j - 1])
          /\ (\A j \in 1..n : <<c, s[j]>> \notin prog.newslot =>
                \E d \in Anc(prog, c) : d # c /\ <<d, s[j]>> \in prog.newslot /\ z.index[<<c, s[j]>>] = st.index[<<d, s[j]>>])
          /\ \A m \in MethodsOf(prog) : m[1] # c => z.index[m] = st.index[m]
      BY <2>3 DEF NamedShape, s
    <2>5. z.next = Size(prog)[c]
      <3>1. Size(prog)[c] = Low(prog, c) + (O + R[n]) /\ Low(prog, c) \in Nat
        BY SizeIs DEF SizeShape, Own, n, s
      <3>2. O \in Nat /\ R[n] \in Nat
        <4>1. Off(prog, c) \in [0..L -> Nat] /\ L \in Nat /\ R \in [0..n -> Nat]
          BY OffIs, RankIs, ProgramLists, TypesAre DEF OffShape, RankShape, ListShape, n, s
        <4>. QED
          BY <4>1, <1>4
      <3>. QED
        BY <3>1, <3>2, <2>4, <1>9
    <2>6. y.count = {}
      BY <2>4, <1>8
    <2>7. ByRank(prog, z.index, c)
      BY <2>4, <1>9 DEF ByRank, n, s
    <2>8. ByBase(prog, z.index, c)
      <3> SUFFICES ASSUME NEW x \in NamesOf(prog, c), <<c, x>> \notin prog.newslot,
                          NEW d \in Anc(prog, c), <<d, x>> \in prog.newslot
                   PROVE  z.index[<<c, x>>] = z.index[<<d, x>>]
        BY DEF ByBase
      <3>1. PICK j \in 1..n : s[j] = x
        BY <1>4
      <3>2. PICK e \in Anc(prog, c) : e # c /\ <<e, x>> \in prog.newslot /\ z.index[<<c, x>>] = st.index[<<e, x>>]
        BY <2>4, <3>1
      <3>3. e = d
        BY <3>2, OneSlot
      <3>4. <<e, x>> \in MethodsOf(prog)
        BY <3>2, ProgramAssumption
      <3>5. z.index[<<e, x>>] = st.index[<<e, x>>]
        BY <2>4, <3>2, <3>4
      <3>. QED
        BY <3>2, <3>3, <3>5
    <2>9. y.index = z.index /\ y.ok = z.ok /\ y.next = z.next /\ y \in States(prog)
      BY <1>8
    <2>10. Numbered(prog, z.index, c) /\ \A m \in MethodsOf(prog) : m[1] # c => z.index[m] = st.index[m]
      BY <2>4, <2>7, <2>8 DEF Numbered
    <2>. QED
      BY <2>4, <2>5, <2>6, <2>9, <2>10 DEF ClassShape
  <1>. QED
    BY <1>7, <1>8, <1>9

\* What numbers a class depends on the indices of the class and its bases.
LEMMA NumberedKept ==
  ASSUME NEW p \in Programs, NEW c \in Classes, NEW f, NEW g, Numbered(p, f, c),
         \A d \in Anc(p, c) : \A n \in NamesOf(p, d) : g[<<d, n>>] = f[<<d, n>>]
  PROVE  Numbered(p, g, c)
  <1>1. c \in Anc(p, c)
    BY AncFacts DEF AncShape
  <1>2. ByIface(p, g, c)
    <2>1. \A n \in IfaceMethods(p, c) : g[<<c, n>>] = f[<<c, n>>]
      BY <1>1, IfaceMethodIs
    <2>. QED
      BY <2>1, IfaceKept DEF Numbered
  <1>3. ByRank(p, g, c)
    <2>1. \A k \in 1..Len(p.names[c]) : g[<<c, p.names[c][k]>>] = f[<<c, p.names[c][k]>>]
      BY <1>1, ProgramLists, TypesAre DEF ListShape
    <2>. QED
      BY <2>1 DEF Numbered, ByRank
  <1>4. ByBase(p, g, c)
    <2> SUFFICES ASSUME NEW n \in NamesOf(p, c), <<c, n>> \notin p.newslot,
                        NEW d \in Anc(p, c), <<d, n>> \in p.newslot
                 PROVE  g[<<c, n>>] = g[<<d, n>>]
      BY DEF ByBase
    <2>1. n \in NamesOf(p, d)
      BY MethodIs
    <2>2. f[<<c, n>>] = f[<<d, n>>]
      BY DEF Numbered, ByBase
    <2>. QED
      BY <1>1, <2>1, <2>2
  <1>. QED
    BY <1>2, <1>3, <1>4 DEF Numbered

\* The first K classes of the hierarchy S are numbered.
IndexedShape(st, y, s, k) ==
  /\ y \in States(prog) /\ y.ok = st.ok /\ y.count = {}
  /\ y.next = IF k = 0 THEN 0 ELSE Size(prog)[s[k]]
  /\ \A j \in 1..k : Numbered(prog, y.index, s[j])
  /\ \A m \in MethodsOf(prog) : (\A j \in 1..k : m[1] # s[j]) => y.index[m] = st.index[m]

\* One more class of the hierarchy.
LEMMA IndexedStep ==
  ASSUME prog \in Programs, NEW c \in Classes, NEW s, PathShape(prog, c, s), NEW k \in 1..Len(s),
         NEW st \in States(prog), NEW y, IndexedShape(st, y, s, k - 1)
  PROVE  IndexedShape(st, IndexClass(y, s[k]), s, k)
  <1> DEFINE z == IndexClass(y, s[k])
             d == s[k]
             n == Len(s)
  <1>1. /\ y \in States(prog) /\ y.ok = st.ok /\ y.count = {}
        /\ y.next = (IF k - 1 = 0 THEN 0 ELSE Size(prog)[s[k - 1]])
        /\ (\A j \in 1..(k - 1) : Numbered(prog, y.index, s[j]))
        /\ \A m \in MethodsOf(prog) : (\A j \in 1..(k - 1) : m[1] # s[j]) => y.index[m] = st.index[m]
    BY DEF IndexedShape
  <1>2. /\ n \in Nat /\ (\A j \in 1..n : s[j] \in Classes) /\ prog.base[s[1]] = None
        /\ (\A j \in 1..n : j > 1 => prog.base[s[j]] = s[j - 1])
        /\ (\A j \in 1..n : \A e : e \in Anc(prog, s[j]) <=> \E i \in 1..j : s[i] = e)
        /\ \A i, j \in 1..n : s[i] = s[j] => i = j
    BY DEF PathShape
  <1>3. d \in Classes /\ k \in 1..n
    BY <1>2
  <1>4. y.next = Low(prog, d)
    <2>1. CASE k = 1
      BY <2>1, <1>1, <1>2 DEF Low
    <2>2. CASE k # 1
      <3>1. k > 1 /\ k - 1 # 0 /\ k - 1 \in 1..n
        BY <2>2, <1>2
      <3>2. prog.base[d] = s[k - 1] /\ s[k - 1] \in Classes
        BY <3>1, <1>2
      <3>. QED
        BY <3>1, <3>2, <1>1, TypesAre DEF Low
    <2>. QED
      BY <2>1, <2>2
  <1> HIDE DEF n
  <1>5. ClassShape(y, z, d)
    <2> HIDE DEF d
    <2>. QED
      BY <1>1, <1>3, <1>4, IndexClassIs DEF d
  <1> HIDE DEF z
  <1>6. /\ z \in States(prog) /\ z.ok = y.ok /\ z.count = {} /\ z.next = Size(prog)[d]
        /\ Numbered(prog, z.index, d)
        /\ \A m \in MethodsOf(prog) : m[1] # d => z.index[m] = y.index[m]
    BY <1>5 DEF ClassShape
  <1>7. \A j \in 1..k : j = k \/ j \in 1..(k - 1)
    BY <1>2
  <1>8. \A j \in 1..(k - 1) : j \in 1..n /\ j \in 1..k /\ j < k
    BY <1>2, <1>3
  <1>9. ASSUME NEW j \in 1..(k - 1) PROVE Numbered(prog, z.index, s[j])
    <2>1. s[j] \in Classes /\ Numbered(prog, y.index, s[j])
      BY <1>1, <1>2, <1>8
    <2>2. ASSUME NEW e \in Anc(prog, s[j]), NEW x \in NamesOf(prog, e) PROVE z.index[<<e, x>>] = y.index[<<e, x>>]
      <3>1. PICK i \in 1..j : s[i] = e
        BY <1>2, <1>8
      <3>2. i \in 1..n /\ i # k
        BY <1>2, <1>8
      <3>3. e # d
        BY <3>1, <3>2, <1>2, <1>3
      <3>4. e \in Classes
        BY <3>1, <3>2, <1>2
      <3>5. <<e, x>> \in MethodsOf(prog)
        BY <3>4, MethodIs, TypesAre
      <3>. QED
        BY <3>3, <3>5, <1>6
    <2>. QED
      BY <2>1, <2>2, NumberedKept
  <1>10. \A j \in 1..k : Numbered(prog, z.index, s[j])
    BY <1>6, <1>7, <1>9
  <1>11. ASSUME NEW m \in MethodsOf(prog), \A j \in 1..k : m[1] # s[j] PROVE z.index[m] = st.index[m]
    <2>1. k \in 1..k
      BY <1>2
    <2>2. m[1] # d /\ \A j \in 1..(k - 1) : m[1] # s[j]
      BY <2>1, <1>8, <1>11
    <2>. QED
      BY <2>2, <1>1, <1>6
  <1>12. k # 0
    BY <1>2
  <1>13. IndexedShape(st, z, s, k)
    BY <1>1, <1>6, <1>10, <1>11, <1>12 DEF IndexedShape
  <1>. QED
    BY <1>13 DEF z

\* create_virtual_methods_indices numbers a class and its bases and leaves the others alone.
IndicesShape(y, c) ==
  /\ y \in States(prog) /\ y.ok = TRUE /\ y.count = {}
  /\ \A d \in Anc(prog, c) : Numbered(prog, y.index, d)
  /\ \A m \in MethodsOf(prog) : m[1] \notin Anc(prog, c) => y.index[m] = index[m]

\* All classes of the hierarchy.
LEMMA IndicesAre ==
  ASSUME prog \in Programs, NEW c \in Classes, index \in [MethodsOf(prog) -> Nat], count = {}
  PROVE  IndicesShape(create_virtual_methods_indices(c), c)
  <1> DEFINE s == LineageOf(prog, c)
             n == Len(s)
             X == States(prog)
             st == [index |-> index, count |-> count, next |-> 0, ok |-> TRUE]
  <1>1. PathShape(prog, c, s)
    BY PathIs
  <1>2. /\ n \in Nat /\ n > 0 /\ DOMAIN s = 1..n /\ (\A j \in 1..n : s[j] \in Classes) /\ s[n] = c
        /\ (\A j \in 1..n : \A e : e \in Anc(prog, s[j]) <=> \E i \in 1..j : s[i] = e)
    BY <1>1 DEF PathShape
  <1>3. st \in X /\ st.index = index /\ st.count = {} /\ st.next = 0 /\ st.ok = TRUE
    BY DEF States
  <1>4. create_virtual_methods_indices(c) = FoldLeft(IndexClass, st, s)
    BY DEF create_virtual_methods_indices, Lineage
  <1> HIDE DEF st, s, n
  <1>5. \A x \in X : \A k \in 1..n : IndexClass(x, s[k]) \in X
    BY <1>2, IndexClassIs
  <1> HIDE DEF X
  <1>6. FoldClassesShape(X, n, st, s)
    BY ONLY <1>2, <1>3, <1>5, FoldClasses
  <1>7. PICK a \in [0..n -> X] :
          /\ a[0] = st /\ FoldLeft(IndexClass, st, s) = a[n]
          /\ \A k \in 1..n : a[k] = IndexClass(a[k - 1], s[k])
    BY ONLY <1>6 DEF FoldClassesShape
  <1> DEFINE S == {k \in 0..n : IndexedShape(st, a[k], s, k)}
  <1>8. 0 \in S
    <2>1. \A b \in 1..0 : FALSE
      OBVIOUS
    <2>2. IndexedShape(st, st, s, 0)
      BY <1>3, <2>1 DEF IndexedShape, X
    <2>3. 0 \in 0..n
      BY <1>2
    <2>. QED
      BY <1>7, <2>2, <2>3
  <1>9. ASSUME NEW k \in 1..n, k - 1 \in S PROVE k \in S
    <2> DEFINE y == a[k - 1]
    <2>1. IndexedShape(st, y, s, k - 1) /\ k \in 0..n
      BY <1>9, <1>2
    <2>2. a[k] = IndexClass(y, s[k])
      BY <1>7
    <2> HIDE DEF y
    <2>3. IndexedShape(st, IndexClass(y, s[k]), s, k)
      BY <1>1, <1>3, <2>1, IndexedStep DEF n, X
    <2>. QED
      BY <2>1, <2>2, <2>3
  <1>10. IndexedShape(st, a[n], s, n)
    <2>1. n \in S
      <3> HIDE DEF S
      <3>1. \A k \in 0..n : k \in S
        BY ONLY <1>2, <1>8, <1>9, UpTo
      <3>2. n \in 0..n
        BY <1>2
      <3>. QED
        BY <3>1, <3>2
    <2>. QED
      BY <2>1
  <1> DEFINE y == a[n]
  <1>11. create_virtual_methods_indices(c) = y /\ IndexedShape(st, y, s, n)
    BY <1>4, <1>7, <1>10
  <1> HIDE DEF y
  <1>12. \A e : e \in Anc(prog, c) <=> \E i \in 1..n : s[i] = e
    BY <1>2
  <1>13. IndicesShape(y, c)
    BY <1>3, <1>11, <1>12 DEF IndexedShape, IndicesShape
  <1>. QED
    BY <1>11, <1>13

-----------------------------------------------------------------------------
(* The vtable                                                                *)

\* X is put before the Qth member of S, or behind the last.
InsertedShape(S, s, x, t, q) ==
  /\ t \in Seq(S) /\ Len(t) = Len(s) + 1 /\ q \in 1..(Len(s) + 1)
  /\ t[q] = x
  /\ \A j \in 1..Len(s) : j < q => t[j] = s[j]
  /\ \A j \in 1..Len(s) : j >= q => t[j + 1] = s[j]

\* Append puts it behind the last.
LEMMA AppendInserts ==
  ASSUME NEW S, NEW s \in Seq(S), NEW x \in S, NEW t, t = Append(s, x)
  PROVE  InsertedShape(S, s, x, t, Len(s) + 1)
  <1> DEFINE n == Len(s)
  <1>1. n \in Nat
    OBVIOUS
  <1>2. t \in Seq(S) /\ Len(t) = n + 1 /\ t[n + 1] = x /\ \A j \in 1..n : t[j] = s[j]
    BY AppendProperties
  <1> HIDE DEF n
  <1>3. n + 1 \in 1..(n + 1) /\ \A j \in 1..n : ~(j >= n + 1)
    BY <1>1
  <1>. QED
    BY <1>2, <1>3 DEF InsertedShape, n

\* InsertAt puts it before the Qth.
LEMMA InsertAtIs ==
  ASSUME NEW S, NEW s \in Seq(S), NEW x \in S, NEW q \in 1..Len(s), NEW t, t = InsertAt(s, q, x)
  PROVE  InsertedShape(S, s, x, t, q)
  <1> DEFINE n == Len(s)
             u == SubSeq(s, 1, q - 1)
             v == SubSeq(s, q, n)
             e == <<x>>
             w == u \o e
  <1>1. n \in Nat /\ q \in Nat /\ q >= 1 /\ q <= n /\ \A j \in 1..n : s[j] \in S
    OBVIOUS
  <1>2. t = w \o v
    BY DEF InsertAt
  <1>3. u \in Seq(S) /\ Len(u) = q - 1 /\ \A j \in 1..(q - 1) : u[j] = s[j]
    <2> DEFINE m == q - 1
    <2>1. m \in Int /\ 1 \in Int /\ m >= 0 /\ \A k \in 1..m : s[k] \in S
      BY <1>1
    <2> HIDE DEF m
    <2>2. /\ SubSeq(s, 1, m) \in Seq(S)
          /\ Len(SubSeq(s, 1, m)) = (IF 1 <= m THEN m - 1 + 1 ELSE 0)
          /\ \A i \in 1..(m - 1 + 1) : SubSeq(s, 1, m)[i] = s[1 + i - 1]
      BY ONLY <2>1, SubSeqProperties
    <2>3. m - 1 + 1 = m /\ \A i \in 1..m : 1 + i - 1 = i
      BY <2>1
    <2>4. u = SubSeq(s, 1, m)
      BY DEF m
    <2> HIDE DEF u
    <2>. QED
      BY <2>1, <2>2, <2>3, <2>4 DEF m
  <1>4. v \in Seq(S) /\ Len(v) = n - q + 1 /\ \A j \in 1..(n - q + 1) : v[j] = s[q + j - 1]
    <2>1. q \in Int /\ n \in Int /\ q <= n /\ \A k \in q..n : s[k] \in S
      BY <1>1
    <2> HIDE DEF n
    <2>2. /\ SubSeq(s, q, n) \in Seq(S)
          /\ Len(SubSeq(s, q, n)) = (IF q <= n THEN n - q + 1 ELSE 0)
          /\ \A i \in 1..(n - q + 1) : SubSeq(s, q, n)[i] = s[q + i - 1]
      BY ONLY <2>1, SubSeqProperties
    <2>. QED
      BY <2>1, <2>2
  <1>5. e \in Seq(S) /\ Len(e) = 1 /\ e[1] = x
    OBVIOUS
  <1> HIDE DEF n, u, v, e
  <1>6. w \in Seq(S) /\ Len(w) = q /\ w[q] = x /\ \A j \in 1..(q - 1) : w[j] = s[j]
    <2>1. /\ w \in Seq(S) /\ Len(w) = Len(u) + Len(e)
          /\ \A i \in 1..(Len(u) + Len(e)) : w[i] = IF i <= Len(u) THEN u[i] ELSE e[i - Len(u)]
      BY <1>3, <1>5, ConcatProperties
    <2> HIDE DEF w
    <2>2. Len(w) = q
      BY <2>1, <1>3, <1>5, <1>1
    <2>3. w[q] = x
      <3>1. q \in 1..(Len(u) + Len(e)) /\ ~(q <= Len(u)) /\ q - Len(u) = 1
        BY <1>1, <1>3, <1>5
      <3>. QED
        BY <2>1, <3>1, <1>5
    <2>4. ASSUME NEW j \in 1..(q - 1) PROVE w[j] = s[j]
      <3>1. j \in 1..(Len(u) + Len(e)) /\ j <= Len(u)
        BY <1>1, <1>3, <1>5
      <3>. QED
        BY <2>1, <3>1, <1>3
    <2>. QED
      BY <2>1, <2>2, <2>3, <2>4
  <1> HIDE DEF w
  <1>7. /\ t \in Seq(S) /\ Len(t) = Len(w) + Len(v)
        /\ \A i \in 1..(Len(w) + Len(v)) : t[i] = IF i <= Len(w) THEN w[i] ELSE v[i - Len(w)]
    <2> DEFINE r == w \o v
    <2>1. /\ r \in Seq(S) /\ Len(r) = Len(w) + Len(v)
          /\ \A i \in 1..(Len(w) + Len(v)) : r[i] = IF i <= Len(w) THEN w[i] ELSE v[i - Len(w)]
      BY <1>4, <1>6, ConcatProperties
    <2>. QED
      BY <1>2, <2>1
  <1>8. Len(t) = n + 1
    BY <1>7, <1>6, <1>4, <1>1
  <1>9. t[q] = x /\ \A j \in 1..(q - 1) : t[j] = s[j]
    <2>1. \A j \in 1..q : j \in 1..(Len(w) + Len(v)) /\ j <= Len(w)
      BY <1>1, <1>4, <1>6
    <2>2. \A j \in 1..q : t[j] = w[j]
      BY <2>1, <1>7
    <2>3. q \in 1..q /\ \A j \in 1..(q - 1) : j \in 1..q
      BY <1>1
    <2>. QED
      BY <2>2, <2>3, <1>6
  <1>10. ASSUME NEW j \in 1..n, j >= q PROVE t[j + 1] = s[j]
    <2> DEFINE i == j + 1
               l == j + 1 - q
    <2>1. /\ i \in 1..(Len(w) + Len(v)) /\ ~(i <= Len(w)) /\ i - Len(w) = l
          /\ l \in 1..(n - q + 1) /\ q + l - 1 = j
      BY <1>1, <1>4, <1>6, <1>10
    <2> HIDE DEF i, l
    <2>2. t[i] = v[l] /\ v[l] = s[j]
      BY <2>1, <1>4, <1>7
    <2>. QED
      BY <2>2 DEF i
  <1>11. q \in 1..(n + 1) /\ \A j \in 1..n : j < q => j \in 1..(q - 1)
    BY <1>1
  <1>. QED
    BY <1>7, <1>8, <1>9, <1>10, <1>11 DEF InsertedShape, n

\* The entries of vtables, and what create_vtable_entries works on.
Entry(p) == [index : Nat, method : MethodsOf(p)]
Tables(p) == Seq(Entry(p)) \cup {Fail}

\* No table is taken for a failure.
LEMMA NotFail ==
  ASSUME NEW p \in Programs, NEW s \in Seq(Entry(p))
  PROVE  s # Fail
  <1>1. None \notin Entry(p)
    BY ProgramAssumption DEF Entry
  <1> SUFFICES ASSUME s = <<None>> PROVE FALSE
    BY DEF Fail
  <1>2. Len(s) = 1 /\ s[1] = None
    OBVIOUS
  <1>3. s[1] \in Entry(p)
    BY <1>2
  <1>. QED
    BY <1>1, <1>2, <1>3

\* Numbers in order, all below B and each one of them: the Ith is I - 1.
DenseShape(n, B, f) == n = B /\ \A i \in 1..n : f[i] = i - 1

\* By induction on the position.
LEMMA Dense ==
  ASSUME NEW n \in Nat, NEW B \in Nat, NEW f \in [1..n -> Nat],
         \A i, j \in 1..n : i < j => f[i] < f[j],
         \A i \in 1..n : f[i] < B,
         \A v \in Nat : v < B => \E i \in 1..n : f[i] = v
  PROVE  DenseShape(n, B, f)
  <1> DEFINE S == {v \in Nat : v <= B /\ v <= n /\ \A i \in 1..v : f[i] = i - 1}
  <1>1. 0 \in S
    OBVIOUS
  <1>2. ASSUME NEW v \in 1..B, v - 1 \in S PROVE v \in S
    <2> DEFINE w == v - 1
    <2>1. w \in Nat /\ w < B /\ w <= n /\ v = w + 1 /\ \A i \in 1..w : f[i] = i - 1
      BY <1>2
    <2>2. PICK i \in 1..n : f[i] = w
      BY <2>1
    <2> HIDE DEF w
    <2>3. i > w
      BY <2>1, <2>2
    <2>4. v \in 1..n
      BY <2>1, <2>2, <2>3
    <2>5. f[v] <= w
      <3>1. CASE i = v
        BY <3>1, <2>1, <2>2
      <3>2. CASE i # v
        <4>1. v < i
          BY <3>2, <2>1, <2>3
        <4>2. f[v] < f[i]
          BY <4>1, <2>4
        <4>. QED
          BY <4>2, <2>2, <2>1, <2>4
      <3>. QED
        BY <3>1, <3>2
    <2>6. f[v] >= w
      <3>1. CASE w = 0
        BY <3>1, <2>4
      <3>2. CASE w # 0
        <4>1. w \in 1..n /\ w < v /\ f[w] = w - 1
          BY <3>2, <2>1
        <4>2. f[w] < f[v] /\ f[v] \in Nat
          BY <4>1, <2>4
        <4>. QED
          BY <4>1, <4>2, <2>1
      <3>. QED
        BY <3>1, <3>2
    <2>7. f[v] = v - 1
      BY <2>1, <2>4, <2>5, <2>6
    <2>8. \A j \in 1..v : j = v \/ j \in 1..w
      BY <2>1
    <2>. QED
      BY <2>1, <2>4, <2>7, <2>8
  <1>3. B \in S
    <2> HIDE DEF S
    <2>1. \A v \in 0..B : v \in S
      BY ONLY B \in Nat, <1>1, <1>2, UpTo
    <2>. QED
      BY <2>1
  <1>4. n = B
    <2> SUFFICES ASSUME n # B PROVE FALSE
      OBVIOUS
    <2>1. B + 1 \in 1..n
      BY <1>3
    <2>2. f[B + 1] < B /\ f[B + 1] \in Nat
      BY <2>1
    <2>3. CASE B = 0
      BY <2>2, <2>3
    <2>4. CASE B # 0
      <3>1. B \in 1..n /\ f[B] = B - 1
        BY <1>3, <2>4
      <3>2. f[B] < f[B + 1]
        BY <3>1, <2>1
      <3>. QED
        BY <3>1, <3>2, <2>2
    <2>. QED
      BY <2>3, <2>4
  <1>. QED
    BY <1>3, <1>4 DEF DenseShape

\* What add_vtable_slot does: an entry with the same index is an error; otherwise the new
\* entry is put behind the first, before the first of the others with a greater index.
AddShape(p, x, i, m, r) ==
  \/ r = Fail /\ \E k \in 2..Len(x) : x[k].index = i
  \/ \E q \in Nat :
       /\ InsertedShape(Entry(p), x, [index |-> i, method |-> m], r, q)
       /\ x = <<>> \/ q >= 2
       /\ \A j \in 2..Len(x) : j < q => x[j].index < i
       /\ q <= Len(x) => x[q].index > i

\* add_vtable_slot looks for the first such entry.
LEMMA AddIs ==
  ASSUME NEW p, NEW x \in Seq(Entry(p)), NEW i \in Nat, NEW m \in MethodsOf(p)
  PROVE  AddShape(p, x, i, m, add_vtable_slot(x, i, m))
  <1> DEFINE new == [index |-> i, method |-> m]
             after == {k \in 2..Len(x) : x[k].index >= i}
             k == CHOOSE y \in after : \A j \in after : y <= j
             r == add_vtable_slot(x, i, m)
             n == Len(x)
  <1>1. r = IF x = <<>> THEN <<new>>
            ELSE IF after = {} THEN Append(x, new)
            ELSE IF x[k].index = i THEN Fail
            ELSE InsertAt(x, k, new)
    BY DEF add_vtable_slot
  <1>2. new \in Entry(p) /\ n \in Nat
    BY DEF Entry
  <1>3. \A j \in 1..n : x[j].index \in Nat
    <2>1. \A j \in 1..n : x[j] \in Entry(p)
      OBVIOUS
    <2>. QED
      BY <2>1 DEF Entry
  <1> HIDE DEF new, r
  <1>4. CASE x = <<>>
    <2>1. r = Append(x, new) /\ n = 0
      BY <1>1, <1>4
    <2>2. InsertedShape(Entry(p), x, new, r, n + 1)
      BY <2>1, <1>2, AppendInserts
    <2>3. 0 + 1 = 1 /\ 1 \in Nat /\ (\A j \in 2..0 : FALSE) /\ ~(1 <= 0)
      OBVIOUS
    <2>. QED
      BY <1>4, <2>1, <2>2, <2>3 DEF AddShape, new, r
  <1>5. CASE x # <<>> /\ after = {}
    <2>1. r = Append(x, new) /\ n > 0
      BY <1>1, <1>5
    <2>2. InsertedShape(Entry(p), x, new, r, n + 1)
      BY <2>1, <1>2, AppendInserts
    <2>3. \A j \in 2..n : x[j].index < i
      BY <1>3, <1>5
    <2>4. n + 1 \in Nat /\ n + 1 >= 2 /\ ~(n + 1 <= n)
      BY <1>2, <2>1
    <2> HIDE DEF n
    <2>. QED
      BY <2>2, <2>3, <2>4 DEF AddShape, new, r, n
  <1>6. CASE x # <<>> /\ after # {}
    <2>1. k \in after /\ \A j \in after : k <= j
      <3>1. after \subseteq Nat
        BY <1>2
      <3>2. \E y \in after : \A j \in after : y <= j
        <4> HIDE DEF after
        <4>. QED
          BY <3>1, <1>6, Least
      <3>. QED
        BY <3>2
    <2> HIDE DEF k
    <2>2. k \in 2..n /\ x[k].index >= i /\ x[k].index \in Nat
      BY <2>1, <1>2, <1>3
    <2>3. \A j \in 2..n : j < k => x[j].index < i
      BY <2>1, <2>2, <1>2, <1>3
    <2>4. CASE x[k].index = i
      <3>1. r = Fail
        BY <1>1, <1>6, <2>4
      <3>. QED
        BY <2>2, <2>4, <3>1 DEF AddShape, r
    <2>5. CASE x[k].index # i
      <3>1. r = InsertAt(x, k, new)
        BY <1>1, <1>6, <2>5
      <3>2. k \in 1..n /\ k \in Nat /\ k >= 2 /\ x[k].index > i
        BY <2>2, <2>5, <1>2
      <3>3. InsertedShape(Entry(p), x, new, r, k)
        BY <3>1, <3>2, <1>2, InsertAtIs
      <3>. QED
        BY <2>3, <3>2, <3>3 DEF AddShape, new, r
    <2>. QED
      BY <2>4, <2>5
  <1>. QED
    BY <1>4, <1>5, <1>6

\* What change_vtable_slot does.
ChangeShape(p, x, i, m, r) ==
  /\ r \in Seq(Entry(p)) /\ Len(r) = Len(x)
  /\ \A j \in 1..Len(x) : r[j].index = x[j].index
  /\ r[i + 1].method = m
  /\ \A j \in 1..Len(x) : j # i + 1 => r[j].method = x[j].method

\* An index beyond the table is an error.
LEMMA ChangeIs ==
  ASSUME NEW p, NEW x \in Seq(Entry(p)), NEW i \in Nat, NEW m \in MethodsOf(p)
  PROVE  /\ i + 1 \notin 1..Len(x) => change_vtable_slot(x, i, m) = Fail
         /\ i + 1 \in 1..Len(x) => ChangeShape(p, x, i, m, change_vtable_slot(x, i, m))
  <1> DEFINE r == change_vtable_slot(x, i, m)
             n == Len(x)
  <1>1. DOMAIN x = 1..n /\ n \in Nat
    OBVIOUS
  <1>2. CASE i + 1 \notin 1..n
    BY <1>1, <1>2 DEF change_vtable_slot
  <1>3. CASE i + 1 \in 1..n
    <2> DEFINE k == i + 1
               e == [x[k] EXCEPT !.method = m]
    <2>1. r = [x EXCEPT ![k] = e]
      BY <1>1, <1>3 DEF change_vtable_slot
    <2>2. x[k] \in Entry(p)
      BY <1>3
    <2>3. e \in Entry(p) /\ e.index = x[k].index /\ e.method = m
      BY <2>2 DEF Entry
    <2> HIDE DEF e, r
    <2>4. r \in Seq(Entry(p)) /\ Len(r) = n /\ r[k] = e /\ \A j \in 1..n : j # k => r[j] = x[j]
      <3>1. k \in 1..n
        BY <1>3
      <3> HIDE DEF k
      <3>. QED
        BY <2>1, <2>3, <3>1
    <2>. QED
      BY <1>3, <2>3, <2>4 DEF ChangeShape, r
  <1>. QED
    BY <1>2, <1>3

\* EnterMethod makes a table, or fails.
LEMMA EnterType ==
  ASSUME prog \in Programs, NEW d \in Classes, NEW n \in NamesOf(prog, d),
         NEW idx \in [MethodsOf(prog) -> Nat], NEW x \in Tables(prog)
  PROVE  EnterMethod(x, idx, <<d, n>>) \in Tables(prog)
  <1> DEFINE m == <<d, n>>
             i == idx[m]
  <1>1. m \in MethodsOf(prog)
    BY MethodIs, TypesAre
  <1> HIDE DEF m
  <1>2. i \in Nat
    BY <1>1
  <1> HIDE DEF i
  <1>3. CASE x = Fail
    BY <1>3 DEF EnterMethod, Tables
  <1>4. CASE x # Fail
    <2>1. x \in Seq(Entry(prog))
      BY <1>4 DEF Tables
    <2>2. AddShape(prog, x, i, m, add_vtable_slot(x, i, m))
      BY <1>1, <1>2, <2>1, AddIs
    <2>3. add_vtable_slot(x, i, m) \in Tables(prog)
      BY <2>2 DEF AddShape, InsertedShape, Tables
    <2>4. change_vtable_slot(x, i, m) \in Tables(prog)
      <3>1. /\ i + 1 \notin 1..Len(x) => change_vtable_slot(x, i, m) = Fail
            /\ i + 1 \in 1..Len(x) => ChangeShape(prog, x, i, m, change_vtable_slot(x, i, m))
        BY <1>1, <1>2, <2>1, ChangeIs
      <3>. QED
        BY <3>1 DEF ChangeShape, Tables
    <2>. QED
      BY <1>4, <2>3, <2>4 DEF EnterMethod, m, i
  <1>. QED
    BY <1>3, <1>4

\* T is the vtable of D, for the indices IDX.
TableShape(p, T, idx, d) ==
  /\ T \in Seq(Entry(p)) /\ Len(T) = Size(p)[d]
  /\ \A i \in 1..Len(T) : T[i].index = i - 1
  /\ \A e \in Anc(p, d) : \A n \in NamesOf(p, e) :
       /\ idx[<<e, n>>] + 1 \in 1..Len(T)
       /\ T[idx[<<e, n>>] + 1].method = <<Nearest(p, d, n), n>>

\* The vtable that D starts with: that of its base.
StartShape(p, T, idx, d) ==
  IF p.base[d] = None THEN T = <<>> ELSE TableShape(p, T, idx, p.base[d])

\* F is T with the first K methods of D.
EnterShape(p, f, T, idx, d, k) ==
  LET s == p.names[d]
      new(j) == <<d, s[j]>> \in p.newslot
      nb == Low(p, d)
  IN  /\ f \in Seq(Entry(p)) /\ nb <= Len(f)
      /\ \A i, j \in 1..Len(f) : i < j => f[i].index < f[j].index
      /\ \A i \in 1..nb : f[i].index = i - 1
      /\ f # <<>> => f[1].index = 0
      /\ \A i \in 1..Len(f) : nb < i =>
           \E j \in 1..k : new(j) /\ f[i].index = idx[<<d, s[j]>>] /\ f[i].method = <<d, s[j]>>
      /\ \A j \in 1..k : new(j) =>
           \E i \in 1..Len(f) : nb < i /\ f[i].index = idx[<<d, s[j]>>] /\ f[i].method = <<d, s[j]>>
      /\ \A j \in 1..k : ~new(j) => f[idx[<<d, s[j]>>] + 1].method = <<d, s[j]>>
      /\ \A i \in 1..nb : (\A j \in 1..k : ~new(j) => idx[<<d, s[j]>>] # i - 1) => f[i].method = T[i].method

\* A method that overrides has an index of the base's table, and no other method of D that
\* overrides has the same.
LEMMA OverrideSlot ==
  ASSUME NEW p \in Programs, NEW d \in Classes, NEW idx \in [MethodsOf(p) -> Nat],
         \A e \in Anc(p, d) : Numbered(p, idx, e), NEW T, StartShape(p, T, idx, d),
         NEW n \in NamesOf(p, d), <<d, n>> \notin p.newslot
  PROVE  /\ p.base[d] # None /\ idx[<<d, n>>] \in Nat /\ idx[<<d, n>>] < Low(p, d)
         /\ \A l \in NamesOf(p, d) : <<d, l>> \notin p.newslot /\ idx[<<d, l>>] = idx[<<d, n>>] => l = n
         /\ \A e \in Anc(p, p.base[d]) : \A l \in NamesOf(p, e) : idx[<<e, l>>] = idx[<<d, n>>] => l = n
  <1> DEFINE b == p.base[d]
  <1>1. b # None
    BY PlainIs DEF PlainShape
  <1>2. b \in Classes /\ Anc(p, d) = Anc(p, b) \cup {d}
    BY <1>1, AncIs
  <1>3. /\ T \in Seq(Entry(p)) /\ Len(T) = Size(p)[b]
        /\ \A e \in Anc(p, b) : \A l \in NamesOf(p, e) :
             /\ idx[<<e, l>>] + 1 \in 1..Len(T)
             /\ T[idx[<<e, l>>] + 1].method = <<Nearest(p, b, l), l>>
    BY <1>1 DEF StartShape, TableShape
  <1>4. Low(p, d) = Size(p)[b] /\ Size(p)[b] \in Nat
    BY <1>1, SizeIs DEF SizeShape
  <1>5. ASSUME NEW l \in NamesOf(p, d), <<d, l>> \notin p.newslot
        PROVE  \E e \in Anc(p, b) : l \in NamesOf(p, e) /\ idx[<<d, l>>] = idx[<<e, l>>]
    <2>1. PICK e \in Anc(p, d) : e # d /\ <<e, l>> \in p.newslot
      BY <1>5, PlainIs DEF PlainShape
    <2>2. e \in Anc(p, b) /\ l \in NamesOf(p, e)
      BY <2>1, <1>2, MethodIs
    <2>3. idx[<<d, l>>] = idx[<<e, l>>]
      BY <1>5, <2>1, AncFacts DEF AncShape, Numbered, ByBase
    <2>. QED
      BY <2>2, <2>3
  <1> HIDE DEF b
  <1>6. ASSUME NEW e \in Anc(p, b), NEW l \in NamesOf(p, e), NEW x \in Anc(p, b), NEW y \in NamesOf(p, x),
               idx[<<e, l>>] = idx[<<x, y>>]
        PROVE  l = y
    <2>1. <<Nearest(p, b, l), l>> = <<Nearest(p, b, y), y>>
      BY <1>3, <1>6
    <2>. QED
      BY <2>1
  <1>7. PICK e \in Anc(p, b) : n \in NamesOf(p, e) /\ idx[<<d, n>>] = idx[<<e, n>>]
    BY <1>5
  <1>8. <<d, n>> \in MethodsOf(p)
    BY MethodIs, TypesAre
  <1>9. idx[<<d, n>>] \in Nat
    BY <1>8
  <1>10. idx[<<d, n>>] < Low(p, d)
    BY <1>3, <1>4, <1>7, <1>9
  <1>11. ASSUME NEW l \in NamesOf(p, d), <<d, l>> \notin p.newslot, idx[<<d, l>>] = idx[<<d, n>>] PROVE l = n
    <2>1. PICK x \in Anc(p, b) : l \in NamesOf(p, x) /\ idx[<<d, l>>] = idx[<<x, l>>]
      BY <1>5, <1>11
    <2>. QED
      BY <1>6, <1>7, <1>11, <2>1
  <1>12. ASSUME NEW x \in Anc(p, b), NEW l \in NamesOf(p, x), idx[<<x, l>>] = idx[<<d, n>>] PROVE l = n
    BY <1>6, <1>7, <1>12
  <1>. QED
    BY <1>1, <1>9, <1>10, <1>11, <1>12 DEF b

\* A method that overrides takes the slot of what it overrides.
LEMMA EnterChange ==
  ASSUME NEW p \in Programs, NEW d \in Classes, NEW idx \in [MethodsOf(p) -> Nat],
         \A e \in Anc(p, d) : Numbered(p, idx, e), NEW T, StartShape(p, T, idx, d),
         NEW k \in 1..Len(p.names[d]), <<d, p.names[d][k]>> \notin p.newslot,
         NEW f, EnterShape(p, f, T, idx, d, k - 1),
         NEW r, ChangeShape(p, f, idx[<<d, p.names[d][k]>>], <<d, p.names[d][k]>>, r)
  PROVE  EnterShape(p, r, T, idx, d, k)
  <1> DEFINE s == p.names[d]
             M == Len(s)
             nb == Low(p, d)
             m(j) == <<d, s[j]>>
             i0 == idx[m(k)]
             len == Len(f)
  <1>1. M \in Nat /\ (\A j \in 1..M : s[j] \in NamesOf(p, d)) /\ \A i, j \in 1..M : s[i] = s[j] => i = j
    BY ProgramLists, TypesAre DEF ListShape
  <1>2. nb \in Nat
    BY SizeIs DEF SizeShape
  <1>3. ASSUME NEW j \in 1..M, m(j) \notin p.newslot PROVE idx[m(j)] \in Nat /\ idx[m(j)] < nb /\ (idx[m(j)] = i0 => j = k)
    <2>1. s[j] \in NamesOf(p, d) /\ s[k] \in NamesOf(p, d)
      BY <1>1
    <2>2. idx[m(j)] \in Nat /\ idx[m(j)] < nb
      BY <1>3, <2>1, OverrideSlot
    <2>3. \A l \in NamesOf(p, d) : <<d, l>> \notin p.newslot /\ idx[<<d, l>>] = i0 => l = s[k]
      BY <2>1, OverrideSlot
    <2>. QED
      BY <1>1, <1>3, <2>1, <2>2, <2>3
  <1>4. i0 \in Nat /\ i0 < nb
    BY <1>3
  <1>5. /\ f \in Seq(Entry(p)) /\ nb <= len
        /\ (\A i, j \in 1..len : i < j => f[i].index < f[j].index)
        /\ (\A i \in 1..nb : f[i].index = i - 1)
        /\ (f # <<>> => f[1].index = 0)
        /\ (\A i \in 1..len : nb < i =>
              \E j \in 1..(k - 1) : m(j) \in p.newslot /\ f[i].index = idx[m(j)] /\ f[i].method = m(j))
        /\ (\A j \in 1..(k - 1) : m(j) \in p.newslot =>
              \E i \in 1..len : nb < i /\ f[i].index = idx[m(j)] /\ f[i].method = m(j))
        /\ (\A j \in 1..(k - 1) : m(j) \notin p.newslot => f[idx[m(j)] + 1].method = m(j))
        /\ (\A i \in 1..nb : (\A j \in 1..(k - 1) : m(j) \notin p.newslot => idx[m(j)] # i - 1)
                                => f[i].method = T[i].method)
    BY DEF EnterShape
  <1>6. /\ r \in Seq(Entry(p)) /\ Len(r) = len
        /\ (\A j \in 1..len : r[j].index = f[j].index)
        /\ r[i0 + 1].method = m(k)
        /\ \A j \in 1..len : j # i0 + 1 => r[j].method = f[j].method
    BY DEF ChangeShape
  <1>7. len \in Nat
    BY <1>5
  <1>8. /\ \A j \in 1..(k - 1) : j \in 1..M /\ j \in 1..k /\ j # k
        /\ \A j \in 1..k : j \in 1..(k - 1) \/ j = k
        /\ k \in 1..k /\ \A i \in 1..nb : i \in 1..len
        /\ \A i \in 1..len : nb < i => i # i0 + 1
    BY <1>1, <1>2, <1>4, <1>5, <1>7
  <1> HIDE DEF s, M, nb, m, i0, len
  <1>9. \A i, j \in 1..len : i < j => r[i].index < r[j].index
    BY <1>5, <1>6
  <1>10. \A i \in 1..nb : r[i].index = i - 1
    BY <1>5, <1>6, <1>8
  <1>11. r # <<>> => r[1].index = 0
    <2> SUFFICES ASSUME r # <<>> PROVE r[1].index = 0
      OBVIOUS
    <2>1. len > 0
      BY <1>6, <1>7
    <2>2. f # <<>> /\ 1 \in 1..len
      BY <2>1, <1>7 DEF len
    <2>. QED
      BY <2>2, <1>5, <1>6
  <1>12. ASSUME NEW i \in 1..len, nb < i
         PROVE  \E j \in 1..k : m(j) \in p.newslot /\ r[i].index = idx[m(j)] /\ r[i].method = m(j)
    <2>1. r[i].index = f[i].index /\ r[i].method = f[i].method
      BY <1>6, <1>8, <1>12
    <2>2. PICK j \in 1..(k - 1) : m(j) \in p.newslot /\ f[i].index = idx[m(j)] /\ f[i].method = m(j)
      BY <1>5, <1>12
    <2>. QED
      BY <2>1, <2>2, <1>8
  <1>13. ASSUME NEW j \in 1..k, m(j) \in p.newslot
         PROVE  \E i \in 1..len : nb < i /\ r[i].index = idx[m(j)] /\ r[i].method = m(j)
    <2>1. j \in 1..(k - 1)
      BY <1>8, <1>13 DEF m, s
    <2>2. PICK i \in 1..len : nb < i /\ f[i].index = idx[m(j)] /\ f[i].method = m(j)
      BY <2>1, <1>5, <1>13
    <2>. QED
      BY <2>2, <1>6, <1>8
  <1>14. ASSUME NEW j \in 1..k, m(j) \notin p.newslot PROVE r[idx[m(j)] + 1].method = m(j)
    <2>1. CASE j = k
      BY <2>1, <1>6 DEF i0
    <2>2. CASE j \in 1..(k - 1)
      <3> DEFINE i == idx[m(j)]
      <3>1. i \in Nat /\ i < nb /\ i # i0
        BY <2>2, <1>3, <1>8, <1>14
      <3>2. f[i + 1].method = m(j)
        BY <2>2, <1>5, <1>14
      <3> HIDE DEF i
      <3>3. i + 1 \in 1..len /\ i + 1 # i0 + 1
        BY <3>1, <1>2, <1>4, <1>5, <1>7
      <3>4. r[i + 1].method = m(j)
        BY <3>2, <3>3, <1>6
      <3>. QED
        BY <3>4 DEF i
    <2>. QED
      BY <2>1, <2>2, <1>8
  <1>15. ASSUME NEW i \in 1..nb, \A j \in 1..k : m(j) \notin p.newslot => idx[m(j)] # i - 1
         PROVE  r[i].method = T[i].method
    <2>1. i0 # i - 1
      BY <1>8, <1>15 DEF i0, m, s
    <2>2. i \in 1..len /\ i # i0 + 1
      BY <2>1, <1>2, <1>4, <1>8
    <2>3. \A j \in 1..(k - 1) : m(j) \notin p.newslot => idx[m(j)] # i - 1
      BY <1>8, <1>15
    <2>4. f[i].method = T[i].method
      BY <2>3, <1>5
    <2>. QED
      BY <2>2, <2>4, <1>6
  <1>16. r \in Seq(Entry(p)) /\ nb <= Len(r) /\ Len(r) = len
    BY <1>5, <1>6
  <1>. QED
    BY <1>9, <1>10, <1>11, <1>12, <1>13, <1>14, <1>15, <1>16 DEF EnterShape, s, nb, m

\* A class that has bases starts with a table that is not empty.
LEMMA SizePositive ==
  ASSUME NEW p \in Programs, NEW c \in Classes
  PROVE  Size(p)[c] > 0
  <1> DEFINE s == LineageOf(p, c)
             d == s[1]
  <1>1. PathShape(p, c, s)
    BY PathIs
  <1>2. d \in Classes /\ p.base[d] = None /\ d \in Anc(p, c)
    <2>1. Len(s) \in Nat /\ Len(s) # 0 /\ s[Len(s)] = c
      BY <1>1 DEF PathShape
    <2> DEFINE n == Len(s)
    <2> HIDE DEF n
    <2>2. 1 \in 1..n /\ n \in 1..n
      BY <2>1 DEF n
    <2>3. \A e : e \in Anc(p, s[n]) <=> \E j \in 1..n : s[j] = e
      BY <1>1, <2>2 DEF PathShape, n
    <2>4. s[1] \in Classes /\ p.base[s[1]] = None
      BY <1>1, <2>2 DEF PathShape, n
    <2>. QED
      BY <2>1, <2>2, <2>3, <2>4 DEF n
  <1> HIDE DEF d
  <1>3. p.names[d] # <<>> /\ p.lists[d] = <<>> /\ \A n \in NamesOf(p, d) : <<d, n>> \in p.newslot
    BY <1>2, PlainIs DEF PlainShape
  <1> DEFINE M == Len(p.names[d])
             R == Rank(p, d)
  <1>4. M \in Nat /\ M > 0 /\ p.names[d][1] \in NamesOf(p, d)
    <2>1. ListShape(p.names[d], NamesOf(p, d))
      BY <1>2, ProgramLists, TypesAre
    <2>2. M \in Nat /\ p.names[d] \in Seq(NamesOf(p, d)) /\ \A k \in 1..M : p.names[d][k] \in NamesOf(p, d)
      BY <2>1 DEF ListShape
    <2>3. M # 0
      BY <2>2, <1>3
    <2>. QED
      BY <2>2, <2>3
  <1>5. p.names[d][1] \in Fresh(p, d)
    <2>1. IfaceMethods(p, d) = {}
      BY <1>3 DEF IfaceMethods, ToSet
    <2>. QED
      BY <2>1, <1>3, <1>4 DEF Fresh
  <1> HIDE DEF M
  <1>6. R \in [0..M -> Nat] /\ R[0] = 0 /\ R[1] = R[1 - 1] + 1 /\ R[1] <= R[M]
    <2>1. /\ R \in [0..M -> Nat] /\ R[0] = 0
          /\ (\A k \in 1..M : R[k] = R[k - 1] + (IF p.names[d][k] \in Fresh(p, d) THEN 1 ELSE 0))
          /\ \A j, k \in 0..M : j <= k => R[j] <= R[k]
      BY <1>2, RankIs DEF RankShape, GrowShape, M
    <2>2. 1 \in 1..M /\ 1 \in 0..M /\ M \in 0..M /\ 1 <= M
      BY <1>4
    <2>. QED
      BY <2>1, <2>2, <1>5
  <1>7. R[M] \in Nat /\ R[M] > 0
    <2>1. 1 - 1 = 0 /\ M \in 0..M
      BY <1>4
    <2>2. R[1] = 1 /\ R[M] \in Nat
      BY <1>6, <2>1
    <2>. QED
      BY <2>2, <1>6
  <1> HIDE DEF R
  <1>8. Size(p)[d] = Low(p, d) + (Off(p, d)[Len(p.lists[d])] + R[M]) /\ Low(p, d) = 0
    BY <1>2, SizeIs DEF SizeShape, Own, R, M
  <1>9. Off(p, d)[Len(p.lists[d])] = 0
    <2>1. Len(p.lists[d]) = 0
      BY <1>3
    <2>. QED
      BY <2>1, <1>2, OffIs DEF OffShape
  <1>10. Size(p)[d] > 0 /\ Size(p)[d] \in Nat
    BY <1>7, <1>8, <1>9
  <1>11. Size(p)[d] <= Size(p)[c] /\ Size(p)[c] \in Nat
    BY <1>2, SizeGrows, SizeIs DEF SizeShape
  <1>. QED
    BY <1>10, <1>11


\* The first slot of a hierarchy has the index 0.
LEMMA FirstSlotIs ==
  ASSUME NEW p \in Programs, NEW d \in Classes, p.base[d] = None, NEW idx, Numbered(p, idx, d)
  PROVE  p.names[d] # <<>> /\ idx[<<d, p.names[d][1]>>] = 0
  <1> DEFINE s == p.names[d]
             M == Len(s)
  <1>1. s # <<>> /\ p.lists[d] = <<>> /\ \A n \in NamesOf(p, d) : <<d, n>> \in p.newslot
    BY PlainIs DEF PlainShape
  <1>2. M \in Nat /\ M > 0 /\ s[1] \in NamesOf(p, d)
    <2>1. ListShape(s, NamesOf(p, d))
      BY ProgramLists, TypesAre
    <2>2. M \in Nat /\ s \in Seq(NamesOf(p, d)) /\ \A k \in 1..M : s[k] \in NamesOf(p, d)
      BY <2>1 DEF ListShape
    <2>3. M # 0
      BY <2>2, <1>1
    <2>. QED
      BY <2>2, <2>3
  <1>3. s[1] \in Fresh(p, d)
    <2>1. IfaceMethods(p, d) = {}
      BY <1>1 DEF IfaceMethods, ToSet
    <2>. QED
      BY <2>1, <1>1, <1>2 DEF Fresh
  <1>4. 1 \in 1..M
    BY <1>2
  <1>5. idx[<<d, s[1]>>] = Low(p, d) + Off(p, d)[Len(p.lists[d])] + Rank(p, d)[1 - 1]
    BY <1>3, <1>4 DEF Numbered, ByRank
  <1>6. Low(p, d) = 0
    BY DEF Low
  <1>7. Off(p, d)[Len(p.lists[d])] = 0
    <2>1. Len(p.lists[d]) = 0
      BY <1>1
    <2>. QED
      BY <2>1, OffIs DEF OffShape
  <1>8. Rank(p, d)[1 - 1] = 0
    <2>1. 1 - 1 = 0
      OBVIOUS
    <2>. QED
      BY <2>1, RankIs DEF RankShape
  <1>. QED
    BY <1>1, <1>5, <1>6, <1>7, <1>8

\* A new slot is put in its place, behind those of the base: no slot has its index.
LEMMA EnterAdd ==
  ASSUME NEW p \in Programs, NEW d \in Classes, NEW idx \in [MethodsOf(p) -> Nat],
         \A e \in Anc(p, d) : Numbered(p, idx, e), NEW T, StartShape(p, T, idx, d),
         NEW k \in 1..Len(p.names[d]), <<d, p.names[d][k]>> \in p.newslot,
         NEW f, EnterShape(p, f, T, idx, d, k - 1),
         NEW r, AddShape(p, f, idx[<<d, p.names[d][k]>>], <<d, p.names[d][k]>>, r)
  PROVE  EnterShape(p, r, T, idx, d, k)
  <1> DEFINE s == p.names[d]
             M == Len(s)
             nb == Low(p, d)
             m(j) == <<d, s[j]>>
             i0 == idx[m(k)]
             len == Len(f)
             new == [index |-> i0, method |-> m(k)]
  <1>1. M \in Nat /\ (\A j \in 1..M : s[j] \in NamesOf(p, d)) /\ \A i, j \in 1..M : s[i] = s[j] => i = j
    BY ProgramLists, TypesAre DEF ListShape
  <1>2. nb \in Nat
    BY SizeIs DEF SizeShape
  <1>0. Numbered(p, idx, d)
    BY AncFacts DEF AncShape
  <1>3. NumberShape(p, idx, d)
    BY <1>0, NumberIs
  <1>4. i0 \in Nat /\ nb <= i0
    BY <1>3 DEF NumberShape
  <1>5. /\ f \in Seq(Entry(p)) /\ nb <= len
        /\ (\A i, j \in 1..len : i < j => f[i].index < f[j].index)
        /\ (\A i \in 1..nb : f[i].index = i - 1)
        /\ (f # <<>> => f[1].index = 0)
        /\ (\A i \in 1..len : nb < i =>
              \E j \in 1..(k - 1) : m(j) \in p.newslot /\ f[i].index = idx[m(j)] /\ f[i].method = m(j))
        /\ (\A j \in 1..(k - 1) : m(j) \in p.newslot =>
              \E i \in 1..len : nb < i /\ f[i].index = idx[m(j)] /\ f[i].method = m(j))
        /\ (\A j \in 1..(k - 1) : m(j) \notin p.newslot => f[idx[m(j)] + 1].method = m(j))
        /\ (\A i \in 1..nb : (\A j \in 1..(k - 1) : m(j) \notin p.newslot => idx[m(j)] # i - 1)
                                => f[i].method = T[i].method)
    BY DEF EnterShape
  <1>6. len \in Nat /\ \A i \in 1..len : f[i].index \in Nat
    <2>1. \A i \in 1..len : f[i] \in Entry(p)
      BY <1>5
    <2>2. len \in Nat
      BY <1>5
    <2>. QED
      BY <2>1, <2>2 DEF Entry
  <1>7. /\ \A j \in 1..(k - 1) : j \in 1..M /\ j \in 1..k /\ j # k
        /\ \A j \in 1..k : j \in 1..(k - 1) \/ j = k
        /\ k \in 1..k /\ \A i \in 1..nb : i \in 1..len
    BY <1>1, <1>2, <1>5, <1>6
  <1>8. ASSUME NEW j \in 1..(k - 1), m(j) \in p.newslot PROVE idx[m(j)] # i0
    <2>1. idx[m(j)] = i0 => s[j] = s[k]
      BY <1>8, <1>3 DEF NumberShape
    <2>. QED
      BY <2>1, <1>1, <1>7
  <1>9. /\ f = <<>> => k = 1 /\ i0 = 0
        /\ f = <<>> <=> len = 0
    <2>1. f = <<>> <=> len = 0
      BY <1>5
    <2> SUFFICES ASSUME f = <<>> PROVE k = 1 /\ i0 = 0
      BY <2>1
    <2>2. nb = 0
      BY <2>1, <1>2, <1>5
    <2>3. p.base[d] = None
      <3> SUFFICES ASSUME p.base[d] # None PROVE FALSE
        OBVIOUS
      <3>1. p.base[d] \in Classes
        BY AncIs
      <3>2. Size(p)[p.base[d]] > 0 /\ nb = Size(p)[p.base[d]]
        BY <3>1, SizePositive, SizeIs DEF SizeShape
      <3>. QED
        BY <3>2, <2>2
    <2>4. \A n \in NamesOf(p, d) : <<d, n>> \in p.newslot
      BY <2>3, PlainIs DEF PlainShape
    <2>5. k = 1
      <3> SUFFICES ASSUME k # 1 PROVE FALSE
        OBVIOUS
      <3>1. 1 \in 1..(k - 1) /\ 1 \in 1..M
        BY <1>1
      <3>2. m(1) \in p.newslot
        BY <3>1, <2>4, <1>1
      <3> HIDE DEF m
      <3>. QED
        BY <3>1, <3>2, <1>5, <2>1
    <2>. QED
      BY <2>5, <2>3, <1>0, FirstSlotIs
  <1> HIDE DEF s, M, nb, m, i0, len
  <1>10. \A i \in 1..len : f[i].index # i0
    <2> SUFFICES ASSUME NEW i \in 1..len PROVE f[i].index # i0
      OBVIOUS
    <2>1. CASE i <= nb
      BY <2>1, <1>2, <1>4, <1>5
    <2>2. CASE nb < i
      BY <2>2, <1>5, <1>8
    <2>. QED
      BY <2>1, <2>2, <1>2
  <1>11. PICK q \in Nat :
           /\ InsertedShape(Entry(p), f, new, r, q)
           /\ f = <<>> \/ q >= 2
           /\ \A j \in 2..len : j < q => f[j].index < i0
           /\ q <= len => f[q].index > i0
    <2>1. \/ r = Fail /\ \E j \in 2..len : f[j].index = i0
          \/ \E q \in Nat :
               /\ InsertedShape(Entry(p), f, new, r, q)
               /\ f = <<>> \/ q >= 2
               /\ \A j \in 2..len : j < q => f[j].index < i0
               /\ q <= len => f[q].index > i0
      BY DEF AddShape, s, m, i0, len
    <2>2. ~\E j \in 2..len : f[j].index = i0
      BY <1>6, <1>10
    <2>. QED
      BY ONLY <2>1, <2>2
  <1>12. /\ r \in Seq(Entry(p)) /\ Len(r) = len + 1 /\ q \in 1..(len + 1)
         /\ r[q] = new
         /\ (\A j \in 1..len : j < q => r[j] = f[j])
         /\ \A j \in 1..len : j >= q => r[j + 1] = f[j]
    BY <1>11 DEF InsertedShape, len
  <1>13. new.index = i0 /\ new.method = m(k)
    OBVIOUS
  <1> HIDE DEF new
  <1>14. ASSUME NEW j \in 1..len, j < q PROVE f[j].index < i0
    <2>1. CASE j = 1
      <3>1. f # <<>>
        BY <1>9, <1>6
      <3>2. f[1].index = 0 /\ f[1].index # i0
        BY <3>1, <1>5, <1>10, <2>1
      <3>. QED
        BY <3>2, <2>1, <1>4
    <2>2. CASE j # 1
      <3>1. j \in 2..len
        BY <2>2, <1>6
      <3>. QED
        BY <3>1, <1>11, <1>14
    <2>. QED
      BY <2>1, <2>2
  <1>15. ASSUME NEW j \in 1..len, j >= q PROVE f[j].index > i0
    <2>1. q \in 1..len /\ f[q].index > i0
      BY <1>6, <1>11, <1>12, <1>15
    <2>2. CASE j = q
      BY <2>1, <2>2
    <2>3. CASE j # q
      <3>1. q < j
        BY <2>3, <1>15, <1>6, <1>12
      <3>2. f[q].index < f[j].index
        BY <3>1, <2>1, <1>5
      <3>. QED
        BY <3>2, <2>1, <1>4, <1>6
    <2>. QED
      BY <2>2, <2>3
  <1>16. nb < q
    <2> SUFFICES ASSUME q <= nb PROVE FALSE
      BY <1>2, <1>12
    <2>1. q \in 1..nb /\ q \in 1..len
      BY <1>2, <1>5, <1>6, <1>12
    <2>2. f[q].index = q - 1 /\ f[q].index > i0
      BY <2>1, <1>5, <1>15, <1>12
    <2>. QED
      BY <2>1, <2>2, <1>2, <1>4
  <1>17. ASSUME NEW j \in 1..(len + 1)
         PROVE  \/ j < q /\ j \in 1..len /\ r[j] = f[j] /\ f[j].index < i0
                \/ j = q /\ r[j] = new
                \/ j > q /\ j - 1 \in 1..len /\ j - 1 >= q /\ r[j] = f[j - 1] /\ f[j - 1].index > i0
    <2>1. CASE j < q
      <3>1. j \in 1..len
        BY <2>1, <1>6, <1>12
      <3>. QED
        BY <2>1, <3>1, <1>12, <1>14
    <2>2. CASE j = q
      BY <2>2, <1>12
    <2>3. CASE j > q
      <3> DEFINE i == j - 1
      <3>1. i \in 1..len /\ i >= q /\ i + 1 = j
        BY <2>3, <1>6, <1>12
      <3> HIDE DEF i
      <3>2. r[j] = f[i] /\ f[i].index > i0
        BY <3>1, <1>12, <1>15
      <3>. QED
        BY <2>3, <3>1, <3>2 DEF i
    <2>. QED
      BY <2>1, <2>2, <2>3, <1>6, <1>12
  <1>18. ASSUME NEW i \in 1..(len + 1), NEW j \in 1..(len + 1), i < j PROVE r[i].index < r[j].index
    <2>1. CASE i < q /\ j < q
      BY <2>1, <1>17, <1>18, <1>5, <1>12, <1>6
    <2>2. CASE i < q /\ j = q
      <3>1. r[i] = f[i] /\ f[i].index < i0 /\ r[j] = new
        BY <2>2, <1>17, <1>12, <1>6
      <3>. QED
        BY <3>1, <1>13
    <2>3. CASE i < q /\ j > q
      <3>1. i \in 1..len /\ r[i] = f[i] /\ f[i].index < i0 /\ r[j] = f[j - 1] /\ f[j - 1].index > i0 /\ j - 1 \in 1..len
        BY <2>3, <1>17, <1>12, <1>6
      <3> DEFINE y == j - 1
      <3> HIDE DEF y
      <3>2. f[y].index \in Nat /\ f[i].index \in Nat /\ r[j] = f[y] /\ f[y].index > i0
        BY <3>1, <1>6 DEF y
      <3>. QED
        BY <3>1, <3>2, <1>4
    <2>4. CASE i = q /\ j > q
      <3> DEFINE y == j - 1
      <3>1. r[i] = new /\ r[j] = f[y] /\ f[y].index > i0 /\ y \in 1..len
        BY <2>4, <1>17, <1>12, <1>6
      <3> HIDE DEF y
      <3>. QED
        BY <3>1, <1>13, <1>4, <1>6
    <2>5. CASE i > q /\ j > q
      <3> DEFINE y == j - 1
                 x == i - 1
      <3>0. q \in Nat /\ ~(i < q) /\ i # q /\ ~(j < q) /\ j # q
        BY <2>5, <1>12, <1>6
      <3>a. r[i] = f[x] /\ x \in 1..len
        BY <3>0, <1>17
      <3>b. r[j] = f[y] /\ y \in 1..len
        BY <3>0, <1>17
      <3>1. r[i] = f[x] /\ x \in 1..len /\ r[j] = f[y] /\ y \in 1..len
        BY <3>a, <3>b
      <3>2. x < y
        BY <1>18, <1>6
      <3> HIDE DEF x, y
      <3>. QED
        BY <3>1, <3>2, <1>5
    <2>. QED
      BY <2>1, <2>2, <2>3, <2>4, <2>5, <1>6, <1>12, <1>18
  <1>19. \A i \in 1..nb : i \in 1..len /\ r[i] = f[i]
    <2> SUFFICES ASSUME NEW i \in 1..nb PROVE r[i] = f[i]
      BY <1>7
    <2>1. i \in 1..len /\ i < q
      BY <1>2, <1>7, <1>16, <1>12
    <2>. QED
      BY <2>1, <1>12
  <1>20. \A i \in 1..nb : r[i].index = i - 1
    BY <1>5, <1>19
  <1>21. r[1].index = 0
    <2>1. 1 \in 1..(len + 1)
      BY <1>6
    <2>2. CASE f = <<>>
      <3>1. q = 1 /\ i0 = 0
        BY <2>2, <1>9, <1>12
      <3>. QED
        BY <3>1, <1>12, <1>13
    <2>3. CASE f # <<>>
      <3>1. 1 \in 1..len /\ 1 < q
        BY <2>3, <1>6, <1>9, <1>11, <1>12
      <3>2. r[1] = f[1]
        BY <3>1, <1>12
      <3>. QED
        BY <3>2, <2>3, <1>5
    <2>. QED
      BY <2>2, <2>3
  <1>22. ASSUME NEW i \in 1..(len + 1), nb < i
         PROVE  \E j \in 1..k : m(j) \in p.newslot /\ r[i].index = idx[m(j)] /\ r[i].method = m(j)
    <2>1. CASE i = q
      <3>1. m(k) \in p.newslot /\ r[i].index = idx[m(k)] /\ r[i].method = m(k)
        BY <2>1, <1>12, <1>13 DEF i0, m, s
      <3>. QED
        BY <3>1, <1>7
    <2>2. CASE i # q
      <3>1. PICK x \in 1..len : nb < x /\ r[i] = f[x]
        <4>1. CASE i < q
          BY <4>1, <1>17, <1>22, <1>12, <1>6
        <4>2. CASE i > q
          <5> DEFINE x == i - 1
          <5>1. x \in 1..len /\ x >= q /\ r[i] = f[x]
            BY <4>2, <1>17, <1>12, <1>6
          <5>2. nb < x
            BY <5>1, <1>16, <1>2, <1>12
          <5> HIDE DEF x
          <5>. QED
            BY <5>1, <5>2
        <4>. QED
          BY <4>1, <4>2, <2>2, <1>6, <1>12
      <3>2. PICK j \in 1..(k - 1) : m(j) \in p.newslot /\ f[x].index = idx[m(j)] /\ f[x].method = m(j)
        BY <3>1, <1>5
      <3>. QED
        BY <3>1, <3>2, <1>7
    <2>. QED
      BY <2>1, <2>2
  <1>23. ASSUME NEW j \in 1..k, m(j) \in p.newslot
         PROVE  \E i \in 1..(len + 1) : nb < i /\ r[i].index = idx[m(j)] /\ r[i].method = m(j)
    <2>1. CASE j = k
      <3>1. r[q].index = idx[m(j)] /\ r[q].method = m(j)
        BY <2>1, <1>12, <1>13 DEF i0
      <3>. QED
        BY <3>1, <1>12, <1>16
    <2>2. CASE j \in 1..(k - 1)
      <3>1. PICK i \in 1..len : nb < i /\ f[i].index = idx[m(j)] /\ f[i].method = m(j)
        BY <2>2, <1>5, <1>23
      <3>2. CASE i < q
        <4>1. r[i] = f[i] /\ i \in 1..(len + 1)
          BY <3>2, <1>12, <1>6
        <4>. QED
          BY <3>1, <4>1
      <3>3. CASE i >= q
        <4> DEFINE x == i + 1
        <4>1. r[x] = f[i] /\ x \in 1..(len + 1) /\ nb < x
          BY <3>1, <3>3, <1>12, <1>6, <1>2
        <4> HIDE DEF x
        <4>. QED
          BY <3>1, <4>1
      <3>. QED
        BY <3>2, <3>3, <1>6, <1>12
    <2>. QED
      BY <2>1, <2>2, <1>7
  <1>24. ASSUME NEW j \in 1..k, m(j) \notin p.newslot PROVE r[idx[m(j)] + 1].method = m(j)
    <2>1. j \in 1..(k - 1) /\ j \in 1..M
      BY <1>7, <1>24 DEF m, s
    <2> DEFINE i == idx[m(j)]
    <2>2. i \in Nat /\ i < nb
      <3>1. s[j] \in NamesOf(p, d)
        BY <2>1, <1>1
      <3>. QED
        BY <3>1, <1>24, OverrideSlot DEF m, s, nb
    <2>3. f[i + 1].method = m(j)
      BY <2>1, <1>5, <1>24
    <2> HIDE DEF i
    <2>4. i + 1 \in 1..nb
      BY <2>2, <1>2
    <2>5. r[i + 1].method = m(j)
      BY <2>3, <2>4, <1>19
    <2>. QED
      BY <2>5 DEF i
  <1>25. ASSUME NEW i \in 1..nb, \A j \in 1..k : m(j) \notin p.newslot => idx[m(j)] # i - 1
         PROVE  r[i].method = T[i].method
    <2>1. \A j \in 1..(k - 1) : m(j) \notin p.newslot => idx[m(j)] # i - 1
      BY <1>7, <1>25
    <2>2. f[i].method = T[i].method
      BY <2>1, <1>5
    <2>. QED
      BY <2>2, <1>19
  <1>26. r \in Seq(Entry(p)) /\ nb <= Len(r) /\ Len(r) = len + 1
    BY <1>2, <1>5, <1>6, <1>12
  <1>. QED
    BY <1>18, <1>20, <1>21, <1>22, <1>23, <1>24, <1>25, <1>26 DEF EnterShape, s, nb, m

\* The base's table is what the methods of D are entered into.
LEMMA EnterStart ==
  ASSUME NEW p \in Programs, NEW d \in Classes, NEW idx, NEW T, StartShape(p, T, idx, d)
  PROVE  EnterShape(p, T, T, idx, d, 0)
  <1> DEFINE nb == Low(p, d)
             len == Len(T)
  <1>1. nb \in Nat
    BY SizeIs DEF SizeShape
  <1>2. T \in Seq(Entry(p)) /\ nb = len /\ (\A i \in 1..len : T[i].index = i - 1)
    <2>1. CASE p.base[d] = None
      <3>1. T = <<>> /\ nb = 0
        BY <2>1 DEF StartShape, Low
      <3>. QED
        BY <3>1
    <2>2. CASE p.base[d] # None
      <3>1. TableShape(p, T, idx, p.base[d]) /\ nb = Size(p)[p.base[d]]
        BY <2>2 DEF StartShape, Low
      <3>. QED
        BY <3>1 DEF TableShape
    <2>. QED
      BY <2>1, <2>2
  <1>3. \A j \in 1..0 : FALSE
    OBVIOUS
  <1>4. T # <<>> => T[1].index = 0
    <2> SUFFICES ASSUME T # <<>> PROVE T[1].index = 0
      OBVIOUS
    <2>1. 1 \in 1..len
      BY <1>2
    <2>2. T[1].index = 1 - 1
      BY <2>1, <1>2
    <2>. QED
      BY <2>2
  <1>5. len \in Nat
    BY <1>2
  <1> HIDE DEF nb, len
  <1>6. \A i, j \in 1..len : i < j => T[i].index < T[j].index
    BY <1>2, <1>5
  <1>7. \A i \in 1..len : ~(nb < i)
    BY <1>2, <1>5
  <1>8. nb <= len
    BY <1>2, <1>5
  <1>. QED
    BY <1>2, <1>3, <1>4, <1>6, <1>7, <1>8 DEF EnterShape, nb, len

\* One more method of D.
LEMMA EnterStep ==
  ASSUME prog \in Programs, NEW d \in Classes, NEW idx \in [MethodsOf(prog) -> Nat],
         \A e \in Anc(prog, d) : Numbered(prog, idx, e), NEW T, StartShape(prog, T, idx, d),
         NEW k \in 1..Len(prog.names[d]), NEW f, EnterShape(prog, f, T, idx, d, k - 1)
  PROVE  EnterShape(prog, EnterMethod(f, idx, <<d, prog.names[d][k]>>), T, idx, d, k)
  <1> DEFINE n == prog.names[d][k]
             m == <<d, n>>
             i == idx[m]
             nb == Low(prog, d)
  <1>1. n \in NamesOf(prog, d)
    BY ProgramLists, TypesAre DEF ListShape
  <1>2. m \in MethodsOf(prog)
    BY <1>1, MethodIs, TypesAre
  <1>3. i \in Nat
    BY <1>2
  <1>4. f \in Seq(Entry(prog)) /\ nb <= Len(f)
    BY DEF EnterShape
  <1>5. f # Fail
    BY <1>4, NotFail
  <1>6. OverrideShape(d, n)
    BY <1>1, OverrideIs
  <1>7. CASE m \in prog.newslot
    <2>1. EnterMethod(f, idx, m) = add_vtable_slot(f, i, m)
      BY <1>5, <1>6, <1>7 DEF EnterMethod, OverrideShape
    <2>2. AddShape(prog, f, i, m, add_vtable_slot(f, i, m))
      <3> HIDE DEF m, i
      <3>. QED
        BY <1>2, <1>3, <1>4, AddIs
    <2>. QED
      BY <1>7, <2>1, <2>2, EnterAdd
  <1>8. CASE m \notin prog.newslot
    <2>1. EnterMethod(f, idx, m) = change_vtable_slot(f, i, m)
      BY <1>5, <1>6, <1>8 DEF EnterMethod, OverrideShape
    <2>2. i < nb /\ nb \in Nat
      BY <1>1, <1>8, OverrideSlot, SizeIs DEF SizeShape
    <2>3. ChangeShape(prog, f, i, m, change_vtable_slot(f, i, m))
      <3> HIDE DEF m, i, nb
      <3>1. i + 1 \in 1..Len(f)
        BY <1>3, <1>4, <2>2
      <3>. QED
        BY <1>2, <1>3, <1>4, <3>1, ChangeIs
    <2>. QED
      BY <1>8, <2>1, <2>3, EnterChange
  <1>. QED
    BY <1>7, <1>8

\* All methods of D are entered: F is its table.
LEMMA EnterEnd ==
  ASSUME NEW p \in Programs, NEW d \in Classes, NEW idx \in [MethodsOf(p) -> Nat],
         \A e \in Anc(p, d) : Numbered(p, idx, e), NEW T, StartShape(p, T, idx, d),
         NEW f, EnterShape(p, f, T, idx, d, Len(p.names[d]))
  PROVE  TableShape(p, f, idx, d)
  <1> DEFINE s == p.names[d]
             M == Len(s)
             nb == Low(p, d)
             m(j) == <<d, s[j]>>
             len == Len(f)
             size == Size(p)[d]
             g == [i \in 1..len |-> f[i].index]
  <1>1. /\ M \in Nat /\ (\A j \in 1..M : s[j] \in NamesOf(p, d))
        /\ \A x \in NamesOf(p, d) : \E j \in 1..M : s[j] = x
    <2>1. ListShape(s, NamesOf(p, d))
      BY ProgramLists, TypesAre
    <2>2. NamesOf(p, d) = ToSet(s)
      BY DEF NamesOf
    <2> HIDE DEF s
    <2>. QED
      BY <2>1, <2>2 DEF ListShape
  <1>2. nb \in Nat /\ size \in Nat /\ nb <= size
    <2>1. nb \in Nat /\ size = nb + Own(p, d) /\ Own(p, d) \in Nat
      BY SizeIs, OwnIsNat DEF SizeShape
    <2>. QED
      BY <2>1
  <1>3. NumberShape(p, idx, d)
    BY AncFacts, NumberIs DEF AncShape
  <1>4. /\ f \in Seq(Entry(p)) /\ nb <= len
        /\ (\A i, j \in 1..len : i < j => f[i].index < f[j].index)
        /\ (\A i \in 1..nb : f[i].index = i - 1)
        /\ (\A i \in 1..len : nb < i =>
              \E j \in 1..M : m(j) \in p.newslot /\ f[i].index = idx[m(j)] /\ f[i].method = m(j))
        /\ (\A j \in 1..M : m(j) \in p.newslot =>
              \E i \in 1..len : nb < i /\ f[i].index = idx[m(j)] /\ f[i].method = m(j))
        /\ (\A j \in 1..M : m(j) \notin p.newslot => f[idx[m(j)] + 1].method = m(j))
        /\ (\A i \in 1..nb : (\A j \in 1..M : m(j) \notin p.newslot => idx[m(j)] # i - 1)
                                => f[i].method = T[i].method)
    BY DEF EnterShape
  <1>5. len \in Nat /\ \A i \in 1..len : f[i].index \in Nat
    <2>1. \A i \in 1..len : f[i] \in Entry(p)
      BY <1>4
    <2>2. len \in Nat
      BY <1>4
    <2>. QED
      BY <2>1, <2>2 DEF Entry
  <1>6. \A j \in 1..M : m(j) \in p.newslot => idx[m(j)] \in Nat /\ idx[m(j)] < size
    BY <1>3 DEF NumberShape
  <1>7. \A v \in Nat : nb <= v /\ v < size => \E j \in 1..M : m(j) \in p.newslot /\ idx[m(j)] = v
    BY <1>3 DEF NumberShape
  <1>8. \A j \in 1..M : m(j) \notin p.newslot => idx[m(j)] \in Nat /\ idx[m(j)] < nb
    BY <1>1, OverrideSlot
  <1> HIDE DEF s, M, nb, m, len, size
  <1>9. g \in [1..len -> Nat] /\ \A i \in 1..len : g[i] = f[i].index
    BY <1>5
  <1> HIDE DEF g
  <1>10. ASSUME NEW i \in 1..len PROVE g[i] < size
    <2>1. CASE i <= nb
      <3>1. i \in 1..nb
        BY <2>1, <1>2
      <3>2. g[i] = i - 1
        BY <3>1, <1>4, <1>9
      <3>. QED
        BY <3>1, <3>2, <1>2
    <2>2. CASE nb < i
      BY <2>2, <1>4, <1>6, <1>9
    <2>. QED
      BY <2>1, <2>2, <1>2
  <1>11. ASSUME NEW v \in Nat, v < size PROVE \E i \in 1..len : g[i] = v
    <2>1. CASE v < nb
      <3> DEFINE i == v + 1
      <3>1. i \in 1..nb /\ i \in 1..len /\ i - 1 = v
        BY <2>1, <1>2, <1>4, <1>5
      <3> HIDE DEF i
      <3>2. g[i] = v
        BY <3>1, <1>4, <1>9
      <3>. QED
        BY <3>1, <3>2
    <2>2. CASE nb <= v
      <3>1. PICK j \in 1..M : m(j) \in p.newslot /\ idx[m(j)] = v
        BY <2>2, <1>7, <1>11
      <3>2. PICK i \in 1..len : f[i].index = idx[m(j)]
        BY <3>1, <1>4
      <3>. QED
        BY <3>1, <3>2, <1>9
    <2>. QED
      BY <2>1, <2>2, <1>2
  <1>12. \A i, j \in 1..len : i < j => g[i] < g[j]
    BY <1>4, <1>9
  <1>13. len = size /\ \A i \in 1..len : g[i] = i - 1
    <2>1. DenseShape(len, size, g)
      BY ONLY <1>2, <1>5, <1>9, <1>10, <1>11, <1>12, Dense
    <2>. QED
      BY ONLY <2>1 DEF DenseShape
  <1>14. \A i \in 1..len : f[i].index = i - 1
    BY <1>9, <1>13
  <1>15. ASSUME NEW e \in Anc(p, d), NEW n \in NamesOf(p, e)
         PROVE  idx[<<e, n>>] + 1 \in 1..len /\ f[idx[<<e, n>>] + 1].method = <<Nearest(p, d, n), n>>
    <2> DEFINE v == idx[<<e, n>>]
    <2>1. CASE n \in NamesOf(p, d)
      <3>1. v = idx[<<d, n>>] /\ Nearest(p, d, n) = d
        BY <2>1, SameNumber, AncFacts, NearestIs DEF AncShape, NearestShape
      <3>2. PICK j \in 1..M : s[j] = n
        BY <2>1, <1>1
      <3>3. v = idx[m(j)] /\ m(j) = <<Nearest(p, d, n), n>>
        BY <3>1, <3>2 DEF m
      <3> HIDE DEF v
      <3>4. CASE m(j) \in p.newslot
        <4>1. PICK i \in 1..len : f[i].index = v /\ f[i].method = m(j)
          BY <3>3, <3>4, <1>4
        <4>2. v + 1 = i
          BY <4>1, <1>14, <1>5
        <4>. QED
          BY <4>1, <4>2, <3>3 DEF v
      <3>5. CASE m(j) \notin p.newslot
        <4>1. v \in Nat /\ v < nb /\ f[v + 1].method = m(j)
          BY <3>3, <3>5, <1>4, <1>8
        <4>2. v + 1 \in 1..len
          BY <4>1, <1>2, <1>4, <1>5
        <4>. QED
          BY <4>1, <4>2, <3>3 DEF v
      <3>. QED
        BY <3>4, <3>5
    <2>2. CASE n \notin NamesOf(p, d)
      <3> DEFINE b == p.base[d]
      <3>1. e # d
        BY <2>2
      <3>2. b # None /\ b \in Classes /\ e \in Anc(p, b)
        BY <3>1, AncIs
      <3>3. TableShape(p, T, idx, b) /\ nb = Size(p)[b]
        BY <3>2 DEF StartShape, nb, Low
      <3>4. Nearest(p, d, n) = Nearest(p, b, n)
        BY <2>2, <3>2, NearestIs DEF NearestShape
      <3>5. v + 1 \in 1..nb /\ T[v + 1].method = <<Nearest(p, d, n), n>>
        BY <3>2, <3>3, <3>4 DEF TableShape
      <3>6. v \in Nat
        <4>1. <<e, n>> \in MethodsOf(p)
          BY MethodIs, TypesAre, AncFacts DEF AncShape
        <4>. QED
          BY <4>1
      <3>7. ASSUME NEW j \in 1..M, m(j) \notin p.newslot PROVE idx[m(j)] # v
        <4>1. s[j] \in NamesOf(p, d) /\ m(j) = <<d, s[j]>>
          BY <1>1 DEF m
        <4>2. idx[<<e, n>>] = idx[<<d, s[j]>>] => n = s[j]
          BY <3>2, <3>7, <4>1, OverrideSlot
        <4>. QED
          BY <4>1, <4>2, <2>2
      <3> HIDE DEF v
      <3> DEFINE i == v + 1
      <3>8. i \in 1..nb /\ i - 1 = v /\ i \in 1..len /\ T[i].method = <<Nearest(p, d, n), n>>
        BY <3>5, <3>6, <1>2, <1>4, <1>5
      <3> HIDE DEF i
      <3>9. f[i].method = T[i].method
        BY <3>7, <3>8, <1>4
      <3>. QED
        BY <3>8, <3>9 DEF v, i
    <2>. QED
      BY <2>1, <2>2
  <1>. QED
    BY <1>4, <1>13, <1>14, <1>15 DEF TableShape, len, size

\* The methods of one class.
LEMMA EnterClassIs ==
  ASSUME prog \in Programs, NEW d \in Classes, NEW idx \in [MethodsOf(prog) -> Nat],
         \A e \in Anc(prog, d) : Numbered(prog, idx, e), NEW T, StartShape(prog, T, idx, d)
  PROVE  TableShape(prog, EnterClass(T, idx, d), idx, d)
  <1> DEFINE s == prog.names[d]
             n == Len(s)
             X == Tables(prog)
  <1>1. n \in Nat /\ DOMAIN s = 1..n /\ \A j \in 1..n : s[j] \in NamesOf(prog, d)
    BY ProgramLists, TypesAre DEF ListShape
  <1>2. EnterShape(prog, T, T, idx, d, 0)
    BY EnterStart
  <1>3. T \in X
    BY <1>2 DEF EnterShape, Tables
  <1>4. \A x \in X : \A k \in 1..n : EnterMethod(x, idx, <<d, s[k]>>) \in X
    BY <1>1, EnterType
  <1>5. EnterClass(T, idx, d) = FoldLeft(LAMBDA x, e : EnterMethod(x, idx, <<d, e>>), T, s)
    BY DEF EnterClass
  <1> HIDE DEF s, n, X
  <1>6. FoldEnterShape(idx, d, X, n, T, s)
    BY ONLY <1>1, <1>3, <1>4, FoldEnter
  <1>7. PICK a \in [0..n -> X] :
          /\ a[0] = T /\ FoldLeft(LAMBDA x, e : EnterMethod(x, idx, <<d, e>>), T, s) = a[n]
          /\ \A k \in 1..n : a[k] = EnterMethod(a[k - 1], idx, <<d, s[k]>>)
    BY ONLY <1>6 DEF FoldEnterShape
  <1> DEFINE S == {k \in 0..n : EnterShape(prog, a[k], T, idx, d, k)}
  <1>8. 0 \in S
    <2>1. 0 \in 0..n
      BY <1>1
    <2>2. EnterShape(prog, a[0], T, idx, d, 0)
      BY <1>2, <1>7
    <2>. QED
      BY <2>1, <2>2
  <1>9. ASSUME NEW k \in 1..n, k - 1 \in S PROVE k \in S
    <2> DEFINE y == a[k - 1]
    <2>1. EnterShape(prog, y, T, idx, d, k - 1) /\ k \in 0..n
      BY <1>9, <1>1
    <2>2. a[k] = EnterMethod(y, idx, <<d, s[k]>>)
      BY <1>7
    <2> HIDE DEF y
    <2>3. EnterShape(prog, EnterMethod(y, idx, <<d, s[k]>>), T, idx, d, k)
      BY <2>1, EnterStep DEF n, s
    <2>. QED
      BY <2>1, <2>2, <2>3
  <1>10. n \in S
    <2> HIDE DEF S
    <2>1. \A k \in 0..n : k \in S
      BY ONLY <1>1, <1>8, <1>9, UpTo
    <2>2. n \in 0..n
      BY <1>1
    <2>. QED
      BY <2>1, <2>2
  <1> DEFINE y == a[n]
  <1>11. EnterShape(prog, y, T, idx, d, n) /\ EnterClass(T, idx, d) = y
    BY <1>5, <1>7, <1>10
  <1> HIDE DEF y
  <1>12. TableShape(prog, y, idx, d)
    BY <1>11, EnterEnd DEF n, s
  <1>. QED
    BY <1>11, <1>12

\* EnterClass, whatever it starts with.
LEMMA EnterClassType ==
  ASSUME prog \in Programs, NEW d \in Classes, NEW idx \in [MethodsOf(prog) -> Nat], NEW x \in Tables(prog)
  PROVE  EnterClass(x, idx, d) \in Tables(prog)
  <1> DEFINE s == prog.names[d]
             n == Len(s)
             X == Tables(prog)
  <1>1. n \in Nat /\ DOMAIN s = 1..n /\ \A j \in 1..n : s[j] \in NamesOf(prog, d)
    BY ProgramLists, TypesAre DEF ListShape
  <1>2. x \in X
    OBVIOUS
  <1>3. \A y \in X : \A k \in 1..n : EnterMethod(y, idx, <<d, s[k]>>) \in X
    BY <1>1, EnterType
  <1>4. EnterClass(x, idx, d) = FoldLeft(LAMBDA y, e : EnterMethod(y, idx, <<d, e>>), x, s)
    BY DEF EnterClass
  <1> HIDE DEF s, n, X
  <1>5. FoldEnterShape(idx, d, X, n, x, s)
    BY ONLY <1>1, <1>2, <1>3, FoldEnter
  <1>6. PICK a \in [0..n -> X] : FoldLeft(LAMBDA y, e : EnterMethod(y, idx, <<d, e>>), x, s) = a[n]
    BY ONLY <1>5 DEF FoldEnterShape
  <1>7. a[n] \in X
    BY <1>1
  <1>. QED
    BY <1>4, <1>6, <1>7 DEF X

\* create_vtable_entries makes the table of a class.
LEMMA EntriesAre ==
  ASSUME prog \in Programs, NEW c \in Classes, NEW idx \in [MethodsOf(prog) -> Nat],
         \A e \in Anc(prog, c) : Numbered(prog, idx, e)
  PROVE  TableShape(prog, create_vtable_entries(c, idx), idx, c)
  <1> DEFINE s == LineageOf(prog, c)
             n == Len(s)
             X == Tables(prog)
             t0 == <<>>
  <1>1. PathShape(prog, c, s)
    BY PathIs
  <1>2. /\ n \in Nat /\ n > 0 /\ DOMAIN s = 1..n /\ (\A j \in 1..n : s[j] \in Classes) /\ s[n] = c
        /\ prog.base[s[1]] = None /\ (\A j \in 1..n : j > 1 => prog.base[s[j]] = s[j - 1])
        /\ (\A j \in 1..n : \A e : e \in Anc(prog, s[j]) <=> \E i \in 1..j : s[i] = e)
    BY <1>1 DEF PathShape
  <1>3. create_vtable_entries(c, idx) = FoldLeft(LAMBDA x, e : EnterClass(x, idx, e), t0, s)
    BY DEF create_vtable_entries, EnterClass, Lineage
  <1>4. t0 \in X
    BY DEF Tables
  <1> HIDE DEF s, n
  <1>5. \A x \in X : \A k \in 1..n : EnterClass(x, idx, s[k]) \in X
    BY <1>2, EnterClassType
  <1> HIDE DEF X, t0
  <1>6. FoldTablesShape(idx, X, n, t0, s)
    BY ONLY <1>2, <1>4, <1>5, FoldTables
  <1>7. PICK a \in [0..n -> X] :
          /\ a[0] = t0 /\ FoldLeft(LAMBDA x, e : EnterClass(x, idx, e), t0, s) = a[n]
          /\ \A k \in 1..n : a[k] = EnterClass(a[k - 1], idx, s[k])
    BY ONLY <1>6 DEF FoldTablesShape
  <1>8. \A k \in 1..n : \A e \in Anc(prog, s[k]) : Numbered(prog, idx, e)
    <2>1. \A k \in 1..n : \A j \in 1..k : j \in 1..n
      BY <1>2
    <2>2. n \in 1..n
      BY <1>2
    <2>. QED
      BY <1>2, <2>1, <2>2
  <1> DEFINE S == {k \in 0..n : k # 0 => TableShape(prog, a[k], idx, s[k])}
  <1>9. 0 \in S
    BY <1>2
  <1>10. ASSUME NEW k \in 1..n, k - 1 \in S PROVE k \in S
    <2> DEFINE y == a[k - 1]
               d == s[k]
    <2>0. a[k] = EnterClass(y, idx, d)
      BY <1>7
    <2>1. a[k] = EnterClass(y, idx, d) /\ k \in 0..n /\ d \in Classes
      BY <2>0, <1>2
    <2>2. StartShape(prog, y, idx, d)
      <3>1. CASE k = 1
        <4>1. prog.base[d] = None /\ k - 1 = 0
          BY <3>1, <1>2
        <4>2. y = <<>>
          BY <4>1, <1>7 DEF t0
        <4>. QED
          BY <4>1, <4>2 DEF StartShape
      <3>2. CASE k # 1
        <4>1. k > 1 /\ k - 1 # 0 /\ k - 1 \in 1..n
          BY <3>2, <1>2
        <4>2. prog.base[d] = s[k - 1] /\ s[k - 1] \in Classes
          BY <4>1, <1>2
        <4>3. TableShape(prog, y, idx, s[k - 1])
          BY <4>1, <1>10
        <4>4. prog.base[d] # None
          BY <4>2, TypesAre
        <4>. QED
          BY <4>2, <4>3, <4>4 DEF StartShape
      <3>. QED
        BY <3>1, <3>2
    <2>3. \A e \in Anc(prog, d) : Numbered(prog, idx, e)
      BY <1>8
    <2> HIDE DEF y, d
    <2>4. TableShape(prog, EnterClass(y, idx, d), idx, d)
      BY <2>1, <2>2, <2>3, EnterClassIs
    <2>. QED
      BY <2>1, <2>4 DEF d
  <1>11. n \in S
    <2> HIDE DEF S
    <2>1. \A k \in 0..n : k \in S
      BY ONLY <1>2, <1>9, <1>10, UpTo
    <2>2. n \in 0..n
      BY <1>2
    <2>. QED
      BY <2>1, <2>2
  <1>12. TableShape(prog, a[n], idx, c)
    BY <1>2, <1>11
  <1>. QED
    BY <1>3, <1>7, <1>12

-----------------------------------------------------------------------------
(* The invariant of the compiler                                             *)

\* IDX numbers the methods of the interface I in their order.
IfaceNumbered(p, idx, i) == \A k \in 1..Len(p.names[i]) : idx[<<i, p.names[i][k]>>] = k - 1

\* The base of a class is parsed before the class.
ParsedOK ==
  /\ prog \in Programs /\ parsed \subseteq Types
  /\ \A c \in parsed \cap Classes : prog.base[c] \in parsed \cup {None}

\* The methods of what is parsed are numbered.
IndexOK ==
  /\ index \in [MethodsOf(prog) -> Nat] /\ count = {}
  /\ \A c \in parsed \cap Classes : Numbered(prog, index, c)
  /\ \A i \in parsed \cap Interfaces : IfaceNumbered(prog, index, i)

\* What is parsed has its table, by the indices as they are now.
TablesOK ==
  /\ vtable \in [Classes -> Seq(Entry(prog))]
  /\ \A c \in parsed \cap Classes : TableShape(prog, vtable[c], index, c)

\* The methods are compiled when all is parsed, and nothing fails.
PhaseOK == phase \in {"classes", "methods"} /\ (phase = "methods" => parsed = Types)

CompileInv == ParsedOK /\ IndexOK /\ TablesOK /\ PhaseOK

\* With a class, its bases are in a set that has the base of each of its classes.
LEMMA BasesIn ==
  ASSUME NEW p \in Programs, NEW S, \A c \in S \cap Classes : p.base[c] \in S \cup {None},
         NEW c \in S, c \in Classes
  PROVE  Anc(p, c) \subseteq S
  <1> DEFINE G == {d \in Classes : d \in S => Anc(p, d) \subseteq S}
  <1>1. ASSUME NEW d \in Classes, p.base[d] = None \/ p.base[d] \in G PROVE d \in G
    <2> SUFFICES ASSUME d \in S PROVE Anc(p, d) \subseteq S
      BY <1>1
    <2>1. CASE p.base[d] = None
      BY <2>1, AncIs
    <2>2. CASE p.base[d] # None
      <3>1. p.base[d] \in G /\ p.base[d] \in S
        BY <1>1, <2>2
      <3>2. Anc(p, p.base[d]) \subseteq S /\ Anc(p, d) = Anc(p, p.base[d]) \cup {d}
        BY <2>2, <3>1, AncIs
      <3>. QED
        BY <3>2
    <2>. QED
      BY <2>1, <2>2
  <1>2. Classes \subseteq G
    <2> HIDE DEF G
    <2>. QED
      BY <1>1, ClassInduction
  <1>. QED
    BY <1>2

\* A table is right for all indices that are the same for the methods of the hierarchy.
LEMMA TableKept ==
  ASSUME NEW p \in Programs, NEW c \in Classes, NEW T, NEW f, NEW g, TableShape(p, T, f, c),
         \A d \in Anc(p, c) : \A n \in NamesOf(p, d) : g[<<d, n>>] = f[<<d, n>>]
  PROVE  TableShape(p, T, g, c)
  BY DEF TableShape

\* What is parsed stays right with indices that are the same for the methods of it.
KeptShape(g) ==
  /\ \A c \in parsed \cap Classes : Numbered(prog, g, c) /\ TableShape(prog, vtable[c], g, c)
  /\ \A i \in parsed \cap Interfaces : IfaceNumbered(prog, g, i)

\* By the bases of what is parsed, which are parsed.
LEMMA ParsedKept ==
  ASSUME ParsedOK, IndexOK, TablesOK, NEW g,
         \A m \in MethodsOf(prog) : m[1] \in parsed => g[m] = index[m]
  PROVE  KeptShape(g)
  <1>1. ASSUME NEW t \in parsed, NEW n \in NamesOf(prog, t) PROVE g[<<t, n>>] = index[<<t, n>>]
    <2>1. t \in Types
      BY DEF ParsedOK
    <2>2. <<t, n>> \in MethodsOf(prog)
      BY <2>1, MethodIs DEF ParsedOK
    <2> DEFINE m == <<t, n>>
    <2>3. m[1] = t
      OBVIOUS
    <2> HIDE DEF m
    <2>4. g[m] = index[m]
      BY <2>2, <2>3 DEF m
    <2>. QED
      BY <2>4 DEF m
  <1>2. ASSUME NEW c \in parsed \cap Classes
        PROVE  Numbered(prog, g, c) /\ TableShape(prog, vtable[c], g, c)
    <2>1. Anc(prog, c) \subseteq parsed
      BY BasesIn DEF ParsedOK
    <2>2. \A d \in Anc(prog, c) : \A n \in NamesOf(prog, d) : g[<<d, n>>] = index[<<d, n>>]
      BY <1>1, <2>1
    <2>3. prog \in Programs /\ Numbered(prog, index, c) /\ TableShape(prog, vtable[c], index, c)
      BY DEF ParsedOK, IndexOK, TablesOK
    <2>. QED
      BY <2>2, <2>3, NumberedKept, TableKept
  <1>3. ASSUME NEW i \in parsed \cap Interfaces PROVE IfaceNumbered(prog, g, i)
    <2>1. \A k \in 1..Len(prog.names[i]) : prog.names[i][k] \in NamesOf(prog, i)
      BY ProgramLists, TypesAre DEF ListShape, ParsedOK
    <2>2. IfaceNumbered(prog, index, i)
      BY DEF IndexOK
    <2>. QED
      BY <1>1, <2>1, <2>2 DEF IfaceNumbered
  <1>. QED
    BY <1>2, <1>3 DEF KeptShape

\* create_virtual_methods_indices arrives at the same indices for what is parsed.
LEMMA IndicesKept ==
  ASSUME ParsedOK, IndexOK, NEW c \in Classes, NEW y, IndicesShape(y, c)
  PROVE  \A m \in MethodsOf(prog) : m[1] \in parsed => y.index[m] = index[m]
  <1> SUFFICES ASSUME NEW m \in MethodsOf(prog), m[1] \in parsed PROVE y.index[m] = index[m]
    OBVIOUS
  <1>1. prog \in Programs /\ \A d \in parsed \cap Classes : prog.base[d] \in parsed \cup {None}
    BY DEF ParsedOK
  <1>2. CASE m[1] \notin Anc(prog, c)
    BY <1>2 DEF IndicesShape
  <1>3. CASE m[1] \in Anc(prog, c)
    <2> DEFINE d == m[1]
               n == m[2]
               f == y.index
    <2>1. m = <<d, n>> /\ n \in NamesOf(prog, d)
      BY <1>1, MethodIs
    <2>2. d \in Classes /\ d \in parsed /\ Anc(prog, d) \subseteq Anc(prog, c)
      BY <1>1, <1>3, AncFacts DEF AncShape
    <2> HIDE DEF d, n
    <2>3. Anc(prog, d) \subseteq parsed /\ Anc(prog, d) \subseteq Classes
      BY <1>1, <2>2, BasesIn, AncFacts DEF AncShape
    <2>4. \A e \in Anc(prog, d) : Numbered(prog, f, e) /\ Numbered(prog, index, e)
      BY <2>2, <2>3 DEF IndicesShape, IndexOK
    <2> HIDE DEF f
    <2>5. \A x \in NamesOf(prog, d) : f[<<d, x>>] = index[<<d, x>>]
      BY ONLY <1>1, <2>2, <2>4, NumbersUnique
    <2>. QED
      BY <2>1, <2>5 DEF f
  <1>. QED
    BY <1>2, <1>3

\* No index of a method of what is parsed changes.
StableStep == \A m \in Methods : m[1] \in parsed => index'[m] = index[m]

\* parse_interface numbers the methods of one interface.
LEMMA InterfaceStep ==
  ASSUME CompileInv, NEW i \in Interfaces, parse_interface(i)
  PROVE  CompileInv' /\ StableStep
  <1> DEFINE pos(n) == CHOOSE k \in DOMAIN prog.names[i] : prog.names[i][k] = n
  <1>1. /\ prog \in Programs /\ parsed \subseteq Types
        /\ (\A c \in parsed \cap Classes : prog.base[c] \in parsed \cup {None})
        /\ index \in [MethodsOf(prog) -> Nat] /\ count = {}
        /\ vtable \in [Classes -> Seq(Entry(prog))]
        /\ phase \in {"classes", "methods"}
    BY DEF CompileInv, ParsedOK, IndexOK, TablesOK, PhaseOK
  <1>2. /\ phase = "classes" /\ i \notin parsed /\ parsed' = parsed \cup {i}
        /\ index' = [m \in MethodsOf(prog) |-> IF m[1] = i THEN pos(m[2]) - 1 ELSE index[m]]
        /\ prog' = prog /\ count' = count /\ vtable' = vtable /\ phase' = phase
    BY DEF parse_interface, Ready, Methods
  <1>3. i \in Types /\ i \notin Classes
    BY ProgramAssumption, TypesAre
  <1> DEFINE s == prog.names[i]
             n == Len(s)
  <1>4. /\ n \in Nat /\ DOMAIN s = 1..n /\ (\A k \in 1..n : s[k] \in NamesOf(prog, i))
        /\ (\A x \in NamesOf(prog, i) : \E k \in 1..n : s[k] = x)
        /\ (\A j, k \in 1..n : s[j] = s[k] => j = k)
    <2>1. ListShape(s, NamesOf(prog, i))
      BY <1>1, <1>3, ProgramLists
    <2>2. NamesOf(prog, i) = ToSet(s)
      BY DEF NamesOf
    <2> HIDE DEF s
    <2>. QED
      BY <2>1, <2>2 DEF ListShape
  <1>5. ASSUME NEW x \in NamesOf(prog, i) PROVE pos(x) \in 1..n /\ s[pos(x)] = x
    BY <1>4
  <1>6. ASSUME NEW k \in 1..n PROVE pos(s[k]) = k
    <2>1. s[k] \in NamesOf(prog, i)
      BY <1>4
    <2>2. pos(s[k]) \in 1..n /\ s[pos(s[k])] = s[k]
      BY <2>1, <1>5
    <2> HIDE DEF pos
    <2>. QED
      BY <2>2, <1>4
  <1> HIDE DEF pos
  <1>7. ASSUME NEW m \in MethodsOf(prog) PROVE index'[m] \in Nat /\ (m[1] # i => index'[m] = index[m])
    <2>1. index'[m] = IF m[1] = i THEN pos(m[2]) - 1 ELSE index[m]
      BY <1>2
    <2>2. m[1] = i => m[2] \in NamesOf(prog, i)
      BY <1>1, MethodIs
    <2>3. m[1] = i => pos(m[2]) \in 1..n
      BY <2>2, <1>5
    <2>. QED
      BY <2>1, <2>3, <1>1, <1>4
  <1>8. index' \in [MethodsOf(prog) -> Nat]
    BY <1>2, <1>7
  <1>9. \A m \in MethodsOf(prog) : m[1] \in parsed => index'[m] = index[m]
    BY <1>2, <1>7
  <1>10. KeptShape(index')
    BY <1>9, ParsedKept DEF CompileInv
  <1>11. IfaceNumbered(prog, index', i)
    <2>1. ASSUME NEW k \in 1..n PROVE index'[<<i, s[k]>>] = k - 1
      <3> DEFINE m == <<i, s[k]>>
      <3>1. m \in MethodsOf(prog)
        BY <1>1, <1>3, <1>4, MethodIs
      <3>2. m[1] = i /\ m[2] = s[k]
        OBVIOUS
      <3> HIDE DEF m
      <3>3. index'[m] = pos(s[k]) - 1
        BY <3>1, <3>2, <1>2
      <3>. QED
        BY <3>3, <1>6 DEF m
    <2>. QED
      BY <2>1 DEF IfaceNumbered
  <1>12. \A c \in parsed' \cap Classes : c \in parsed \cap Classes
    BY <1>2, <1>3
  <1>13. ParsedOK'
    BY <1>1, <1>2, <1>3, <1>12 DEF ParsedOK
  <1>14. IndexOK'
    BY <1>1, <1>2, <1>8, <1>10, <1>11, <1>12 DEF IndexOK, KeptShape
  <1>15. TablesOK'
    BY <1>1, <1>2, <1>10, <1>12 DEF TablesOK, KeptShape
  <1>16. PhaseOK'
    BY <1>1, <1>2 DEF PhaseOK
  <1>. QED
    BY <1>9, <1>13, <1>14, <1>15, <1>16 DEF CompileInv, StableStep, Methods

\* parse_class does not fail, and numbers its class and builds the table of it.
LEMMA ClassStep ==
  ASSUME CompileInv, NEW c \in Classes, parse_class(c)
  PROVE  CompileInv' /\ StableStep
  <1> DEFINE y == create_virtual_methods_indices(c)
             T == create_vtable_entries(c, y.index)
  <1>1. /\ prog \in Programs /\ parsed \subseteq Types
        /\ (\A d \in parsed \cap Classes : prog.base[d] \in parsed \cup {None})
        /\ index \in [MethodsOf(prog) -> Nat] /\ count = {}
        /\ vtable \in [Classes -> Seq(Entry(prog))]
        /\ phase \in {"classes", "methods"}
    BY DEF CompileInv, ParsedOK, IndexOK, TablesOK, PhaseOK
  <1>2. /\ phase = "classes" /\ c \notin parsed /\ prog.base[c] \in parsed \cup {None}
        /\ IF y.ok /\ T # Fail
           THEN /\ parsed' = parsed \cup {c} /\ index' = y.index /\ count' = y.count
                /\ vtable' = [vtable EXCEPT ![c] = T] /\ prog' = prog /\ phase' = phase
           ELSE phase' = "error"
    BY DEF parse_class, Ready
  <1>3. IndicesShape(y, c)
    BY <1>1, IndicesAre
  <1> HIDE DEF y
  <1>4. /\ y \in States(prog) /\ y.ok = TRUE /\ y.count = {}
        /\ \A d \in Anc(prog, c) : Numbered(prog, y.index, d)
    BY <1>3 DEF IndicesShape
  <1>5. y.index \in [MethodsOf(prog) -> Nat]
    BY <1>4 DEF States
  <1>6. TableShape(prog, T, y.index, c)
    <2> DEFINE f == y.index
    <2>1. f \in [MethodsOf(prog) -> Nat] /\ \A d \in Anc(prog, c) : Numbered(prog, f, d)
      BY <1>4, <1>5
    <2> HIDE DEF f
    <2>2. TableShape(prog, create_vtable_entries(c, f), f, c)
      BY <1>1, <2>1, EntriesAre
    <2>. QED
      BY <2>2 DEF f
  <1> HIDE DEF T
  <1>7. T \in Seq(Entry(prog))
    BY <1>6 DEF TableShape
  <1>8. T # Fail
    BY <1>1, <1>7, NotFail
  <1>9. /\ parsed' = parsed \cup {c} /\ index' = y.index /\ count' = {}
        /\ vtable' = [vtable EXCEPT ![c] = T] /\ prog' = prog /\ phase' = phase
    BY <1>2, <1>4, <1>8
  <1>10. \A m \in MethodsOf(prog) : m[1] \in parsed => index'[m] = index[m]
    BY <1>3, <1>9, IndicesKept DEF CompileInv
  <1>11. KeptShape(index')
    BY <1>10, ParsedKept DEF CompileInv
  <1>12. c \in Types /\ c \notin Interfaces /\ c \in Anc(prog, c)
    BY <1>1, ProgramAssumption, TypesAre, AncFacts DEF AncShape
  <1>13. /\ Numbered(prog, index', c) /\ TableShape(prog, vtable'[c], index', c)
         /\ \A d \in Classes : d # c => vtable'[d] = vtable[d]
    BY <1>1, <1>4, <1>6, <1>9, <1>12
  <1>14. /\ \A d \in parsed' \cap Classes : d = c \/ (d # c /\ d \in parsed \cap Classes)
         /\ \A i \in parsed' \cap Interfaces : i \in parsed \cap Interfaces
    BY <1>9, <1>12
  <1>15. ParsedOK'
    BY <1>1, <1>2, <1>9, <1>12 DEF ParsedOK
  <1>16. IndexOK'
    BY <1>5, <1>9, <1>11, <1>13, <1>14 DEF IndexOK, KeptShape
  <1>17. TablesOK'
    BY <1>1, <1>7, <1>9, <1>11, <1>13, <1>14 DEF TablesOK, KeptShape
  <1>18. PhaseOK'
    BY <1>1, <1>2, <1>9 DEF PhaseOK
  <1>. QED
    BY <1>10, <1>15, <1>16, <1>17, <1>18 DEF CompileInv, StableStep, Methods

\* Nothing happens in the compiler.
LEMMA CompileUnchanged ==
  ASSUME CompileInv, UNCHANGED compileVars
  PROVE  CompileInv' /\ StableStep
  BY DEF CompileInv, compileVars, ParsedOK, IndexOK, TablesOK, PhaseOK, StableStep

\* A step of the compiler keeps its invariant and the indices.
LEMMA CompileStep ==
  ASSUME CompileInv, Compile
  PROVE  CompileInv' /\ StableStep
  <1>1. CASE \E i \in Interfaces : parse_interface(i)
    BY <1>1, InterfaceStep
  <1>2. CASE \E c \in Classes : parse_class(c)
    BY <1>2, ClassStep
  <1>3. CASE parse_all_methods
    <2>1. /\ parsed = Types /\ phase' = "methods"
          /\ prog' = prog /\ parsed' = parsed /\ index' = index /\ count' = count /\ vtable' = vtable
      BY <1>3 DEF parse_all_methods
    <2>2. PhaseOK'
      BY <2>1 DEF PhaseOK
    <2>. QED
      BY <2>1, <2>2 DEF CompileInv, ParsedOK, IndexOK, TablesOK, StableStep
  <1>. QED
    BY <1>1, <1>2, <1>3 DEF Compile

\* Nothing is parsed at the start.
LEMMA CompileInit ==
  ASSUME InitCompile
  PROVE  CompileInv
  <1>1. index \in [MethodsOf(prog) -> Nat]
    BY DEF InitCompile, Methods
  <1>2. vtable \in [Classes -> Seq(Entry(prog))]
    BY DEF InitCompile
  <1>. QED
    BY <1>1, <1>2 DEF InitCompile, CompileInv, ParsedOK, IndexOK, TablesOK, PhaseOK

\* Every step keeps the invariant of the compiler and the indices.
LEMMA CompileNext ==
  ASSUME CompileInv, [Next]_vars
  PROVE  CompileInv' /\ StableStep
  <1>1. CASE Compile /\ UNCHANGED runVars
    BY <1>1, CompileStep
  <1>2. CASE \E c \in Classes : newobj(c)
    BY <1>2, CompileUnchanged DEF newobj
  <1>3. CASE UNCHANGED vars
    BY <1>3, CompileUnchanged DEF vars
  <1>. QED
    BY <1>1, <1>2, <1>3 DEF Next

\* The invariant of the compiler is inductive.
THEOREM CompileInvariance == Spec => []CompileInv
  <1>1. Init => CompileInv
    BY CompileInit DEF Init
  <1>2. CompileInv /\ [Next]_vars => CompileInv'
    BY CompileNext
  <1>. QED
    BY <1>1, <1>2, PTL DEF Spec

\* No program of plain classes reaches an internal error of add_vtable_slot, change_vtable_slot or
\* create_virtual_methods_indices_for_interfaces.
THEOREM NoErrorReached == Spec => []NoInternalError
  <1>1. CompileInv => NoInternalError
    BY DEF CompileInv, PhaseOK, NoInternalError
  <1>. QED
    BY <1>1, CompileInvariance, PTL

\* Parsing another class leaves the indices of what is parsed as they are.
THEOREM IndicesAreStable == Spec => IndicesStable
  <1>1. CompileInv /\ [Next]_vars => [\A m \in Methods : m[1] \in parsed => index'[m] = index[m]]_compileVars
    BY CompileNext DEF StableStep
  <1>. QED
    BY <1>1, CompileInvariance, PTL DEF Spec, IndicesStable

\* A virtual call finds the override nearest to the class of the object.
THEOREM VirtualCallsAreRight == Spec => []VirtualCallRight
  <1>1. CompileInv => VirtualCallRight
    <2> SUFFICES ASSUME CompileInv, phase = "methods", NEW c \in Classes, NEW m \in Methods,
                        m[1] \in ToSet(Lineage(c))
                 PROVE  VirtualTarget(c, m) = <<LastIn(Lineage(c), Declaring(m[2])), m[2]>>
      BY DEF VirtualCallRight
    <2> DEFINE d == m[1]
               n == m[2]
               i == index[m] + 1
    <2>1. prog \in Programs /\ parsed = Types
      BY DEF CompileInv, ParsedOK, PhaseOK
    <2>2. d \in Anc(prog, c) /\ m = <<d, n>> /\ n \in NamesOf(prog, d)
      BY <2>1, MethodIs DEF Lineage, Anc, Methods
    <2>3. TableShape(prog, vtable[c], index, c)
      BY <2>1, TypesAre DEF CompileInv, TablesOK
    <2>4. i \in 1..Len(vtable[c]) /\ vtable[c][i].method = <<Nearest(prog, c, n), n>> /\ vtable[c] \in Seq(Entry(prog))
      BY <2>2, <2>3 DEF TableShape
    <2>5. DeclaringIn(prog, n) = Declaring(n)
      BY <2>1, MethodIs, TypesAre DEF DeclaringIn, Declaring, Methods
    <2>6. Nearest(prog, c, n) = LastIn(Lineage(c), Declaring(n))
      BY <2>5 DEF Nearest, Lineage
    <2>7. i \in DOMAIN vtable[c]
      BY <2>4
    <2>. QED
      BY <2>4, <2>6, <2>7 DEF VirtualTarget
  <1>. QED
    BY <1>1, CompileInvariance, PTL

-----------------------------------------------------------------------------
(* The invariant of the run-time system                                      *)

\* What init_class works on.  The offsets of a class that has none are not numbers.
Value == Int \cup {(<<>>)[n] : n \in 0..MaxId}
RunStates == [inited : SUBSET Types, iid : [Interfaces -> Nat], nextId : Nat,
              offsets : [Classes -> [0..MaxId -> Value] \cup {<<>>}]]

\* The interfaces that are initialised have different ids, below the next one.
IdsOK(st) ==
  /\ st.nextId = Cardinality(st.inited \cap Interfaces)
  /\ \A i \in Interfaces : i \in st.inited => st.iid[i] < st.nextId
  /\ \A i \in Interfaces : i \notin st.inited => st.iid[i] = 0
  /\ \A i, j \in Interfaces : i \in st.inited /\ j \in st.inited /\ st.iid[i] = st.iid[j] => i = j

\* With a class, its base and the interfaces it lists are initialised.
ClosedOK(st) ==
  \A c \in Classes : c \in st.inited =>
    /\ prog.base[c] \in st.inited \cup {None}
    /\ \A a \in 1..Len(prog.lists[c]) : prog.lists[c][a] \in st.inited

\* OFF has the places that the slots of the interfaces have in the table of D.
PlacedShape(off, id, d, T) ==
  \A a \in 1..Len(prog.lists[d]) :
    prog.lists[d][a] \notin T => off[id[prog.lists[d][a]]] = Low(prog, d) + Off(prog, d)[a - 1]

\* A class that is initialised has the offsets of its interfaces and those of its base.
ClassOffsets(st, c) ==
  /\ st.offsets[c] \in [0..MaxId -> Int]
  /\ PlacedShape(st.offsets[c], st.iid, c, {})
  /\ prog.base[c] # None => PlacedShape(st.offsets[c], st.iid, prog.base[c], ToSet(prog.lists[c]))

OffsetsOK(st) ==
  \A c \in Classes : IF c \in st.inited THEN ClassOffsets(st, c) ELSE st.offsets[c] = <<>>

RunOK(st) == st \in RunStates /\ IdsOK(st) /\ ClosedOK(st) /\ OffsetsOK(st)

\* The ids fit into the array of offsets.
LEMMA IdsFit ==
  ASSUME NEW st \in RunStates, IdsOK(st)
  PROVE  /\ st.nextId \in 0..(MaxId + 1)
         /\ \A i \in Interfaces : st.iid[i] \in 0..MaxId
  <1> DEFINE S == st.inited \cap Interfaces
  <1>1. IsFiniteSet(Interfaces) /\ MaxId \in Nat /\ Cardinality(Interfaces) <= MaxId + 1
    BY IdAssumption
  <1>2. Cardinality(S) \in Nat /\ Cardinality(S) <= Cardinality(Interfaces) /\ Cardinality(Interfaces) \in Nat
    <2>1. S \subseteq Interfaces
      OBVIOUS
    <2> HIDE DEF S
    <2>. QED
      BY <1>1, <2>1, FS_Subset, FS_CardinalityType
  <1>3. st.nextId = Cardinality(S)
    BY DEF IdsOK
  <1> HIDE DEF S
  <1>4. st.nextId \in Nat /\ st.nextId <= MaxId + 1
    BY <1>1, <1>2, <1>3
  <1>5. ASSUME NEW i \in Interfaces PROVE st.iid[i] \in 0..MaxId
    <2>1. st.iid[i] \in Nat
      BY DEF RunStates
    <2>2. st.iid[i] < st.nextId \/ st.iid[i] = 0
      BY DEF IdsOK
    <2>. QED
      BY <2>1, <2>2, <1>1, <1>4
  <1>. QED
    BY <1>1, <1>4, <1>5

\* One interface is initialised.
OneShape(st, z, i) ==
  /\ RunOK(z) /\ i \in z.inited /\ z.offsets = st.offsets
  /\ \A t : t \in z.inited <=> t \in st.inited \/ t = i

\* init_interface, whatever it starts with.
LEMMA InterfaceType ==
  ASSUME NEW st \in RunStates, NEW i \in Interfaces
  PROVE  init_interface(st, i) \in RunStates
  <1>1. i \in Types
    BY TypesAre
  <1>2. st.inited \cup {i} \in SUBSET Types /\ [st.iid EXCEPT ![i] = st.nextId] \in [Interfaces -> Nat]
        /\ st.nextId + 1 \in Nat
    BY <1>1 DEF RunStates
  <1>3. init_interface(st, i) = IF i \in st.inited THEN st
          ELSE [st EXCEPT !.iid = [st.iid EXCEPT ![i] = st.nextId], !.nextId = st.nextId + 1,
                          !.inited = st.inited \cup {i}]
    BY DEF init_interface, RunStates
  <1>. QED
    BY <1>2, <1>3 DEF RunStates

\* The new id is not one of those that are given.
LEMMA InterfaceInit ==
  ASSUME prog \in Programs, NEW st, RunOK(st), NEW i \in Interfaces
  PROVE  OneShape(st, init_interface(st, i), i)
  <1> DEFINE z == init_interface(st, i)
  <1>1. st \in RunStates /\ z \in RunStates
    BY InterfaceType DEF RunOK
  <1>2. CASE i \in st.inited
    <2>1. z = st
      BY <1>2 DEF init_interface
    <2>. QED
      BY <1>2, <2>1 DEF OneShape
  <1>3. CASE i \notin st.inited
    <2>1. z = [st EXCEPT !.iid = [st.iid EXCEPT ![i] = st.nextId], !.nextId = st.nextId + 1,
                         !.inited = st.inited \cup {i}]
      BY <1>1, <1>3 DEF init_interface, RunStates
    <2>2. /\ z.iid = [st.iid EXCEPT ![i] = st.nextId] /\ z.nextId = st.nextId + 1
          /\ z.inited = st.inited \cup {i} /\ z.offsets = st.offsets
      BY <1>1, <2>1 DEF RunStates
    <2> HIDE DEF z
    <2>3. z.iid[i] = st.nextId /\ \A j \in Interfaces : j # i => z.iid[j] = st.iid[j]
      BY <1>1, <2>2 DEF RunStates
    <2>4. z.nextId = Cardinality(z.inited \cap Interfaces)
      <3> DEFINE S == st.inited \cap Interfaces
      <3>1. S \subseteq Interfaces /\ i \notin S /\ z.inited \cap Interfaces = S \cup {i}
        BY <1>3, <2>2
      <3>2. st.nextId = Cardinality(S)
        BY DEF RunOK, IdsOK
      <3> HIDE DEF S
      <3>3. IsFiniteSet(S)
        BY <3>1, FS_Subset, IdAssumption
      <3>4. Cardinality(S \cup {i}) = Cardinality(S) + 1
        BY <3>1, <3>3, FS_AddElement
      <3>. QED
        BY <3>1, <3>2, <3>4, <2>2
    <2>5. IdsOK(z)
      <3>1. /\ (\A j \in Interfaces : j \in st.inited => st.iid[j] < st.nextId)
            /\ (\A j \in Interfaces : j \notin st.inited => st.iid[j] = 0)
            /\ \A j, k \in Interfaces : j \in st.inited /\ k \in st.inited /\ st.iid[j] = st.iid[k] => j = k
        BY DEF RunOK, IdsOK
      <3>2. st.nextId \in Nat /\ \A j \in Interfaces : st.iid[j] \in Nat
        BY <1>1 DEF RunStates
      <3>3. ASSUME NEW j \in Interfaces, j \in z.inited PROVE z.iid[j] < z.nextId
        <4>1. CASE j = i
          BY <4>1, <2>2, <2>3, <3>2
        <4>2. CASE j # i
          <5>1. j \in st.inited /\ z.iid[j] = st.iid[j]
            BY <4>2, <3>3, <2>2, <2>3
          <5>. QED
            BY <5>1, <3>1, <3>2, <2>2
        <4>. QED
          BY <4>1, <4>2
      <3>4. ASSUME NEW j \in Interfaces, j \notin z.inited PROVE z.iid[j] = 0
        BY <3>4, <3>1, <2>2, <2>3
      <3>5. ASSUME NEW j \in Interfaces, j \in z.inited, j # i PROVE j \in st.inited /\ z.iid[j] = st.iid[j] /\ z.iid[j] # z.iid[i]
        <4>1. j \in st.inited /\ z.iid[j] = st.iid[j]
          BY <3>5, <2>2, <2>3
        <4>2. st.iid[j] < st.nextId
          BY <4>1, <3>1
        <4>. QED
          BY <4>1, <4>2, <2>3, <3>2
      <3>6. ASSUME NEW j \in Interfaces, NEW k \in Interfaces, j \in z.inited, k \in z.inited, z.iid[j] = z.iid[k]
            PROVE  j = k
        BY <3>1, <3>5, <3>6
      <3>. QED
        BY <2>4, <3>3, <3>4, <3>6 DEF IdsOK
    <2>6. i \notin Classes
      BY ProgramAssumption
    <2>7. ClosedOK(z)
      BY <2>2, <2>6 DEF RunOK, ClosedOK
    <2>8. ASSUME NEW d \in Classes, d \in st.inited, NEW a \in 1..Len(prog.lists[d])
          PROVE  z.iid[prog.lists[d][a]] = st.iid[prog.lists[d][a]]
      <3>1. prog.lists[d][a] \in st.inited
        BY <2>8 DEF RunOK, ClosedOK
      <3>2. prog.lists[d][a] \in Interfaces
        BY ProgramLists, TypesAre DEF ListShape
      <3>. QED
        BY <3>1, <3>2, <1>3, <2>3
    <2>9. ASSUME NEW c \in Classes, c \in st.inited PROVE ClassOffsets(z, c)
      <3>1. ClassOffsets(st, c)
        BY <2>9 DEF RunOK, OffsetsOK
      <3>2. PlacedShape(z.offsets[c], z.iid, c, {})
        BY <3>1, <2>2, <2>8, <2>9 DEF ClassOffsets, PlacedShape
      <3>3. ASSUME prog.base[c] # None PROVE PlacedShape(z.offsets[c], z.iid, prog.base[c], ToSet(prog.lists[c]))
        <4>1. prog.base[c] \in st.inited /\ prog.base[c] \in Classes
          BY <2>9, <3>3, AncIs DEF RunOK, ClosedOK
        <4>. QED
          BY <4>1, <3>1, <3>3, <2>2, <2>8 DEF ClassOffsets, PlacedShape
      <3>. QED
        BY <3>1, <3>2, <3>3, <2>2 DEF ClassOffsets
    <2>10. OffsetsOK(z)
      BY <2>2, <2>6, <2>9 DEF RunOK, OffsetsOK
    <2>11. OneShape(st, z, i)
      BY <1>1, <2>2, <2>5, <2>7, <2>10 DEF OneShape, RunOK, z
    <2>. QED
      BY <2>11 DEF z
  <1>. QED
    BY <1>2, <1>3

\* The interfaces that C lists are initialised.
ListedShape(st, z, c, k) ==
  /\ RunOK(z) /\ z.offsets = st.offsets
  /\ \A t : t \in z.inited <=> t \in st.inited \/ \E a \in 1..k : t = prog.lists[c][a]

\* init_interface for each of them.
LEMMA ListedInit ==
  ASSUME prog \in Programs, NEW st, RunOK(st), NEW c \in Classes
  PROVE  ListedShape(st, FoldLeft(init_interface, st, prog.lists[c]), c, Len(prog.lists[c]))
  <1> DEFINE s == prog.lists[c]
             n == Len(s)
             X == RunStates
  <1>1. n \in Nat /\ DOMAIN s = 1..n /\ \A k \in 1..n : s[k] \in Interfaces
    BY ProgramLists, TypesAre DEF ListShape
  <1>2. st \in X
    BY DEF RunOK
  <1> HIDE DEF s, n
  <1>3. \A x \in X : \A k \in 1..n : init_interface(x, s[k]) \in X
    BY <1>1, InterfaceType
  <1> HIDE DEF X
  <1>4. FoldInterfacesShape(X, n, st, s)
    BY ONLY <1>1, <1>2, <1>3, FoldInterfaces
  <1>5. PICK a \in [0..n -> X] :
          /\ a[0] = st /\ FoldLeft(init_interface, st, s) = a[n]
          /\ \A k \in 1..n : a[k] = init_interface(a[k - 1], s[k])
    BY ONLY <1>4 DEF FoldInterfacesShape
  <1> DEFINE S == {k \in 0..n : ListedShape(st, a[k], c, k)}
  <1>6. 0 \in S
    <2>1. \A b \in 1..0 : FALSE
      OBVIOUS
    <2>2. ListedShape(st, st, c, 0)
      BY <2>1 DEF ListedShape
    <2>3. 0 \in 0..n
      BY <1>1
    <2>. QED
      BY <1>5, <2>2, <2>3
  <1>7. ASSUME NEW k \in 1..n, k - 1 \in S PROVE k \in S
    <2> DEFINE y == a[k - 1]
               z == init_interface(y, s[k])
    <2>1. ListedShape(st, y, c, k - 1) /\ k \in 0..n
      BY <1>7, <1>1
    <2>2. a[k] = z
      BY <1>5
    <2> HIDE DEF y
    <2>3. OneShape(y, z, s[k])
      BY <2>1, <1>1, InterfaceInit DEF ListedShape
    <2> HIDE DEF z
    <2>4. \A b \in 1..k : b = k \/ b \in 1..(k - 1)
      BY <1>1
    <2>5. k \in 1..k /\ \A b \in 1..(k - 1) : b \in 1..k
      BY <1>1
    <2>6. ASSUME NEW t PROVE t \in z.inited <=> t \in st.inited \/ \E b \in 1..k : t = s[b]
      <3>1. t \in z.inited <=> t \in y.inited \/ t = s[k]
        BY <2>3 DEF OneShape
      <3>2. t \in y.inited <=> t \in st.inited \/ \E b \in 1..(k - 1) : t = s[b]
        BY <2>1 DEF ListedShape, s
      <3>. QED
        BY <3>1, <3>2, <2>4, <2>5
    <2>7. ListedShape(st, z, c, k)
      BY <2>1, <2>3, <2>6 DEF ListedShape, OneShape, s
    <2>. QED
      BY <2>1, <2>2, <2>7
  <1>8. n \in S
    <2> HIDE DEF S
    <2>1. \A k \in 0..n : k \in S
      BY ONLY <1>1, <1>6, <1>7, UpTo
    <2>2. n \in 0..n
      BY <1>1
    <2>. QED
      BY <2>1, <2>2
  <1>9. ListedShape(st, a[n], c, n)
    BY <1>8
  <1>10. ListedShape(st, FoldLeft(init_interface, st, s), c, n)
    BY <1>5, <1>9
  <1>. QED
    BY <1>10 DEF s, n

\* The slots of the interfaces before the Ath.
LEMMA SlotsBeforeIs ==
  ASSUME prog \in Programs, NEW c \in Classes, NEW a \in 1..Len(prog.lists[c])
  PROVE  SlotsBefore(prog.lists[c], a) = Off(prog, c)[a - 1]
  <1> DEFINE s == prog.lists[c]
             L == Len(s)
             m == a - 1
             u == SubSeq(s, 1, m)
             o == Off(prog, c)
  <1>1. L \in Nat /\ s \in Seq(Interfaces) /\ \A k \in 1..L : s[k] \in Interfaces
    BY ProgramLists, TypesAre DEF ListShape
  <1>2. /\ o[0] = 0 /\ o \in [0..L -> Nat]
        /\ \A k \in 1..L : o[k] = o[k - 1] + Len(prog.names[s[k]])
    BY OffIs DEF OffShape
  <1>3. \A i \in Interfaces : Len(prog.names[i]) \in Nat
    BY ProgramLists, TypesAre DEF ListShape
  <1>4. m \in Nat /\ m <= L /\ m \in 0..m /\ \A k \in 1..m : k \in 1..L
    BY <1>1
  <1>5. SlotsBefore(s, a) = FoldLeft(LAMBDA x, e : x + Len(prog.names[e]), 0, u)
    BY DEF SlotsBefore
  <1> HIDE DEF s, L, m, o
  <1>6. DOMAIN u = 1..m /\ \A k \in 1..m : u[k] = s[k]
    <2>1. m \in Int /\ 1 \in Int /\ m >= 0 /\ \A k \in 1..m : s[k] \in Interfaces
      BY <1>1, <1>4
    <2>2. /\ SubSeq(s, 1, m) \in Seq(Interfaces)
          /\ Len(SubSeq(s, 1, m)) = (IF 1 <= m THEN m - 1 + 1 ELSE 0)
          /\ \A i \in 1..(m - 1 + 1) : SubSeq(s, 1, m)[i] = s[1 + i - 1]
      BY ONLY <2>1, SubSeqProperties
    <2>3. m - 1 + 1 = m /\ \A i \in 1..m : 1 + i - 1 = i
      BY <2>1
    <2> HIDE DEF u
    <2>4. u \in Seq(Interfaces) /\ Len(u) = m /\ \A i \in 1..m : u[i] = s[1 + i - 1]
      BY <2>1, <2>2, <2>3 DEF u
    <2>. QED
      BY <2>3, <2>4
  <1> HIDE DEF u
  <1>7. \A x \in Nat : \A k \in 1..m : x + Len(prog.names[u[k]]) \in Nat
    BY <1>1, <1>3, <1>4, <1>6
  <1>8. FoldSlotsShape(Nat, m, 0, u)
    BY ONLY <1>4, <1>6, <1>7, 0 \in Nat, FoldSlots
  <1>9. PICK f \in [0..m -> Nat] :
          /\ f[0] = 0 /\ FoldLeft(LAMBDA x, e : x + Len(prog.names[e]), 0, u) = f[m]
          /\ \A k \in 1..m : f[k] = f[k - 1] + Len(prog.names[u[k]])
    BY ONLY <1>8 DEF FoldSlotsShape
  <1> DEFINE S == {k \in 0..m : f[k] = o[k]}
  <1>10. 0 \in S
    <2>1. 0 \in 0..m
      BY <1>4
    <2>2. f[0] = o[0]
      BY <1>2, <1>9
    <2>. QED
      BY <2>1, <2>2
  <1>11. ASSUME NEW k \in 1..m, k - 1 \in S PROVE k \in S
    <2>1. f[k] = f[k - 1] + Len(prog.names[s[k]])
      BY <1>6, <1>9
    <2>2. o[k] = o[k - 1] + Len(prog.names[s[k]])
      BY <1>2, <1>4
    <2>3. f[k - 1] = o[k - 1] /\ k \in 0..m
      BY <1>11, <1>4
    <2>. QED
      BY <2>1, <2>2, <2>3
  <1>12. m \in S
    <2> HIDE DEF S
    <2>1. \A k \in 0..m : k \in S
      BY ONLY <1>4, <1>10, <1>11, UpTo
    <2>. QED
      BY <2>1, <1>4
  <1>13. f[m] = o[m]
    BY <1>12
  <1>14. SlotsBefore(s, a) = o[m]
    BY <1>5, <1>9, <1>13
  <1>. QED
    BY <1>14 DEF s, m, o

\* The offset of an interface is the place of its slots in the table.
LEMMA OwnOffsetIs ==
  ASSUME CompileInv, phase = "methods", NEW c \in Classes, NEW a \in 1..Len(prog.lists[c])
  PROVE  /\ OwnOffset(c, prog.lists[c][a]) = Low(prog, c) + Off(prog, c)[a - 1]
         /\ OwnOffset(c, prog.lists[c][a]) \in Nat
  <1> DEFINE s == prog.lists[c]
             L == Len(s)
             k == CHOOSE j \in DOMAIN s : s[j] = s[a]
  <1>1. prog \in Programs /\ parsed = Types
    BY DEF CompileInv, ParsedOK, PhaseOK
  <1>2. L \in Nat /\ DOMAIN s = 1..L /\ \A i, j \in 1..L : s[i] = s[j] => i = j
    BY <1>1, ProgramLists, TypesAre DEF ListShape
  <1>3. k = a
    <2>1. k \in DOMAIN s /\ s[k] = s[a]
      BY <1>2
    <2>. QED
      BY <2>1, <1>2
  <1>4. OwnOffset(c, s[a]) = FirstSlot(c) + SlotsBefore(s, k)
    BY DEF OwnOffset, Implemented
  <1>5. FirstSlot(c) = Low(prog, c)
    <2>1. CASE prog.base[c] = None
      BY <2>1 DEF FirstSlot, Low
    <2>2. CASE prog.base[c] # None
      <3>1. prog.base[c] \in Classes
        BY <1>1, <2>2, AncIs
      <3>2. TableShape(prog, vtable[prog.base[c]], index, prog.base[c])
        BY <1>1, <3>1, TypesAre DEF CompileInv, TablesOK
      <3>. QED
        BY <2>2, <3>2 DEF TableShape, FirstSlot, Low
    <2>. QED
      BY <2>1, <2>2
  <1>6. SlotsBefore(s, a) = Off(prog, c)[a - 1]
    BY <1>1, SlotsBeforeIs
  <1>7. Low(prog, c) \in Nat /\ Off(prog, c)[a - 1] \in Nat
    <2>1. Off(prog, c) \in [0..L -> Nat] /\ Low(prog, c) \in Nat
      BY <1>1, OffIs, SizeIs DEF OffShape, SizeShape
    <2>2. a - 1 \in 0..L
      BY <1>2
    <2>. QED
      BY <2>1, <2>2
  <1> HIDE DEF s, k
  <1>. QED
    BY <1>3, <1>4, <1>5, <1>6, <1>7 DEF s

\* The offsets that setup_interface_offsets makes of the ids in Z.
Offsets(z, c) ==
  [n \in 0..MaxId |->
     IF \E i \in ToSet(Implemented(c)) : z.iid[i] = n
     THEN OwnOffset(c, CHOOSE i \in ToSet(Implemented(c)) : z.iid[i] = n)
     ELSE ParentOffset(z, c, n)]

\* Every offset is a value, whatever the base of the class has.
LEMMA OffsetsType ==
  ASSUME CompileInv, phase = "methods", NEW c \in Classes, NEW z \in RunStates
  PROVE  Offsets(z, c) \in [0..MaxId -> Value]
  <1>1. prog \in Programs
    BY DEF CompileInv, ParsedOK
  <1> SUFFICES ASSUME NEW n \in 0..MaxId
               PROVE  (IF \E i \in ToSet(Implemented(c)) : z.iid[i] = n
                       THEN OwnOffset(c, CHOOSE i \in ToSet(Implemented(c)) : z.iid[i] = n)
                       ELSE ParentOffset(z, c, n)) \in Value
    BY DEF Offsets
  <1>2. ASSUME NEW i \in ToSet(Implemented(c)) PROVE OwnOffset(c, i) \in Nat
    <2> DEFINE list == prog.lists[c]
    <2>1. c \in Types /\ Implemented(c) = list
      BY TypesAre DEF Implemented
    <2>2. ListShape(list, Interfaces)
      BY <1>1, <2>1, ProgramLists
    <2> HIDE DEF list
    <2>3. PICK a \in 1..Len(list) : i = list[a]
      BY <1>2, <2>1, <2>2 DEF ListShape
    <2>. QED
      BY <2>3, OwnOffsetIs DEF list
  <1>3. ParentOffset(z, c, n) \in Value
    <2> DEFINE b == prog.base[c]
    <2>1. CASE b # None
      <3>1. b \in Classes
        BY <1>1, <2>1, AncIs
      <3>2. z.offsets[b] \in [0..MaxId -> Value] \cup {<<>>}
        BY <3>1 DEF RunStates
      <3>3. z.offsets[b][n] \in Value
        <4>1. CASE z.offsets[b] \in [0..MaxId -> Value]
          BY <4>1
        <4>2. CASE z.offsets[b] = <<>>
          BY <4>2 DEF Value
        <4>. QED
          BY <3>2, <4>1, <4>2
      <3>4. -1 \in Value
        BY DEF Value
      <3>. QED
        BY <3>3, <3>4 DEF ParentOffset
    <2>2. CASE b = None
      BY <2>2 DEF ParentOffset, Value
    <2>. QED
      BY <2>1, <2>2
  <1>4. CASE \E i \in ToSet(Implemented(c)) : z.iid[i] = n
    <2>1. OwnOffset(c, CHOOSE i \in ToSet(Implemented(c)) : z.iid[i] = n) \in Nat
      BY <1>2, <1>4
    <2>. QED
      BY <1>4, <2>1 DEF Value
  <1>. QED
    BY <1>3, <1>4

\* InitOne, in two steps: the interfaces, and then the class.
LEMMA InitOneIs ==
  ASSUME NEW st, NEW c \in Classes, c \notin st.inited, NEW z, z = FoldLeft(init_interface, st, prog.lists[c]),
         z \in RunStates
  PROVE  InitOne(st, c) = [inited |-> z.inited \cup {c}, iid |-> z.iid, nextId |-> z.nextId,
                           offsets |-> [z.offsets EXCEPT ![c] = Offsets(z, c)]]
  <1>1. setup_interface_offsets(st, c) = [z EXCEPT !.offsets[c] = Offsets(z, c)]
    BY DEF setup_interface_offsets, Offsets, Implemented
  <1>2. InitOne(st, c) = [setup_interface_offsets(st, c) EXCEPT !.inited = @ \cup {c}]
    BY DEF InitOne
  <1> DEFINE o == Offsets(z, c)
  <1> HIDE DEF o
  <1>3. InitOne(st, c) = [[z EXCEPT !.offsets[c] = o] EXCEPT !.inited = @ \cup {c}]
    BY <1>1, <1>2 DEF o
  <1> DEFINE A == z.inited
             B == z.iid
             C == z.nextId
             D == z.offsets
  <1>4. z = [inited |-> A, iid |-> B, nextId |-> C, offsets |-> D]
    BY DEF RunStates
  <1> HIDE DEF A, B, C, D
  <1>5. InitOne(st, c) = [inited |-> A \cup {c}, iid |-> B, nextId |-> C, offsets |-> [D EXCEPT ![c] = o]]
    BY ONLY <1>3, <1>4
  <1>. QED
    BY <1>5 DEF o, A, B, C, D

\* The four fields after InitOne.
OneClass(z, y, c) ==
  /\ y \in RunStates
  /\ y.inited = z.inited \cup {c} /\ y.iid = z.iid /\ y.nextId = z.nextId
  /\ y.offsets[c] = Offsets(z, c) /\ \A d \in Classes : d # c => y.offsets[d] = z.offsets[d]

\* The offsets of the other classes stay.
LEMMA OneClassIs ==
  ASSUME CompileInv, phase = "methods", NEW c \in Classes, NEW z \in RunStates, NEW y,
         y = [inited |-> z.inited \cup {c}, iid |-> z.iid, nextId |-> z.nextId,
              offsets |-> [z.offsets EXCEPT ![c] = Offsets(z, c)]]
  PROVE  OneClass(z, y, c)
  <1> DEFINE o == Offsets(z, c)
  <1>1. o \in [0..MaxId -> Value] /\ c \in Types
    BY OffsetsType, TypesAre
  <1> DEFINE q == [z.offsets EXCEPT ![c] = o]
             r == z.inited \cup {c}
             B == z.iid
             C == z.nextId
  <1>2. y = [inited |-> r, iid |-> B, nextId |-> C, offsets |-> q]
    OBVIOUS
  <1> HIDE DEF o
  <1>3. /\ z.offsets \in [Classes -> [0..MaxId -> Value] \cup {<<>>}]
        /\ z.inited \in SUBSET Types /\ B \in [Interfaces -> Nat] /\ C \in Nat
    BY DEF RunStates
  <1>4. q \in [Classes -> [0..MaxId -> Value] \cup {<<>>}] /\ q[c] = o /\ \A d \in Classes : d # c => q[d] = z.offsets[d]
    BY <1>1, <1>3
  <1>5. r \in SUBSET Types
    BY <1>1, <1>3
  <1> HIDE DEF q, r, B, C
  <1>6. y \in RunStates
    BY ONLY <1>2, <1>3, <1>4, <1>5 DEF RunStates
  <1>7. y.inited = r /\ y.iid = B /\ y.nextId = C /\ y.offsets = q
    BY ONLY <1>2
  <1>. QED
    BY <1>4, <1>6, <1>7 DEF OneClass, o, r, B, C

\* The offsets of C, from the ids in Z: those of its own interfaces and of its base's.
LEMMA OffsetsAre ==
  ASSUME CompileInv, phase = "methods", NEW c \in Classes, NEW z, RunOK(z),
         \A a \in 1..Len(prog.lists[c]) : prog.lists[c][a] \in z.inited,
         prog.base[c] \in z.inited \cup {None}
  PROVE  /\ Offsets(z, c) \in [0..MaxId -> Int]
         /\ PlacedShape(Offsets(z, c), z.iid, c, {})
         /\ prog.base[c] # None => PlacedShape(Offsets(z, c), z.iid, prog.base[c], ToSet(prog.lists[c]))
  <1> DEFINE s == prog.lists[c]
             L == Len(s)
             I == ToSet(s)
             b == prog.base[c]
             at(n) == CHOOSE i \in I : z.iid[i] = n
             o == Offsets(z, c)
  <1>1. prog \in Programs /\ z \in RunStates
    BY DEF CompileInv, ParsedOK, RunOK
  <1>2. /\ L \in Nat /\ (\A k \in 1..L : s[k] \in Interfaces /\ s[k] \in I)
        /\ \A i \in I : i \in Interfaces /\ \E k \in 1..L : s[k] = i
    BY <1>1, ProgramLists, TypesAre DEF ListShape
  <1>3. ASSUME NEW n \in 0..MaxId
        PROVE  /\ (\E i \in I : z.iid[i] = n) => o[n] = OwnOffset(c, at(n))
               /\ ~(\E i \in I : z.iid[i] = n) => o[n] = ParentOffset(z, c, n)
    BY DEF Offsets, Implemented
  <1>4. \A i \in Interfaces : z.iid[i] \in 0..MaxId
    BY <1>1, IdsFit DEF RunOK
  <1>5. \A i, j \in Interfaces : i \in z.inited /\ j \in z.inited /\ z.iid[i] = z.iid[j] => i = j
    BY DEF RunOK, IdsOK
  <1>6. \A i \in I : i \in z.inited
    BY <1>2
  <1>7. \A n : (\E i \in I : z.iid[i] = n) => at(n) \in I /\ z.iid[at(n)] = n
    OBVIOUS
  <1>8. \A k \in 1..L : OwnOffset(c, s[k]) = Low(prog, c) + Off(prog, c)[k - 1] /\ OwnOffset(c, s[k]) \in Nat
    BY OwnOffsetIs
  <1>9. o \in [0..MaxId -> Value]
    BY <1>1, OffsetsType
  <1> HIDE DEF s, L, I, at, o
  <1>10. ASSUME NEW k \in 1..L PROVE o[z.iid[s[k]]] = Low(prog, c) + Off(prog, c)[k - 1]
    <2> DEFINE n == z.iid[s[k]]
    <2>1. n \in 0..MaxId /\ s[k] \in I /\ s[k] \in Interfaces
      BY <1>2, <1>4
    <2>2. o[n] = OwnOffset(c, at(n)) /\ at(n) \in I /\ z.iid[at(n)] = n
      BY <2>1, <1>3, <1>7
    <2>3. at(n) = s[k]
      BY <2>1, <2>2, <1>2, <1>5, <1>6
    <2>. QED
      BY <2>2, <2>3, <1>8
  <1>11. ASSUME b # None
         PROVE  /\ b \in Classes /\ z.offsets[b] \in [0..MaxId -> Int]
                /\ PlacedShape(z.offsets[b], z.iid, b, {})
                /\ \A a \in 1..Len(prog.lists[b]) : prog.lists[b][a] \in z.inited /\ prog.lists[b][a] \in Interfaces
    <2>1. b \in Classes /\ b \in z.inited
      BY <1>1, <1>11, AncIs
    <2>2. ClassOffsets(z, b)
      BY <2>1 DEF RunOK, OffsetsOK
    <2>3. \A a \in 1..Len(prog.lists[b]) : prog.lists[b][a] \in z.inited
      BY <2>1 DEF RunOK, ClosedOK
    <2>4. \A a \in 1..Len(prog.lists[b]) : prog.lists[b][a] \in Interfaces
      BY <1>1, <2>1, ProgramLists, TypesAre DEF ListShape
    <2>. QED
      BY <2>1, <2>2, <2>3, <2>4 DEF ClassOffsets
  <1>12. ASSUME NEW n \in 0..MaxId PROVE o[n] \in Int
    <2>1. CASE \E i \in I : z.iid[i] = n
      <3>1. at(n) \in I /\ o[n] = OwnOffset(c, at(n))
        BY <2>1, <1>3, <1>7
      <3>2. PICK k \in 1..L : s[k] = at(n)
        BY <3>1, <1>2
      <3>3. OwnOffset(c, at(n)) \in Nat
        BY <3>2, <1>8
      <3>. QED
        BY <3>1, <3>3
    <2>2. CASE ~\E i \in I : z.iid[i] = n
      <3>1. o[n] = ParentOffset(z, c, n)
        BY <2>2, <1>3
      <3>2. ParentOffset(z, c, n) = -1 \/ (b # None /\ ParentOffset(z, c, n) = z.offsets[b][n])
        BY DEF ParentOffset
      <3>3. b # None => z.offsets[b][n] \in Int
        BY <1>11
      <3>4. -1 \in Int
        OBVIOUS
      <3>. QED
        BY ONLY <3>1, <3>2, <3>3, <3>4
    <2>. QED
      BY <2>1, <2>2
  <1>13. ASSUME b # None, NEW a \in 1..Len(prog.lists[b]), prog.lists[b][a] \notin I
         PROVE  o[z.iid[prog.lists[b][a]]] = Low(prog, b) + Off(prog, b)[a - 1]
    <2> DEFINE i == prog.lists[b][a]
               n == z.iid[i]
    <2>1. i \in z.inited /\ i \in Interfaces /\ z.offsets[b][n] = Low(prog, b) + Off(prog, b)[a - 1]
      BY <1>11, <1>13 DEF PlacedShape
    <2>2. n \in 0..MaxId
      BY <2>1, <1>4
    <2>3. ~\E j \in I : z.iid[j] = n
      BY <2>1, <1>2, <1>5, <1>6, <1>13
    <2>4. o[n] = ParentOffset(z, c, n)
      BY <2>2, <2>3, <1>3
    <2>5. i \in ToSet(Implemented(b))
      <3>1. ListShape(prog.lists[b], Interfaces)
        BY <1>1, <1>11, <1>13, ProgramLists, TypesAre
      <3>. QED
        BY <3>1 DEF ListShape, Implemented
    <2>6. ParentOffset(z, c, n) = z.offsets[b][n]
      BY <2>5, <1>13 DEF ParentOffset
    <2>. QED
      BY <2>1, <2>4, <2>6
  <1>14. o \in [0..MaxId -> Int]
    BY <1>9, <1>12
  <1>15. PlacedShape(o, z.iid, c, {})
    BY <1>10 DEF PlacedShape, s, L
  <1>16. b # None => PlacedShape(o, z.iid, b, I)
    BY <1>13 DEF PlacedShape
  <1>. QED
    BY <1>14, <1>15, <1>16 DEF o, I, s

\* One class is initialised, when its base is.
InitShape(st, y, c) ==
  /\ RunOK(y) /\ c \in y.inited /\ st.inited \subseteq y.inited

\* The class and its interfaces are initialised and the offsets are right.
LEMMA InitOneStep ==
  ASSUME CompileInv, phase = "methods", NEW c \in Classes, NEW st, RunOK(st),
         prog.base[c] \in st.inited \cup {None}
  PROVE  InitShape(st, InitOne(st, c), c)
  <1> DEFINE y == InitOne(st, c)
             z == FoldLeft(init_interface, st, prog.lists[c])
  <1>1. CASE c \in st.inited
    BY <1>1 DEF InitOne, InitShape
  <1>2. CASE c \notin st.inited
    <2>1. prog \in Programs
      BY DEF CompileInv, ParsedOK
    <2>2. ListedShape(st, z, c, Len(prog.lists[c]))
      BY <2>1, ListedInit
    <2>3. y = [inited |-> z.inited \cup {c}, iid |-> z.iid, nextId |-> z.nextId,
               offsets |-> [z.offsets EXCEPT ![c] = Offsets(z, c)]]
      <3>1. z \in RunStates
        BY <2>2 DEF ListedShape, RunOK
      <3> DEFINE x == z
      <3>2. x = FoldLeft(init_interface, st, prog.lists[c]) /\ x \in RunStates
        BY <3>1
      <3> HIDE DEF x
      <3>3. InitOne(st, c) = [inited |-> x.inited \cup {c}, iid |-> x.iid, nextId |-> x.nextId,
                              offsets |-> [x.offsets EXCEPT ![c] = Offsets(x, c)]]
        BY <1>2, <3>2, InitOneIs
      <3>. QED
        BY <3>3 DEF x
    <2> HIDE DEF z, y
    <2>4. /\ RunOK(z) /\ z.offsets = st.offsets
          /\ \A t : t \in z.inited <=> t \in st.inited \/ \E a \in 1..Len(prog.lists[c]) : t = prog.lists[c][a]
      BY <2>2 DEF ListedShape
    <2>5. \A a \in 1..Len(prog.lists[c]) : prog.lists[c][a] \in z.inited
      BY <2>4
    <2>6. prog.base[c] \in z.inited \cup {None}
      BY <2>4
    <2>7. OneClass(z, y, c)
      BY <2>3, <2>4, OneClassIs DEF RunOK
    <2>8. /\ y \in RunStates /\ y.inited = z.inited \cup {c} /\ y.iid = z.iid /\ y.nextId = z.nextId
          /\ y.offsets[c] = Offsets(z, c) /\ \A d \in Classes : d # c => y.offsets[d] = z.offsets[d]
      BY <2>7 DEF OneClass
    <2>9. c \notin Interfaces
      BY ProgramAssumption
    <2>10. IdsOK(y)
      <3>1. y.inited \cap Interfaces = z.inited \cap Interfaces
        BY <2>8, <2>9
      <3>2. \A i \in Interfaces : i \in y.inited <=> i \in z.inited
        BY <2>8, <2>9
      <3>. QED
        BY <2>4, <2>8, <3>1, <3>2 DEF RunOK, IdsOK
    <2>11. ClosedOK(y)
      BY <2>4, <2>5, <2>6, <2>8 DEF RunOK, ClosedOK
    <2>12. ClassOffsets(y, c)
      BY <2>4, <2>5, <2>6, <2>8, OffsetsAre DEF ClassOffsets
    <2>13. ASSUME NEW d \in Classes, d # c PROVE IF d \in y.inited THEN ClassOffsets(y, d) ELSE y.offsets[d] = <<>>
      <3>1. IF d \in z.inited THEN ClassOffsets(z, d) ELSE z.offsets[d] = <<>>
        BY <2>4 DEF RunOK, OffsetsOK
      <3>2. d \in y.inited <=> d \in z.inited
        BY <2>8, <2>13
      <3>. QED
        BY <3>1, <3>2, <2>8, <2>13 DEF ClassOffsets
    <2>14. OffsetsOK(y)
      <3>1. c \in y.inited
        BY <2>8
      <3>. QED
        BY <3>1, <2>12, <2>13 DEF OffsetsOK
    <2>15. InitShape(st, y, c)
      BY <2>4, <2>8, <2>10, <2>11, <2>14 DEF InitShape, RunOK
    <2>. QED
      BY <2>15 DEF y
  <1>. QED
    BY <1>1, <1>2

\* InitOne, whatever it starts with.
LEMMA InitOneType ==
  ASSUME CompileInv, phase = "methods", NEW c \in Classes, NEW st \in RunStates
  PROVE  InitOne(st, c) \in RunStates
  <1>1. CASE c \in st.inited
    BY <1>1 DEF InitOne
  <1>2. CASE c \notin st.inited
    <2> DEFINE s == prog.lists[c]
               n == Len(s)
               X == RunStates
               z == FoldLeft(init_interface, st, s)
    <2>1. n \in Nat /\ DOMAIN s = 1..n /\ \A k \in 1..n : s[k] \in Interfaces
      BY ProgramLists, TypesAre DEF ListShape, CompileInv, ParsedOK
    <2>2. z = FoldLeft(init_interface, st, prog.lists[c])
      OBVIOUS
    <2>3. z \in X
      <3>1. st \in X
        OBVIOUS
      <3> HIDE DEF s, n, z
      <3>2. \A x \in X : \A k \in 1..n : init_interface(x, s[k]) \in X
        BY <2>1, InterfaceType
      <3> HIDE DEF X
      <3>3. FoldInterfacesShape(X, n, st, s)
        BY ONLY <2>1, <3>1, <3>2, FoldInterfaces
      <3>4. PICK a \in [0..n -> X] : FoldLeft(init_interface, st, s) = a[n]
        BY ONLY <3>3 DEF FoldInterfacesShape
      <3>5. a[n] \in X
        BY <2>1
      <3>. QED
        BY <3>4, <3>5 DEF z
    <2> HIDE DEF z
    <2>4. InitOne(st, c) = [inited |-> z.inited \cup {c}, iid |-> z.iid, nextId |-> z.nextId,
                            offsets |-> [z.offsets EXCEPT ![c] = Offsets(z, c)]]
      BY <1>2, <2>2, <2>3, InitOneIs
    <2>5. OneClass(z, InitOne(st, c), c)
      BY <2>3, <2>4, OneClassIs
    <2>. QED
      BY <2>5 DEF OneClass
  <1>. QED
    BY <1>1, <1>2

\* init_class initialises a class and its bases.
LEMMA InitClassIs ==
  ASSUME CompileInv, phase = "methods", NEW c \in Classes,
         NEW st, RunOK(st), st = [inited |-> inited, iid |-> iid, nextId |-> nextId, offsets |-> offsets]
  PROVE  InitShape(st, init_class(c), c)
  <1> DEFINE s == LineageOf(prog, c)
             n == Len(s)
             X == RunStates
  <1>0. prog \in Programs
    BY DEF CompileInv, ParsedOK
  <1>1. PathShape(prog, c, s)
    BY <1>0, PathIs
  <1>2. /\ n \in Nat /\ n > 0 /\ DOMAIN s = 1..n /\ (\A j \in 1..n : s[j] \in Classes) /\ s[n] = c
        /\ prog.base[s[1]] = None /\ (\A j \in 1..n : j > 1 => prog.base[s[j]] = s[j - 1])
    BY <1>1 DEF PathShape
  <1>3. init_class(c) = FoldLeft(InitOne, st, s)
    BY DEF init_class, Lineage
  <1>4. st \in X
    BY DEF RunOK
  <1> HIDE DEF s, n
  <1>5. \A x \in X : \A k \in 1..n : InitOne(x, s[k]) \in X
    BY <1>2, InitOneType
  <1> HIDE DEF X
  <1>6. FoldInitShape(X, n, st, s)
    BY ONLY <1>2, <1>4, <1>5, FoldInit
  <1>7. PICK a \in [0..n -> X] :
          /\ a[0] = st /\ FoldLeft(InitOne, st, s) = a[n]
          /\ \A k \in 1..n : a[k] = InitOne(a[k - 1], s[k])
    BY ONLY <1>6 DEF FoldInitShape
  <1> DEFINE S == {k \in 0..n : /\ RunOK(a[k]) /\ st.inited \subseteq a[k].inited
                                /\ (k # 0 => s[k] \in a[k].inited)}
  <1>8. 0 \in S
    <2>1. 0 \in 0..n
      BY <1>2
    <2>2. RunOK(a[0]) /\ st.inited \subseteq a[0].inited
      BY <1>7
    <2>. QED
      BY <2>1, <2>2
  <1>9. ASSUME NEW k \in 1..n, k - 1 \in S PROVE k \in S
    <2> DEFINE y == a[k - 1]
               d == s[k]
               z == InitOne(y, d)
    <2>1. RunOK(y) /\ st.inited \subseteq y.inited
      BY <1>9
    <2>2. a[k] = z
      BY <1>7
    <2>3. k \in 0..n /\ d \in Classes
      BY <1>2
    <2>4. prog.base[d] \in y.inited \cup {None}
      <3>1. CASE k = 1
        BY <3>1, <1>2
      <3>2. CASE k # 1
        <4>1. k > 1 /\ k - 1 # 0 /\ k - 1 \in 1..n
          BY <3>2, <1>2
        <4>2. prog.base[d] = s[k - 1]
          BY <4>1, <1>2
        <4>3. s[k - 1] \in y.inited
          BY <4>1, <1>9
        <4>. QED
          BY <4>2, <4>3
      <3>. QED
        BY <3>1, <3>2
    <2> HIDE DEF y, d
    <2>5. InitShape(y, z, d)
      BY <2>1, <2>3, <2>4, InitOneStep
    <2> HIDE DEF z
    <2>. QED
      BY <2>1, <2>2, <2>3, <2>5 DEF InitShape, d
  <1>10. n \in S
    <2> HIDE DEF S
    <2>1. \A k \in 0..n : k \in S
      BY ONLY <1>2, <1>8, <1>9, UpTo
    <2>2. n \in 0..n
      BY <1>2
    <2>. QED
      BY <2>1, <2>2
  <1> DEFINE z == a[n]
  <1>11. RunOK(z) /\ st.inited \subseteq z.inited /\ s[n] \in z.inited
    BY <1>2, <1>10
  <1>12. init_class(c) = z
    BY <1>3, <1>7
  <1> HIDE DEF z
  <1>. QED
    BY <1>2, <1>11, <1>12 DEF InitShape

RunState == [inited |-> inited, iid |-> iid, nextId |-> nextId, offsets |-> offsets]

\* The run-time system starts when the program is compiled; an object with the copied vtable
\* is of a class that is initialised.
RunInv ==
  /\ RunOK(RunState)
  /\ made \subseteq inited /\ objects \subseteq [class : Classes, copied : BOOLEAN]
  /\ \A o \in objects : o.copied => o.class \in made
  /\ phase # "methods" => inited = {} /\ made = {} /\ objects = {}

IndInv == CompileInv /\ RunInv

\* Nothing is initialised at the start.
LEMMA RunInit ==
  ASSUME Init
  PROVE  RunInv
  <1> DEFINE st == RunState
  <1>1. /\ inited = {} /\ iid = [i \in Interfaces |-> 0] /\ nextId = 0
        /\ offsets = [c \in Classes |-> <<>>] /\ made = {} /\ objects = {}
    BY DEF Init
  <1>2. /\ st.inited = {} /\ st.iid = [i \in Interfaces |-> 0] /\ st.nextId = 0
        /\ st.offsets = [c \in Classes |-> <<>>]
    BY <1>1 DEF RunState
  <1>3. st \in RunStates
    BY <1>1 DEF RunState, RunStates
  <1> HIDE DEF st
  <1>4. IdsOK(st)
    <2>1. st.inited \cap Interfaces = {}
      BY <1>2
    <2>2. Cardinality({}) = 0
      BY FS_EmptySet
    <2>. QED
      BY <1>2, <2>1, <2>2 DEF IdsOK
  <1>5. ClosedOK(st)
    BY <1>2 DEF ClosedOK
  <1>6. OffsetsOK(st)
    BY <1>2 DEF OffsetsOK
  <1>. QED
    BY <1>1, <1>3, <1>4, <1>5, <1>6 DEF RunInv, RunOK, st

\* RunOK depends on the program only.
LEMMA RunKept ==
  ASSUME NEW z, RunOK(z), prog' = prog, RunState' = z
  PROVE  RunOK(RunState)'
  <1>1. ClosedOK(RunState)'
    BY DEF RunOK, ClosedOK
  <1>2. IdsOK(RunState)' /\ (RunState \in RunStates)'
    BY DEF RunOK, IdsOK
  <1>3. ASSUME NEW c \in Classes PROVE (IF c \in RunState.inited THEN ClassOffsets(RunState, c) ELSE RunState.offsets[c] = <<>>)'
    BY DEF RunOK, OffsetsOK, ClassOffsets, PlacedShape
  <1>4. OffsetsOK(RunState)'
    BY <1>3 DEF OffsetsOK
  <1>. QED
    BY <1>1, <1>2, <1>4 DEF RunOK

\* Nothing happens in the run-time system.
LEMMA RunUnchanged ==
  ASSUME RunInv, prog' = prog, phase' = phase, UNCHANGED runVars
  PROVE  RunInv'
  <1>1. RunState' = RunState
    BY DEF RunState, runVars
  <1>2. RunOK(RunState)'
    BY <1>1, RunKept DEF RunInv
  <1>. QED
    BY <1>2 DEF RunInv, runVars

\* While the program is compiled, the run-time system is as it starts.
LEMMA RunCompile ==
  ASSUME CompileInv, RunInv, Compile, UNCHANGED runVars
  PROVE  RunInv'
  <1> DEFINE st == RunState
  <1>1. phase = "classes"
    BY DEF Compile, parse_interface, parse_class, parse_all_methods, Ready
  <1>2. inited = {} /\ made = {} /\ objects = {}
    BY <1>1 DEF RunInv
  <1>3. inited' = inited /\ made' = made /\ objects' = objects /\ st' = st
    BY DEF runVars, RunState
  <1>4. st.inited = {} /\ st'.inited = {}
    BY <1>2, <1>3 DEF RunState
  <1>5. st \in RunStates /\ IdsOK(st) /\ OffsetsOK(st)
    BY DEF RunInv, RunOK
  <1>6. st' \in RunStates' /\ IdsOK(st')
    BY <1>3, <1>5 DEF RunStates, IdsOK
  <1> HIDE DEF st
  <1>. QED
    BY <1>2, <1>3, <1>4, <1>5, <1>6 DEF RunInv, RunOK, IdsOK, ClosedOK, OffsetsOK, st

\* newobj initialises the class of the object.
LEMMA RunNew ==
  ASSUME CompileInv, RunInv, NEW c \in Classes, newobj(c)
  PROVE  RunInv'
  <1> DEFINE st == RunState
             z == init_class(c)
  <1>1. /\ phase = "methods" /\ prog' = prog /\ phase' = phase
        /\ inited' = z.inited /\ iid' = z.iid /\ nextId' = z.nextId /\ offsets' = z.offsets
        /\ made' = (IF c \in inited THEN made ELSE made \cup {c})
        /\ objects' = objects \cup {[class |-> c, copied |-> c \in made']}
    BY DEF newobj, compileVars
  <1>2. InitShape(st, z, c)
    <2>1. RunOK(st) /\ st = [inited |-> inited, iid |-> iid, nextId |-> nextId, offsets |-> offsets]
      BY DEF RunInv, RunState
    <2> HIDE DEF st
    <2>. QED
      BY <1>1, <2>1, InitClassIs
  <1>3. st.inited = inited
    BY DEF RunState
  <1> HIDE DEF z, st
  <1>4. RunOK(z) /\ z \in RunStates /\ c \in z.inited /\ inited \subseteq z.inited
    BY <1>2, <1>3 DEF InitShape, RunOK
  <1>5. RunState' = z
    <2>1. z = [inited |-> z.inited, iid |-> z.iid, nextId |-> z.nextId, offsets |-> z.offsets]
      BY <1>4 DEF RunStates
    <2>2. RunState' = [inited |-> inited', iid |-> iid', nextId |-> nextId', offsets |-> offsets']
      BY DEF RunState
    <2>. QED
      BY <1>1, <2>1, <2>2
  <1>6. RunOK(RunState)'
    BY <1>1, <1>4, <1>5, RunKept
  <1>7. /\ made \subseteq inited /\ objects \subseteq [class : Classes, copied : BOOLEAN]
        /\ \A o \in objects : o.copied => o.class \in made
    BY DEF RunInv
  <1>8. made' \subseteq inited' /\ made \subseteq made'
    BY <1>1, <1>4, <1>7
  <1> DEFINE n == [class |-> c, copied |-> c \in made']
  <1>9. n \in [class : Classes, copied : BOOLEAN] /\ (n.copied => n.class \in made')
    <2> DEFINE x == c \in made'
    <2>1. x \in BOOLEAN /\ n = [class |-> c, copied |-> x]
      OBVIOUS
    <2> HIDE DEF x, n
    <2>2. n \in [class : Classes, copied : BOOLEAN] /\ n.copied = x /\ n.class = c
      BY <2>1
    <2>. QED
      BY <2>2 DEF x
  <1>10. objects' = objects \cup {n}
    BY <1>1
  <1> HIDE DEF n
  <1>11. objects' \subseteq [class : Classes, copied : BOOLEAN] /\ \A o \in objects' : o.copied => o.class \in made'
    BY <1>7, <1>8, <1>9, <1>10
  <1>12. phase' = "methods"
    BY <1>1
  <1>. QED
    BY <1>6, <1>8, <1>11, <1>12 DEF RunInv

\* The compiler's invariant and the run-time system's are inductive.
THEOREM Invariance == Spec => []IndInv
  <1>1. Init => IndInv
    BY RunInit, CompileInit DEF Init, IndInv
  <1>2. IndInv /\ [Next]_vars => IndInv'
    <2> SUFFICES ASSUME CompileInv, RunInv, [Next]_vars PROVE IndInv'
      BY DEF IndInv
    <2>1. CompileInv'
      BY CompileNext
    <2>2. CASE Compile /\ UNCHANGED runVars
      BY <2>1, <2>2, RunCompile DEF IndInv
    <2>3. CASE \E c \in Classes : newobj(c)
      BY <2>1, <2>3, RunNew DEF IndInv
    <2>4. CASE UNCHANGED vars
      BY <2>1, <2>4, RunUnchanged DEF IndInv, vars, compileVars
    <2>. QED
      BY <2>2, <2>3, <2>4 DEF Next
  <1>. QED
    BY <1>1, <1>2, PTL DEF Spec

\* Indices, vtables, interface ids and offsets keep their types: the ids of all interfaces
\* fit into interface_offsets, and a class has offsets when it is initialised.
THEOREM TypeCorrect == Spec => []TypeOK
  <1>1. IndInv => TypeOK
    <2> SUFFICES ASSUME CompileInv, RunInv PROVE TypeOK
      BY DEF IndInv
    <2> DEFINE st == RunState
    <2>1. st.inited = inited /\ st.iid = iid /\ st.nextId = nextId /\ st.offsets = offsets
      BY DEF RunState
    <2>2. st \in RunStates /\ IdsOK(st) /\ OffsetsOK(st)
      BY DEF RunInv, RunOK
    <2> HIDE DEF st
    <2>3. nextId \in 0..(MaxId + 1) /\ \A i \in Interfaces : iid[i] \in 0..MaxId
      BY <2>1, <2>2, IdsFit
    <2>4. inited \subseteq Types /\ iid \in [Interfaces -> 0..MaxId]
      <3>1. inited \in SUBSET Types /\ iid \in [Interfaces -> Nat]
        BY <2>1, <2>2 DEF RunStates
      <3>. QED
        BY <3>1, <2>3
    <2>5. \A c \in Classes : offsets[c] \in (IF c \in inited THEN [0..MaxId -> Int] ELSE {<<>>})
      BY <2>1, <2>2 DEF OffsetsOK, ClassOffsets
    <2>6. CompileTypeOK
      <3>1. prog \in Programs /\ parsed \subseteq Types /\ index \in [MethodsOf(prog) -> Nat] /\ count = {}
            /\ vtable \in [Classes -> Seq(Entry(prog))] /\ phase \in {"classes", "methods"}
        BY DEF CompileInv, ParsedOK, IndexOK, TablesOK, PhaseOK
      <3>. QED
        BY <3>1 DEF CompileTypeOK, Methods, Entry
    <2>. QED
      BY <2>3, <2>4, <2>5, <2>6 DEF TypeOK, RunInv
  <1>. QED
    BY <1>1, Invariance, PTL

\* The offset of an interface that D lists, and the index of its method, give the slot that
\* the method has as a method of D.
LEMMA InterfaceSlot ==
  ASSUME CompileInv, phase = "methods", NEW d \in Classes, NEW a \in 1..Len(prog.lists[d]),
         NEW n \in NamesOf(prog, prog.lists[d][a])
  PROVE  /\ n \in NamesOf(prog, d)
         /\ Low(prog, d) + Off(prog, d)[a - 1] + index[<<prog.lists[d][a], n>>] = index[<<d, n>>]
  <1> DEFINE i == prog.lists[d][a]
             s == prog.names[i]
  <1>1. prog \in Programs /\ parsed = Types
    BY DEF CompileInv, ParsedOK, PhaseOK
  <1>2. i \in Interfaces /\ i \in ToSet(prog.lists[d])
    BY <1>1, ProgramLists, TypesAre DEF ListShape
  <1>3. n \in NamesOf(prog, d)
    <2>1. PlainShape(prog, d)
      BY <1>1, PlainIs
    <2>2. n \in NamesOf(prog, i)
      OBVIOUS
    <2> HIDE DEF i
    <2>. QED
      BY <2>1, <2>2, <1>2 DEF PlainShape
  <1>4. PICK b \in 1..Len(s) : s[b] = n
    <2>1. ListShape(s, NamesOf(prog, i))
      BY <1>1, <1>2, ProgramLists, TypesAre
    <2>2. NamesOf(prog, i) = ToSet(s)
      BY DEF NamesOf
    <2> HIDE DEF s
    <2>. QED
      BY <2>1, <2>2 DEF ListShape
  <1>5. index[<<i, n>>] = b - 1
    <2>1. IfaceNumbered(prog, index, i)
      BY <1>1, <1>2, TypesAre DEF CompileInv, IndexOK
    <2>. QED
      BY <2>1, <1>4 DEF IfaceNumbered
  <1>6. index[<<d, n>>] = Low(prog, d) + Off(prog, d)[a - 1] + (b - 1)
    <2>1. Numbered(prog, index, d)
      BY <1>1, TypesAre DEF CompileInv, IndexOK
    <2>. QED
      BY <2>1, <1>4 DEF Numbered, ByIface
  <1>. QED
    BY <1>3, <1>5, <1>6

\* A call through an interface that a class or its base lists finds the implementation of
\* the class: in whatever order the types were parsed and the classes initialised.
THEOREM InterfaceCallsAreRight == Spec => []InterfaceCallRight
  <1>1. IndInv => InterfaceCallRight
    <2> SUFFICES ASSUME CompileInv, RunInv, NEW o \in objects, o.copied,
                        NEW i \in Provided(o.class), NEW n \in ToSet(prog.names[i])
                 PROVE  InterfaceTarget(o, i, n) = MethodImpl(o.class, n)
      BY DEF IndInv, InterfaceCallRight, CallsRight
    <2> DEFINE c == o.class
               b == prog.base[c]
               st == RunState
               start == offsets[c][iid[i]]
               slot == start + index[<<i, n>>]
    <2>1. c \in Classes /\ c \in inited /\ phase = "methods"
      BY DEF RunInv
    <2>2. prog \in Programs /\ parsed = Types
      BY <2>1 DEF CompileInv, ParsedOK, PhaseOK
    <2>3. st.inited = inited /\ st.iid = iid /\ st.offsets = offsets
      BY DEF RunState
    <2>4. ClassOffsets(st, c)
      BY <2>1, <2>3 DEF RunInv, RunOK, OffsetsOK
    <2> HIDE DEF st
    <2>5. /\ PlacedShape(offsets[c], iid, c, {})
          /\ b # None => PlacedShape(offsets[c], iid, b, ToSet(prog.lists[c]))
      BY <2>3, <2>4 DEF ClassOffsets
    <2>6. PICK d \in Anc(prog, c) : \E a \in 1..Len(prog.lists[d]) :
            i = prog.lists[d][a] /\ start = Low(prog, d) + Off(prog, d)[a - 1]
      <3>1. c \in Anc(prog, c) /\ (b # None => b \in Classes /\ b \in Anc(prog, c))
        <4>1. b # None => b \in Classes /\ Anc(prog, c) = Anc(prog, b) \cup {c}
          BY <2>1, <2>2, AncIs
        <4>2. b # None => b \in Anc(prog, b)
          BY <2>2, <4>1, AncFacts DEF AncShape
        <4>. QED
          BY <4>1, <4>2, <2>1, <2>2, AncFacts DEF AncShape
      <3>2. CASE i \in ToSet(prog.lists[c])
        <4>1. PICK a \in 1..Len(prog.lists[c]) : prog.lists[c][a] = i
          <5>1. ListShape(prog.lists[c], Interfaces)
            BY <2>1, <2>2, <3>2, ProgramLists, TypesAre
          <5> DEFINE l == prog.lists[c]
          <5> HIDE DEF l
          <5>2. \E a \in 1..Len(l) : l[a] = i
            BY <5>1, <3>2 DEF ListShape, l
          <5>. QED
            BY <5>2 DEF l
        <4>. QED
          BY <3>1, <4>1, <2>5 DEF PlacedShape
      <3>3. CASE i \notin ToSet(prog.lists[c])
        <4>1. b # None /\ i \in ToSet(prog.lists[b])
          BY <3>3 DEF Provided
        <4>2. PICK a \in 1..Len(prog.lists[b]) : prog.lists[b][a] = i
          <5>1. ListShape(prog.lists[b], Interfaces)
            BY <3>1, <2>2, <4>1, ProgramLists, TypesAre
          <5> DEFINE l == prog.lists[b]
          <5> HIDE DEF l
          <5>2. \E a \in 1..Len(l) : l[a] = i
            BY <5>1, <4>1 DEF ListShape, l
          <5>. QED
            BY <5>2 DEF l
        <4>. QED
          BY <3>1, <3>3, <4>1, <4>2, <2>5 DEF PlacedShape
      <3>. QED
        BY <3>2, <3>3
    <2>7. d \in Classes
      BY <2>1, <2>2, <2>6, AncFacts DEF AncShape
    <2>8. PICK a \in 1..Len(prog.lists[d]) : i = prog.lists[d][a] /\ start = Low(prog, d) + Off(prog, d)[a - 1]
      BY <2>6
    <2>9. n \in NamesOf(prog, d) /\ slot = index[<<d, n>>]
      <3>1. n \in NamesOf(prog, prog.lists[d][a])
        BY <2>8 DEF NamesOf
      <3>. QED
        BY <2>1, <2>7, <2>8, <3>1, InterfaceSlot
    <2>10. start \in Nat
      <3>1. Off(prog, d) \in [0..Len(prog.lists[d]) -> Nat] /\ Low(prog, d) \in Nat
        BY <2>2, <2>7, OffIs, SizeIs DEF OffShape, SizeShape
      <3>2. Len(prog.lists[d]) \in Nat
        BY <2>2, <2>7, ProgramLists, TypesAre DEF ListShape
      <3>3. a - 1 \in 0..Len(prog.lists[d])
        BY <3>2
      <3>4. Off(prog, d)[a - 1] \in Nat
        BY <3>1, <3>3
      <3>. QED
        BY <3>1, <3>4, <2>8
    <2>11. TableShape(prog, vtable[c], index, c)
      BY <2>1, <2>2, TypesAre DEF CompileInv, TablesOK
    <2> HIDE DEF start, slot
    <2>12. slot + 1 \in 1..Len(vtable[c]) /\ vtable[c][slot + 1].method = <<Nearest(prog, c, n), n>>
           /\ vtable[c] \in Seq(Entry(prog))
      BY <2>6, <2>9, <2>11 DEF TableShape
    <2>13. InterfaceTarget(o, i, n) = <<Nearest(prog, c, n), n>>
      <3>1. start # -1 /\ slot + 1 \in DOMAIN vtable[c]
        BY <2>10, <2>12
      <3>. QED
        BY <3>1, <2>12 DEF InterfaceTarget, start, slot
    <2>14. MethodImpl(c, n) = <<Nearest(prog, c, n), n>>
      <3>1. NearestShape(prog, c, n)
        BY <2>1, <2>2, NearestIs
      <3>2. CASE <<c, n>> \in prog.newslot
        <4>1. n \in NamesOf(prog, c)
          BY <2>2, <3>2, MethodIs
        <4>. QED
          BY <3>1, <3>2, <4>1 DEF NearestShape, MethodImpl
      <3>3. CASE <<c, n>> \notin prog.newslot
        <4>1. DeclaringIn(prog, n) = Declaring(n)
          BY <2>2, MethodIs, TypesAre DEF DeclaringIn, Declaring, Methods
        <4>2. LastIn(Lineage(c), Declaring(n)) = Nearest(prog, c, n)
          BY <4>1 DEF Nearest, Lineage
        <4>3. Nearest(prog, c, n) \in Classes
          BY <2>1, <2>2, <2>6, <2>9, <3>1, AncFacts DEF NearestShape, AncShape
        <4>4. Nearest(prog, c, n) # None
          BY <4>3, TypesAre
        <4>. QED
          BY <3>3, <4>2, <4>4 DEF MethodImpl
      <3>. QED
        BY <3>2, <3>3
    <2>. QED
      BY <2>13, <2>14
  <1>. QED
    BY <1>1, Invariance, PTL
=============================================================================
