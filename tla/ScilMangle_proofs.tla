------------------------- MODULE ScilMangle_proofs -------------------------
(***************************************************************************)
(* For every program, whatever its classes are called and however they are *)
(* nested, and for any number of names: a tree is in the containers that   *)
(* its class file names, a name depends on its tree only, and two trees    *)
(* have one name only if they are methods that differ in their result or   *)
(* in being static.                                                        *)
(*                                                                         *)
(* What is written for two different classes or types, with the same on    *)
(* the stack, clashes: there is a place that both have and where they      *)
(* differ, so they differ whatever follows.  Lists of types have no end    *)
(* mark; they differ because either two types in the same place clash,     *)
(* with the same on the stack since all before them is the same, or one    *)
(* list goes on where the other ends.  Members are told apart by the row   *)
(* of their class and name, and the four kinds by their prefixes and by    *)
(* the types that follow a method.                                         *)
(*                                                                         *)
(* The recursive function Requested is shown to be what it says by the     *)
(* depth of nesting, and FoldLeft by the lemmas on the folds below, since  *)
(* each fold is over an initial segment of the numbers.                    *)
(***************************************************************************)
EXTENDS ScilMangle, NaturalLemmas, SequenceTheorems, TLAPS

-----------------------------------------------------------------------------
(* The identifiers of classes                                                *)

\* One unfolding of the recursion of Requested.
RequestedStep(g) ==
  [c \in ILClasses |->
     IF NestedParent[c] # NoClass
     THEN Append(g[NestedParent[c]], Append(Last(g[NestedParent[c]]), ClassName[c]))
     ELSE Append([k \in 1..(Len(Namespace[c]) + 1) |->
                    AssemblyName[c] \o SubSeq(Namespace[c], 1, k - 1)],
                 AssemblyName[c] \o Namespace[c] \o <<ClassName[c]>>)]

\* Classes are nested in classes, and in fewer and fewer of them.
LEMMA NestingEnds ==
  \E N \in Nat, depth \in [ILClasses -> Nat] :
    \A c \in ILClasses :
      /\ depth[c] <= N
      /\ NestedParent[c] # NoClass =>
           NestedParent[c] \in ILClasses /\ depth[NestedParent[c]] < depth[c]
  <1>1. PICK depth \in [ILClasses -> 0..Cardinality(ILClasses)] :
          \A c \in ILClasses : NestedParent[c] # NoClass => depth[NestedParent[c]] < depth[c]
    BY ClassesAssumption
  <1> DEFINE N == Cardinality(ILClasses)
  <1>2. N \in Nat
    BY ClassesAssumption, FS_CardinalityType
  <1> HIDE DEF N
  <1>3. depth \in [ILClasses -> Nat] /\ \A c \in ILClasses : depth[c] <= N
    BY <1>1, <1>2 DEF N
  <1>4. \A c \in ILClasses : NestedParent[c] # NoClass => NestedParent[c] \in ILClasses
    BY ClassesAssumption
  <1>. QED
    BY <1>1, <1>2, <1>3, <1>4

\* Nesting that ends makes the recursion of Requested one that has a solution.
LEMMA RequestedUnfolds == Requested = RequestedStep(Requested)
  <1>1. Requested = CHOOSE g : g = RequestedStep(g)
    BY DEF Requested, RequestedStep
  <1>2. PICK N \in Nat, depth \in [ILClasses -> Nat] :
          \A c \in ILClasses :
            /\ depth[c] <= N
            /\ NestedParent[c] # NoClass =>
                 NestedParent[c] \in ILClasses /\ depth[NestedParent[c]] < depth[c]
    BY NestingEnds
  <1> DEFINE Good(g, n) == \A c \in ILClasses : depth[c] <= n => g[c] = RequestedStep(g)[c]
             Bad == {n \in Nat : ~\E g : DOMAIN g = ILClasses /\ Good(g, n)}
  <1>3. \A g : DOMAIN RequestedStep(g) = ILClasses
    BY DEF RequestedStep
  <1>4. ASSUME NEW g, NEW h, NEW c \in ILClasses,
               NestedParent[c] # NoClass => g[NestedParent[c]] = h[NestedParent[c]]
        PROVE  RequestedStep(g)[c] = RequestedStep(h)[c]
    BY <1>4 DEF RequestedStep
  <1>5. Bad = {}
    <2> SUFFICES ASSUME Bad # {} PROVE FALSE
      OBVIOUS
    <2>1. PICK n \in Bad : \A k \in Bad : n <= k
      BY Least
    <2>2. \E g : \A c \in ILClasses : depth[c] < n => g[c] = RequestedStep(g)[c]
      <3>1. CASE n = 0
        BY <3>1, <1>2
      <3>2. CASE n # 0
        <4>1. n - 1 \in Nat /\ n - 1 \notin Bad
          BY <2>1, <3>2
        <4>2. PICK g : Good(g, n - 1)
          BY <4>1
        <4>3. \A c \in ILClasses : depth[c] < n => depth[c] <= n - 1
          BY <1>2, <2>1
        <4>. QED
          BY <4>2, <4>3
      <3>. QED
        BY <3>1, <3>2
    <2>3. PICK g : \A c \in ILClasses : depth[c] < n => g[c] = RequestedStep(g)[c]
      BY <2>2
    <2> DEFINE h == RequestedStep(g)
    <2>4. ASSUME NEW c \in ILClasses, depth[c] <= n PROVE h[c] = RequestedStep(h)[c]
      <3>1. NestedParent[c] # NoClass => g[NestedParent[c]] = h[NestedParent[c]]
        <4>1. NestedParent[c] # NoClass =>
                NestedParent[c] \in ILClasses /\ depth[NestedParent[c]] < n
          BY <1>2, <2>1, <2>4
        <4>. QED
          BY <4>1, <2>3
      <3>. QED
        BY <3>1, <1>4
    <2>5. DOMAIN h = ILClasses
      BY <1>3
    <2> HIDE DEF h
    <2>6. n \notin Bad
      BY <2>1, <2>4, <2>5
    <2>. QED
      BY <2>1, <2>6
  <1>6. PICK g : DOMAIN g = ILClasses /\ Good(g, N)
    BY <1>5, <1>2
  <1> DEFINE h == [c \in ILClasses |-> g[c]]
  <1>7. \A c \in ILClasses : h[c] = g[c] /\ g[c] = RequestedStep(g)[c]
    BY <1>6, <1>2
  <1>8. \A c \in ILClasses : RequestedStep(g)[c] = RequestedStep(h)[c]
    <2> SUFFICES ASSUME NEW c \in ILClasses PROVE RequestedStep(g)[c] = RequestedStep(h)[c]
      OBVIOUS
    <2>1. NestedParent[c] # NoClass => g[NestedParent[c]] = h[NestedParent[c]]
      BY <1>2, <1>7
    <2>. QED
      BY <2>1, <1>4
  <1>9. h = RequestedStep(h)
    <2>1. h = [c \in ILClasses |-> h[c]]
      OBVIOUS
    <2>2. RequestedStep(h) = [c \in ILClasses |-> RequestedStep(h)[c]]
      BY DEF RequestedStep
    <2> HIDE DEF h
    <2>. QED
      BY <2>1, <2>2, <1>7, <1>8
  <1> HIDE DEF h
  <1>. QED
    BY <1>1, <1>9

\* The identifiers of a class and its containers: each is that of its container
\* and one part more.
ContainerChain(r) ==
  /\ r \in Seq(Seq(STRING)) /\ Len(r) >= 1
  /\ \A k \in 1..Len(r) : r[k] # <<>> /\ r[k][1] # "builtin"
  /\ \A k \in 1..(Len(r) - 1) : \E s \in STRING : r[k + 1] = Append(r[k], s)

\* An identifier with further parts.
LEMMA MoreParts ==
  ASSUME NEW S, NEW a \in Seq(S), a # <<>>, NEW b \in Seq(S)
  PROVE  a \o b \in Seq(S) /\ a \o b # <<>> /\ (a \o b)[1] = a[1]
  OBVIOUS

\* An identifier with one part more.
LEMMA OnePartMore ==
  ASSUME NEW S, NEW a \in Seq(S), a # <<>>, a[1] # "builtin", NEW s \in S
  PROVE  /\ Append(a, s) \in Seq(S) /\ Append(a, s) # <<>>
         /\ Append(a, s)[1] # "builtin" /\ Last(Append(a, s)) = s
  BY DEF Last

\* A tree in the innermost one of a chain.
LEMMA ChainMore ==
  ASSUME NEW r, ContainerChain(r), NEW s \in STRING
  PROVE  /\ ContainerChain(Append(r, Append(Last(r), s)))
         /\ Len(Append(r, Append(Last(r), s))) = Len(r) + 1
  <1> DEFINE z == Append(Last(r), s)
             q == Append(r, z)
             n == Len(r)
  <1>1. n \in Nat /\ n >= 1 /\ r \in Seq(Seq(STRING))
    BY DEF ContainerChain
  <1>2. r[n] \in Seq(STRING) /\ r[n] # <<>> /\ r[n][1] # "builtin" /\ Last(r) = r[n]
    BY <1>1 DEF ContainerChain, Last
  <1>3. z \in Seq(STRING) /\ z # <<>> /\ z[1] # "builtin" /\ z = Append(r[n], s)
    BY <1>2, OnePartMore
  <1> HIDE DEF z
  <1>4. q \in Seq(Seq(STRING)) /\ Len(q) = n + 1 /\ q[n + 1] = z /\ \A k \in 1..n : q[k] = r[k]
    BY <1>1, <1>3, AppendProperties
  <1>5. /\ \A k \in 1..n : r[k] # <<>> /\ r[k][1] # "builtin"
        /\ \A k \in 1..(n - 1) : \E t \in STRING : r[k + 1] = Append(r[k], t)
    BY DEF ContainerChain
  <1> HIDE DEF q, n
  <1>6. ASSUME NEW k \in 1..(n + 1) PROVE q[k] # <<>> /\ q[k][1] # "builtin"
    <2>1. CASE k = n + 1
      BY <2>1, <1>3, <1>4
    <2>2. CASE k \in 1..n
      BY <2>2, <1>4, <1>5
    <2>. QED
      BY <2>1, <2>2, <1>1
  <1>7. ASSUME NEW k \in 1..n PROVE \E t \in STRING : q[k + 1] = Append(q[k], t)
    <2>1. CASE k = n
      BY <2>1, <1>1, <1>3, <1>4
    <2>2. CASE k \in 1..(n - 1)
      <3>1. PICK t \in STRING : r[k + 1] = Append(r[k], t)
        BY <2>2, <1>5
      <3>2. q[k] = r[k] /\ q[k + 1] = r[k + 1]
        BY <1>1, <1>4, <2>2
      <3>. QED
        BY <3>1, <3>2
    <2>3. k = n \/ k \in 1..(n - 1)
      BY <1>1
    <2>. QED
      BY <2>1, <2>2, <2>3
  <1>8. ContainerChain(q)
    <2>1. (n + 1) - 1 = n /\ n + 1 >= 1
      BY <1>1
    <2>. QED
      BY <2>1, <1>4, <1>6, <1>7 DEF ContainerChain
  <1>. QED
    BY <1>4, <1>8 DEF q, z, n

\* An assembly and the namespaces in it.
LEMMA ChainOfNamespace ==
  ASSUME NEW a \in Seq(STRING), a # <<>>, a[1] # "builtin", NEW n \in Seq(STRING),
         NEW q, q = [k \in 1..(Len(n) + 1) |-> a \o SubSeq(n, 1, k - 1)]
  PROVE  ContainerChain(q) /\ Last(q) = a \o n
  <1> DEFINE l == Len(n)
  <1>1. l \in Nat
    OBVIOUS
  <1>2. ASSUME NEW k \in 1..(l + 1)
        PROVE  /\ q[k] = a \o SubSeq(n, 1, k - 1)
               /\ q[k] \in Seq(STRING) /\ q[k] # <<>> /\ q[k][1] # "builtin"
    <2> DEFINE b == SubSeq(n, 1, k - 1)
    <2>1. b \in Seq(STRING) /\ q[k] = a \o b
      OBVIOUS
    <2> HIDE DEF b
    <2>2. q[k] \in Seq(STRING) /\ q[k] # <<>> /\ q[k][1] # "builtin"
      BY <2>1, MoreParts
    <2>. QED
      BY <2>1, <2>2 DEF b
  <1>3. q \in Seq(Seq(STRING)) /\ Len(q) = l + 1
    <2>1. q \in [1..(l + 1) -> Seq(STRING)]
      BY <1>2
    <2> HIDE DEF l
    <2>. QED
      BY <2>1, <1>1
  <1>4. ASSUME NEW k \in 1..l PROVE n[k] \in STRING /\ q[k + 1] = Append(q[k], n[k])
    <2> DEFINE b == SubSeq(n, 1, k - 1)
    <2>1. SubSeq(n, 1, k) = b \o <<n[k]>>
      <3>1. 1 \in 1..Len(n) /\ k \in 1..Len(n)
        OBVIOUS
      <3>. QED
        BY <3>1, SubSeqRecursiveSecond
    <2>2. b \in Seq(STRING) /\ n[k] \in STRING /\ <<n[k]>> \in Seq(STRING)
      OBVIOUS
    <2>3. k \in 1..(l + 1) /\ k + 1 \in 1..(l + 1) /\ (k + 1) - 1 = k
      BY <1>1
    <2>4. q[k + 1] = a \o SubSeq(n, 1, k) /\ q[k] = a \o b
      BY <2>3, <1>2
    <2> HIDE DEF b
    <2> DEFINE e == <<n[k]>>
    <2>5. q[k + 1] = (a \o b) \o <<n[k]>>
      <3>1. e \in Seq(STRING)
        BY <2>2
      <3>2. q[k + 1] = a \o (b \o e)
        BY <2>1, <2>4
      <3> HIDE DEF e
      <3>3. (a \o b) \o e = a \o (b \o e)
        <4>1. a \in Seq(STRING) /\ b \in Seq(STRING)
          BY <2>2
        <4>. QED
          BY ONLY <4>1, <3>1, ConcatAssociative
      <3>. QED
        BY <3>2, <3>3 DEF e
    <2>6. a \o b \in Seq(STRING)
      BY <2>2
    <2>7. Append(a \o b, n[k]) = (a \o b) \o <<n[k]>>
      BY <2>6, <2>2, AppendIsConcat
    <2>. QED
      BY <2>2, <2>4, <2>5, <2>7
  <1>5. Last(q) = a \o n
    <2>1. q[l + 1] = a \o SubSeq(n, 1, l)
      BY <1>1, <1>2
    <2>2. SubSeq(n, 1, l) = n
      BY SubSeqFull
    <2>. QED
      BY <2>1, <2>2, <1>3 DEF Last
  <1> HIDE DEF l
  <1>6. l + 1 >= 1 /\ (l + 1) - 1 = l
    BY <1>1
  <1>7. ContainerChain(q)
    BY <1>2, <1>3, <1>4, <1>6 DEF ContainerChain
  <1>. QED
    BY <1>5, <1>7

\* What register_class asks for is such a chain, for every class.
LEMMA RequestedChain ==
  \A c \in ILClasses : ContainerChain(Requested[c]) /\ Len(Requested[c]) >= 2
  <1>1. PICK N \in Nat, depth \in [ILClasses -> Nat] :
          \A c \in ILClasses :
            /\ depth[c] <= N
            /\ NestedParent[c] # NoClass =>
                 NestedParent[c] \in ILClasses /\ depth[NestedParent[c]] < depth[c]
    BY NestingEnds
  <1> DEFINE Ok(c) == ContainerChain(Requested[c]) /\ Len(Requested[c]) >= 2
             Bad == {n \in Nat : \E c \in ILClasses : depth[c] = n /\ ~Ok(c)}
  <1>2. Bad = {}
    <2> SUFFICES ASSUME Bad # {} PROVE FALSE
      OBVIOUS
    <2>1. PICK n \in Bad : \A k \in Bad : n <= k
      BY Least
    <2>2. PICK c \in ILClasses : depth[c] = n /\ ~Ok(c)
      BY <2>1
    <2>3. Requested[c] = RequestedStep(Requested)[c]
      BY RequestedUnfolds
    <2>4. ClassName[c] \in STRING
      BY ClassesAssumption
    <2>5. \E r : /\ ContainerChain(r)
                /\ Requested[c] = Append(r, Append(Last(r), ClassName[c]))
      <3>1. CASE NestedParent[c] # NoClass
        <4> DEFINE d == NestedParent[c]
        <4>1. d \in ILClasses /\ depth[d] \in Nat /\ depth[d] < n
          BY <1>1, <2>2, <3>1
        <4>2. ContainerChain(Requested[d])
          BY <4>1, <2>1
        <4>3. Requested[c] = Append(Requested[d], Append(Last(Requested[d]), ClassName[c]))
          BY <2>3, <3>1 DEF RequestedStep
        <4>. QED
          BY <4>2, <4>3
      <3>2. CASE NestedParent[c] = NoClass
        <4> DEFINE a == AssemblyName[c]
                   b == Namespace[c]
                   s == ClassName[c]
                   q == [k \in 1..(Len(b) + 1) |-> a \o SubSeq(b, 1, k - 1)]
        <4>1. a \in Seq(STRING) /\ a # <<>> /\ a[1] # "builtin" /\ b \in Seq(STRING)
          BY ClassesAssumption
        <4>2. Requested[c] = Append(q, a \o b \o <<s>>)
          BY <2>3, <3>2 DEF RequestedStep
        <4> HIDE DEF a, b
        <4>3. ContainerChain(q) /\ Last(q) = a \o b
          BY <4>1, ChainOfNamespace
        <4> HIDE DEF q
        <4>4. s \in STRING
          BY <2>4
        <4> HIDE DEF s
        <4>5. a \o b \in Seq(STRING)
          BY <4>1
        <4>6. Append(a \o b, s) = (a \o b) \o <<s>>
          BY <4>4, <4>5, AppendIsConcat
        <4>7. Requested[c] = Append(q, Append(Last(q), s))
          BY <4>2, <4>3, <4>6
        <4>. QED
          BY <4>3, <4>7 DEF s
      <3>. QED
        BY <3>1, <3>2
    <2>6. PICK r : ContainerChain(r) /\ Requested[c] = Append(r, Append(Last(r), ClassName[c]))
      BY <2>5
    <2>7. ContainerChain(Requested[c]) /\ Len(Requested[c]) = Len(r) + 1
      BY <2>4, <2>6, ChainMore
    <2>8. Len(r) \in Nat /\ Len(r) >= 1
      BY <2>6 DEF ContainerChain
    <2>. QED
      BY <2>2, <2>7, <2>8
  <1>. QED
    BY <1>1, <1>2

-----------------------------------------------------------------------------
(* The folds of the model: what is reached after the first k of a sequence   *)

\* The step of register_class.
register_one(q, ids, k) ==
  IF ids[k] \in DOMAIN q THEN q
  ELSE Made(q, IF k = 1 THEN <<>> ELSE ids[k - 1], ids[k])

\* The step of WithTypes.
register_type(q, t) == IF t \in ILClasses THEN register_class(q, t) ELSE q

\* The identifiers of a class are registered one after the other: one unfolding of the recursion of FoldLeft over G.
RegisteredUnfold(p, ids, s, g) ==
  [t \in SUBSET DOMAIN s |->
     IF t = {} THEN p ELSE register_one(g[t \ {Max(t)}], ids, s[Max(t)])]

\* What is reached, by the set of the indices that are done.
Registered(p, ids, s) == CHOOSE g : g = RegisteredUnfold(p, ids, s, g)

\* The recursion has a solution: one more unfolding is right for one more index.
LEMMA RegisteredUnfolds ==
  ASSUME NEW p, NEW ids, NEW n \in Nat, NEW s, DOMAIN s = 1..n
  PROVE  Registered(p, ids, s) = RegisteredUnfold(p, ids, s, Registered(p, ids, s))
  <1> DEFINE D == SUBSET DOMAIN s
             U(g) == RegisteredUnfold(p, ids, s, g)
             Good(g, m) == \A t \in D : Cardinality(t) <= m => g[t] = U(g)[t]
             Bad == {m \in Nat : ~\E g : DOMAIN g = D /\ Good(g, m)}
  <1>1. ASSUME NEW t \in D
        PROVE  /\ Cardinality(t) \in Nat
               /\ Cardinality(t) <= n
               /\ t # {} => /\ t \ {Max(t)} \in D
                           /\ Cardinality(t \ {Max(t)}) < Cardinality(t)
    BY PrefixSets
  <1>0. \A t \in D : Cardinality(t) \in Nat
    BY <1>1
  <1>2. \A g : DOMAIN U(g) = D /\ U(g) = [t \in D |-> U(g)[t]]
    BY DEF RegisteredUnfold
  <1>3. ASSUME NEW g, NEW h, NEW t \in D,
               t # {} => g[t \ {Max(t)}] = h[t \ {Max(t)}]
        PROVE  U(g)[t] = U(h)[t]
    BY <1>3 DEF RegisteredUnfold
  <1> HIDE DEF U, D
  <1>4. Bad = {}
    <2> SUFFICES ASSUME Bad # {} PROVE FALSE
      OBVIOUS
    <2>1. PICK m \in Bad : \A k \in Bad : m <= k
      BY Least
    <2>0. m \in Nat /\ \A k \in Bad : k \in Nat /\ m <= k
      BY <2>1
    <2>2. \E g : \A t \in D : Cardinality(t) < m => g[t] = U(g)[t]
      <3>1. CASE m = 0
        <4>1. \A t \in D : ~(Cardinality(t) < 0)
          BY ONLY <1>0
        <4>. QED
          BY ONLY <4>1, <3>1
      <3>2. CASE m # 0
        <4>1. m - 1 \in Nat /\ m - 1 \notin Bad
          BY ONLY <2>0, <3>2
        <4>2. PICK g : Good(g, m - 1)
          BY <4>1
        <4>3. \A t \in D : Cardinality(t) < m => Cardinality(t) <= m - 1
          BY ONLY <1>0, <2>0
        <4>. QED
          BY <4>2, <4>3
      <3>. QED
        BY <3>1, <3>2
    <2>3. PICK g : \A t \in D : Cardinality(t) < m => g[t] = U(g)[t]
      BY <2>2
    <2> DEFINE h == U(g)
    <2>4. ASSUME NEW t \in D, Cardinality(t) <= m PROVE h[t] = U(h)[t]
      <3>1. t # {} => g[t \ {Max(t)}] = h[t \ {Max(t)}]
        <4>1. ASSUME t # {}
              PROVE  t \ {Max(t)} \in D /\ Cardinality(t \ {Max(t)}) < m
          <5> DEFINE u == t \ {Max(t)}
          <5>1. u \in D /\ Cardinality(u) \in Nat /\ Cardinality(t) \in Nat
                /\ Cardinality(u) < Cardinality(t)
            BY <1>1, <4>1
          <5> HIDE DEF u
          <5>2. Cardinality(u) < m
            BY ONLY <5>1, <2>0, <2>4
          <5>. QED
            BY <5>1, <5>2 DEF u
        <4>. QED
          BY <4>1, <2>3
      <3>. QED
        BY <3>1, <1>3
    <2>5. DOMAIN h = D
      BY <1>2
    <2> HIDE DEF h
    <2>6. m \notin Bad
      BY <2>1, <2>4, <2>5
    <2>. QED
      BY <2>1, <2>6
  <1>5. PICK g : DOMAIN g = D /\ Good(g, n)
    BY <1>4
  <1> HIDE DEF Bad
  <1> DEFINE h == [t \in D |-> g[t]]
  <1>6. \A t \in D : h[t] = g[t] /\ g[t] = U(g)[t]
    BY <1>1, <1>5
  <1>7. ASSUME NEW t \in D PROVE U(g)[t] = U(h)[t]
    <2>1. t # {} => g[t \ {Max(t)}] = h[t \ {Max(t)}]
      BY <1>1, <1>6
    <2>. QED
      BY <2>1, <1>3
  <1>8. h = U(h)
    <2>1. h = [t \in D |-> h[t]]
      OBVIOUS
    <2> HIDE DEF h, D
    <2>. QED
      BY <2>1, <1>2, <1>6, <1>7
  <1> HIDE DEF h
  <1>. QED
    BY <1>8 DEF Registered, U

\* What is reached after the first K.
RegisteredSteps(p, ids, s, n) ==
  /\ Registered(p, ids, s)[1..0] = p
  /\ \A k \in 1..n :
       Registered(p, ids, s)[1..k] = register_one(Registered(p, ids, s)[1..(k - 1)], ids, s[k])

\* What the fold gives after each of the identifiers.
LEMMA RegisteredPrefix ==
  ASSUME NEW p, NEW ids, NEW n \in Nat, NEW s, DOMAIN s = 1..n
  PROVE  RegisteredSteps(p, ids, s, n)
  <1> DEFINE g == Registered(p, ids, s)
  <1>1. g = RegisteredUnfold(p, ids, s, g)
    BY RegisteredUnfolds
  <1> HIDE DEF g
  <1>2. g[1..0] = p
    <2>1. 1..0 = {} /\ {} \in SUBSET DOMAIN s
      OBVIOUS
    <2>2. RegisteredUnfold(p, ids, s, g)[{}] = p
      BY DEF RegisteredUnfold
    <2>. QED
      BY <1>1, <2>1, <2>2
  <1>3. ASSUME NEW k \in 1..n PROVE g[1..k] = register_one(g[1..(k - 1)], ids, s[k])
    <2> DEFINE t == 1..k
    <2>1. t \in SUBSET DOMAIN s /\ t # {} /\ Max(t) = k /\ t \ {k} = 1..(k - 1)
      BY PrefixMax
    <2> HIDE DEF t
    <2>2. RegisteredUnfold(p, ids, s, g)[t] = register_one(g[t \ {Max(t)}], ids, s[Max(t)])
      BY <2>1 DEF RegisteredUnfold
    <2>3. g[t] = register_one(g[1..(k - 1)], ids, s[k])
      BY <1>1, <2>1, <2>2
    <2>. QED
      BY <2>3 DEF t
  <1>. QED
    BY <1>2, <1>3 DEF g, RegisteredSteps

\* register_class goes through all of them.
LEMMA RegisterIsFold ==
  ASSUME NEW p, NEW c, NEW ids, ids = Requested[c], NEW s, s = [k \in DOMAIN ids |-> k]
  PROVE  register_class(p, c) = Registered(p, ids, s)[DOMAIN s]
  <1> DEFINE It == LET iter[t \in SUBSET DOMAIN s] ==
                         IF t = {} THEN p
                         ELSE LET x == Max(t)
                              IN  register_one(iter[t \ {x}], ids, s[x])
                   IN  iter
  <1>1. register_class(p, c) = It[DOMAIN s]
    BY DEF register_class, register_one, FoldLeft, MapThenFoldSet
  <1>2. It = Registered(p, ids, s)
    BY DEF Registered, RegisteredUnfold
  <1>. QED
    BY <1>1, <1>2

\* The types of the parameters are written one after the other: one unfolding of the recursion of FoldLeft over G.
WrittenUnfold(p, w, s, g) ==
  [t \in SUBSET DOMAIN s |->
     IF t = {} THEN w ELSE write_type(g[t \ {Max(t)}], p, s[Max(t)])]

\* What is reached, by the set of the indices that are done.
Written(p, w, s) == CHOOSE g : g = WrittenUnfold(p, w, s, g)

\* The recursion has a solution: one more unfolding is right for one more index.
LEMMA WrittenUnfolds ==
  ASSUME NEW p, NEW w, NEW n \in Nat, NEW s, DOMAIN s = 1..n
  PROVE  Written(p, w, s) = WrittenUnfold(p, w, s, Written(p, w, s))
  <1> DEFINE D == SUBSET DOMAIN s
             U(g) == WrittenUnfold(p, w, s, g)
             Good(g, m) == \A t \in D : Cardinality(t) <= m => g[t] = U(g)[t]
             Bad == {m \in Nat : ~\E g : DOMAIN g = D /\ Good(g, m)}
  <1>1. ASSUME NEW t \in D
        PROVE  /\ Cardinality(t) \in Nat
               /\ Cardinality(t) <= n
               /\ t # {} => /\ t \ {Max(t)} \in D
                           /\ Cardinality(t \ {Max(t)}) < Cardinality(t)
    BY PrefixSets
  <1>0. \A t \in D : Cardinality(t) \in Nat
    BY <1>1
  <1>2. \A g : DOMAIN U(g) = D /\ U(g) = [t \in D |-> U(g)[t]]
    BY DEF WrittenUnfold
  <1>3. ASSUME NEW g, NEW h, NEW t \in D,
               t # {} => g[t \ {Max(t)}] = h[t \ {Max(t)}]
        PROVE  U(g)[t] = U(h)[t]
    BY <1>3 DEF WrittenUnfold
  <1> HIDE DEF U, D
  <1>4. Bad = {}
    <2> SUFFICES ASSUME Bad # {} PROVE FALSE
      OBVIOUS
    <2>1. PICK m \in Bad : \A k \in Bad : m <= k
      BY Least
    <2>0. m \in Nat /\ \A k \in Bad : k \in Nat /\ m <= k
      BY <2>1
    <2>2. \E g : \A t \in D : Cardinality(t) < m => g[t] = U(g)[t]
      <3>1. CASE m = 0
        <4>1. \A t \in D : ~(Cardinality(t) < 0)
          BY ONLY <1>0
        <4>. QED
          BY ONLY <4>1, <3>1
      <3>2. CASE m # 0
        <4>1. m - 1 \in Nat /\ m - 1 \notin Bad
          BY ONLY <2>0, <3>2
        <4>2. PICK g : Good(g, m - 1)
          BY <4>1
        <4>3. \A t \in D : Cardinality(t) < m => Cardinality(t) <= m - 1
          BY ONLY <1>0, <2>0
        <4>. QED
          BY <4>2, <4>3
      <3>. QED
        BY <3>1, <3>2
    <2>3. PICK g : \A t \in D : Cardinality(t) < m => g[t] = U(g)[t]
      BY <2>2
    <2> DEFINE h == U(g)
    <2>4. ASSUME NEW t \in D, Cardinality(t) <= m PROVE h[t] = U(h)[t]
      <3>1. t # {} => g[t \ {Max(t)}] = h[t \ {Max(t)}]
        <4>1. ASSUME t # {}
              PROVE  t \ {Max(t)} \in D /\ Cardinality(t \ {Max(t)}) < m
          <5> DEFINE u == t \ {Max(t)}
          <5>1. u \in D /\ Cardinality(u) \in Nat /\ Cardinality(t) \in Nat
                /\ Cardinality(u) < Cardinality(t)
            BY <1>1, <4>1
          <5> HIDE DEF u
          <5>2. Cardinality(u) < m
            BY ONLY <5>1, <2>0, <2>4
          <5>. QED
            BY <5>1, <5>2 DEF u
        <4>. QED
          BY <4>1, <2>3
      <3>. QED
        BY <3>1, <1>3
    <2>5. DOMAIN h = D
      BY <1>2
    <2> HIDE DEF h
    <2>6. m \notin Bad
      BY <2>1, <2>4, <2>5
    <2>. QED
      BY <2>1, <2>6
  <1>5. PICK g : DOMAIN g = D /\ Good(g, n)
    BY <1>4
  <1> HIDE DEF Bad
  <1> DEFINE h == [t \in D |-> g[t]]
  <1>6. \A t \in D : h[t] = g[t] /\ g[t] = U(g)[t]
    BY <1>1, <1>5
  <1>7. ASSUME NEW t \in D PROVE U(g)[t] = U(h)[t]
    <2>1. t # {} => g[t \ {Max(t)}] = h[t \ {Max(t)}]
      BY <1>1, <1>6
    <2>. QED
      BY <2>1, <1>3
  <1>8. h = U(h)
    <2>1. h = [t \in D |-> h[t]]
      OBVIOUS
    <2> HIDE DEF h, D
    <2>. QED
      BY <2>1, <1>2, <1>6, <1>7
  <1> HIDE DEF h
  <1>. QED
    BY <1>8 DEF Written, U

\* What is reached after the first K.
WrittenSteps(p, w, s, n) ==
  /\ Written(p, w, s)[1..0] = w
  /\ \A k \in 1..n :
       Written(p, w, s)[1..k] = write_type(Written(p, w, s)[1..(k - 1)], p, s[k])

\* What the fold gives after each of the types.
LEMMA WrittenPrefix ==
  ASSUME NEW p, NEW w, NEW n \in Nat, NEW s, DOMAIN s = 1..n
  PROVE  WrittenSteps(p, w, s, n)
  <1> DEFINE g == Written(p, w, s)
  <1>1. g = WrittenUnfold(p, w, s, g)
    BY WrittenUnfolds
  <1> HIDE DEF g
  <1>2. g[1..0] = w
    <2>1. 1..0 = {} /\ {} \in SUBSET DOMAIN s
      OBVIOUS
    <2>2. WrittenUnfold(p, w, s, g)[{}] = w
      BY DEF WrittenUnfold
    <2>. QED
      BY <1>1, <2>1, <2>2
  <1>3. ASSUME NEW k \in 1..n PROVE g[1..k] = write_type(g[1..(k - 1)], p, s[k])
    <2> DEFINE t == 1..k
    <2>1. t \in SUBSET DOMAIN s /\ t # {} /\ Max(t) = k /\ t \ {k} = 1..(k - 1)
      BY PrefixMax
    <2> HIDE DEF t
    <2>2. WrittenUnfold(p, w, s, g)[t] = write_type(g[t \ {Max(t)}], p, s[Max(t)])
      BY <2>1 DEF WrittenUnfold
    <2>3. g[t] = write_type(g[1..(k - 1)], p, s[k])
      BY <1>1, <2>1, <2>2
    <2>. QED
      BY <2>3 DEF t
  <1>. QED
    BY <1>2, <1>3 DEF g, WrittenSteps

\* write_method_type writes all of them.
LEMMA WriteIsFold ==
  ASSUME NEW p, NEW w, NEW s, s # <<>>
  PROVE  write_method_type(w, p, s) = Written(p, w, s)[DOMAIN s]
  <1> DEFINE It == LET iter[t \in SUBSET DOMAIN s] ==
                         IF t = {} THEN w
                         ELSE LET x == Max(t)
                              IN  write_type(iter[t \ {x}], p, s[x])
                   IN  iter
  <1>1. write_method_type(w, p, s) = It[DOMAIN s]
    BY DEF write_method_type, FoldLeft, MapThenFoldSet
  <1>2. It = Written(p, w, s)
    BY DEF Written, WrittenUnfold
  <1>. QED
    BY <1>1, <1>2

\* The types of a method are registered one after the other: one unfolding of the recursion of FoldLeft over G.
TypesOfUnfold(p, s, g) ==
  [t \in SUBSET DOMAIN s |->
     IF t = {} THEN p ELSE register_type(g[t \ {Max(t)}], s[Max(t)])]

\* What is reached, by the set of the indices that are done.
TypesOf(p, s) == CHOOSE g : g = TypesOfUnfold(p, s, g)

\* The recursion has a solution: one more unfolding is right for one more index.
LEMMA TypesOfUnfolds ==
  ASSUME NEW p, NEW n \in Nat, NEW s, DOMAIN s = 1..n
  PROVE  TypesOf(p, s) = TypesOfUnfold(p, s, TypesOf(p, s))
  <1> DEFINE D == SUBSET DOMAIN s
             U(g) == TypesOfUnfold(p, s, g)
             Good(g, m) == \A t \in D : Cardinality(t) <= m => g[t] = U(g)[t]
             Bad == {m \in Nat : ~\E g : DOMAIN g = D /\ Good(g, m)}
  <1>1. ASSUME NEW t \in D
        PROVE  /\ Cardinality(t) \in Nat
               /\ Cardinality(t) <= n
               /\ t # {} => /\ t \ {Max(t)} \in D
                           /\ Cardinality(t \ {Max(t)}) < Cardinality(t)
    BY PrefixSets
  <1>0. \A t \in D : Cardinality(t) \in Nat
    BY <1>1
  <1>2. \A g : DOMAIN U(g) = D /\ U(g) = [t \in D |-> U(g)[t]]
    BY DEF TypesOfUnfold
  <1>3. ASSUME NEW g, NEW h, NEW t \in D,
               t # {} => g[t \ {Max(t)}] = h[t \ {Max(t)}]
        PROVE  U(g)[t] = U(h)[t]
    BY <1>3 DEF TypesOfUnfold
  <1> HIDE DEF U, D
  <1>4. Bad = {}
    <2> SUFFICES ASSUME Bad # {} PROVE FALSE
      OBVIOUS
    <2>1. PICK m \in Bad : \A k \in Bad : m <= k
      BY Least
    <2>0. m \in Nat /\ \A k \in Bad : k \in Nat /\ m <= k
      BY <2>1
    <2>2. \E g : \A t \in D : Cardinality(t) < m => g[t] = U(g)[t]
      <3>1. CASE m = 0
        <4>1. \A t \in D : ~(Cardinality(t) < 0)
          BY ONLY <1>0
        <4>. QED
          BY ONLY <4>1, <3>1
      <3>2. CASE m # 0
        <4>1. m - 1 \in Nat /\ m - 1 \notin Bad
          BY ONLY <2>0, <3>2
        <4>2. PICK g : Good(g, m - 1)
          BY <4>1
        <4>3. \A t \in D : Cardinality(t) < m => Cardinality(t) <= m - 1
          BY ONLY <1>0, <2>0
        <4>. QED
          BY <4>2, <4>3
      <3>. QED
        BY <3>1, <3>2
    <2>3. PICK g : \A t \in D : Cardinality(t) < m => g[t] = U(g)[t]
      BY <2>2
    <2> DEFINE h == U(g)
    <2>4. ASSUME NEW t \in D, Cardinality(t) <= m PROVE h[t] = U(h)[t]
      <3>1. t # {} => g[t \ {Max(t)}] = h[t \ {Max(t)}]
        <4>1. ASSUME t # {}
              PROVE  t \ {Max(t)} \in D /\ Cardinality(t \ {Max(t)}) < m
          <5> DEFINE u == t \ {Max(t)}
          <5>1. u \in D /\ Cardinality(u) \in Nat /\ Cardinality(t) \in Nat
                /\ Cardinality(u) < Cardinality(t)
            BY <1>1, <4>1
          <5> HIDE DEF u
          <5>2. Cardinality(u) < m
            BY ONLY <5>1, <2>0, <2>4
          <5>. QED
            BY <5>1, <5>2 DEF u
        <4>. QED
          BY <4>1, <2>3
      <3>. QED
        BY <3>1, <1>3
    <2>5. DOMAIN h = D
      BY <1>2
    <2> HIDE DEF h
    <2>6. m \notin Bad
      BY <2>1, <2>4, <2>5
    <2>. QED
      BY <2>1, <2>6
  <1>5. PICK g : DOMAIN g = D /\ Good(g, n)
    BY <1>4
  <1> HIDE DEF Bad
  <1> DEFINE h == [t \in D |-> g[t]]
  <1>6. \A t \in D : h[t] = g[t] /\ g[t] = U(g)[t]
    BY <1>1, <1>5
  <1>7. ASSUME NEW t \in D PROVE U(g)[t] = U(h)[t]
    <2>1. t # {} => g[t \ {Max(t)}] = h[t \ {Max(t)}]
      BY <1>1, <1>6
    <2>. QED
      BY <2>1, <1>3
  <1>8. h = U(h)
    <2>1. h = [t \in D |-> h[t]]
      OBVIOUS
    <2> HIDE DEF h, D
    <2>. QED
      BY <2>1, <1>2, <1>6, <1>7
  <1> HIDE DEF h
  <1>. QED
    BY <1>8 DEF TypesOf, U

\* What is reached after the first K.
TypesOfSteps(p, s, n) ==
  /\ TypesOf(p, s)[1..0] = p
  /\ \A k \in 1..n :
       TypesOf(p, s)[1..k] = register_type(TypesOf(p, s)[1..(k - 1)], s[k])

\* What the fold gives after each of the types.
LEMMA TypesOfPrefix ==
  ASSUME NEW p, NEW n \in Nat, NEW s, DOMAIN s = 1..n
  PROVE  TypesOfSteps(p, s, n)
  <1> DEFINE g == TypesOf(p, s)
  <1>1. g = TypesOfUnfold(p, s, g)
    BY TypesOfUnfolds
  <1> HIDE DEF g
  <1>2. g[1..0] = p
    <2>1. 1..0 = {} /\ {} \in SUBSET DOMAIN s
      OBVIOUS
    <2>2. TypesOfUnfold(p, s, g)[{}] = p
      BY DEF TypesOfUnfold
    <2>. QED
      BY <1>1, <2>1, <2>2
  <1>3. ASSUME NEW k \in 1..n PROVE g[1..k] = register_type(g[1..(k - 1)], s[k])
    <2> DEFINE t == 1..k
    <2>1. t \in SUBSET DOMAIN s /\ t # {} /\ Max(t) = k /\ t \ {k} = 1..(k - 1)
      BY PrefixMax
    <2> HIDE DEF t
    <2>2. TypesOfUnfold(p, s, g)[t] = register_type(g[t \ {Max(t)}], s[Max(t)])
      BY <2>1 DEF TypesOfUnfold
    <2>3. g[t] = register_type(g[1..(k - 1)], s[k])
      BY <1>1, <2>1, <2>2
    <2>. QED
      BY <2>3 DEF t
  <1>. QED
    BY <1>2, <1>3 DEF g, TypesOfSteps

\* WithTypes registers all of them.
LEMMA WithTypesIsFold ==
  ASSUME NEW p, NEW m, NEW s, s = <<m.result>> \o m.params, NEW q, q = register_class(p, m.owner)
  PROVE  WithTypes(p, m) = TypesOf(q, s)[DOMAIN s]
  <1> DEFINE It == LET iter[t \in SUBSET DOMAIN s] ==
                         IF t = {} THEN q
                         ELSE LET x == Max(t)
                              IN  register_type(iter[t \ {x}], s[x])
                   IN  iter
  <1>1. WithTypes(p, m) = It[DOMAIN s]
    BY DEF WithTypes, register_type, FoldLeft, MapThenFoldSet
  <1>2. It = TypesOf(q, s)
    BY DEF TypesOf, TypesOfUnfold
  <1>. QED
    BY <1>1, <1>2

-----------------------------------------------------------------------------
(* Registration of classes                                                   *)

\* What SCIL_DECL knows: trees that were asked for with all their containers.
PathOk(p) ==
  \A id \in DOMAIN p : \E c \in ILClasses : \E i \in 1..Len(Requested[c]) :
    /\ Requested[c][i] = id /\ p[id] = SubSeq(Requested[c], 1, i)
    /\ \A j \in 1..i : Requested[c][j] \in DOMAIN p

\* Q knows all that P knows, and knows it alike.
Grown(p, q) == DOMAIN p \subseteq DOMAIN q /\ \A id \in DOMAIN p : q[id] = p[id]

\* Growing twice is growing.
LEMMA GrownTwice ==
  ASSUME NEW p, NEW q, NEW r, Grown(p, q), Grown(q, r)
  PROVE  Grown(p, r)
  BY DEF Grown

\* The first members of a sequence.
LEMMA FirstOf ==
  ASSUME NEW S, NEW r \in Seq(S), NEW i \in 1..Len(r)
  PROVE  /\ SubSeq(r, 1, i) \in Seq(S) /\ Len(SubSeq(r, 1, i)) = i
         /\ \A k \in 1..i : SubSeq(r, 1, i)[k] = r[k]
         /\ Last(SubSeq(r, 1, i)) = r[i]
         /\ i > 1 => SubSeq(r, 1, i) = Append(SubSeq(r, 1, i - 1), r[i])
         /\ i = 1 => SubSeq(r, 1, i) = <<r[1]>>
  <1> DEFINE n == Len(r)
             u == SubSeq(r, 1, i)
  <1>1. n \in Nat /\ i \in Nat /\ 1 <= i /\ i <= n
    OBVIOUS
  <1>2. u \in Seq(S) /\ Len(u) = i /\ \A k \in 1..i : u[k] = r[k]
    OBVIOUS
  <1>3. Last(u) = r[i]
    BY <1>1, <1>2 DEF Last
  <1>4. ASSUME i > 1 PROVE u = Append(SubSeq(r, 1, i - 1), r[i])
    <2> DEFINE v == SubSeq(r, 1, i - 1)
    <2>1. v \in Seq(S) /\ Len(v) = i - 1 /\ (\A k \in 1..(i - 1) : v[k] = r[k]) /\ r[i] \in S
      OBVIOUS
    <2> HIDE DEF v, u
    <2> DEFINE w == Append(v, r[i])
    <2>2. w \in Seq(S) /\ Len(w) = i /\ w[i] = r[i] /\ \A k \in 1..(i - 1) : w[k] = v[k]
      BY <2>1, <1>1
    <2> HIDE DEF w
    <2>3. \A k \in 1..i : u[k] = w[k]
      <3> SUFFICES ASSUME NEW k \in 1..i PROVE u[k] = w[k]
        OBVIOUS
      <3>1. k = i \/ k \in 1..(i - 1)
        BY <1>1
      <3>. QED
        BY <3>1, <1>1, <1>2, <2>1, <2>2
    <2>4. u = w
      BY <2>2, <2>3, <1>2, SeqEqual
    <2>. QED
      BY <2>4 DEF w, v
  <1>5. ASSUME i = 1 PROVE u = <<r[1]>>
    <2> HIDE DEF u
    <2> DEFINE w == <<r[1]>>
    <2>1. w \in Seq(S) /\ Len(w) = 1 /\ w[1] = r[1]
      OBVIOUS
    <2> HIDE DEF w
    <2>2. u = w
      BY <1>2, <1>5, <2>1, SeqEqual
    <2>. QED
      BY <2>2 DEF w
  <1>. QED
    BY <1>2, <1>3, <1>4, <1>5

\* A tree that is asked for by two ways has the same containers by both.
LEMMA RequestedUnique ==
  ASSUME NEW c \in ILClasses, NEW d \in ILClasses,
         NEW i \in 1..Len(Requested[c]), NEW j \in 1..Len(Requested[d]),
         Requested[c][i] = Requested[d][j]
  PROVE  /\ i = j /\ SubSeq(Requested[c], 1, i) = SubSeq(Requested[d], 1, j)
         /\ \A k \in 1..i : Requested[c][k] = Requested[d][k]
  <1>1. Requested[c] \in Seq(Seq(STRING)) /\ Requested[d] \in Seq(Seq(STRING))
    BY RequestedChain DEF ContainerChain
  <1> DEFINE r == Requested[c]
             q == Requested[d]
  <1>2. DOMAIN r = 1..Len(r) /\ DOMAIN q = 1..Len(q)
    BY <1>1
  <1>3. SubSeq(r, 1, i) = SubSeq(q, 1, j)
    <2>1. c \in ILClasses /\ d \in ILClasses /\ i \in DOMAIN r /\ j \in DOMAIN q /\ r[i] = q[j]
      BY <1>2
    <2>2. \A a, b \in ILClasses :
            \A k \in DOMAIN Requested[a], l \in DOMAIN Requested[b] :
              Requested[a][k] = Requested[b][l]
                => SubSeq(Requested[a], 1, k) = SubSeq(Requested[b], 1, l)
      BY NamesAssumption
    <2>. QED
      BY ONLY <2>1, <2>2
  <1> HIDE DEF r, q
  <1>4. Len(SubSeq(r, 1, i)) = i /\ \A k \in 1..i : SubSeq(r, 1, i)[k] = r[k]
    BY <1>1, FirstOf DEF r
  <1>5. Len(SubSeq(q, 1, j)) = j /\ \A k \in 1..j : SubSeq(q, 1, j)[k] = q[k]
    BY <1>1, FirstOf DEF q
  <1>6. i = j
    BY <1>3, <1>4, <1>5
  <1>. QED
    BY <1>3, <1>4, <1>5, <1>6 DEF r, q

\* What is known of a tree that is asked for and known.
LEMMA PathOfRequested ==
  ASSUME NEW p, PathOk(p), NEW c \in ILClasses, NEW i \in 1..Len(Requested[c]),
         Requested[c][i] \in DOMAIN p
  PROVE  /\ p[Requested[c][i]] = SubSeq(Requested[c], 1, i)
         /\ \A j \in 1..i : Requested[c][j] \in DOMAIN p
  <1> DEFINE id == Requested[c][i]
  <1>0. PICK d \in ILClasses : \E j \in 1..Len(Requested[d]) :
          /\ Requested[d][j] = id /\ p[id] = SubSeq(Requested[d], 1, j)
          /\ \A k \in 1..j : Requested[d][k] \in DOMAIN p
    BY DEF PathOk
  <1>1. PICK j \in 1..Len(Requested[d]) :
          /\ Requested[d][j] = id /\ p[id] = SubSeq(Requested[d], 1, j)
          /\ \A k \in 1..j : Requested[d][k] \in DOMAIN p
    BY <1>0
  <1>2. /\ i = j /\ SubSeq(Requested[c], 1, i) = SubSeq(Requested[d], 1, j)
        /\ \A k \in 1..i : Requested[c][k] = Requested[d][k]
    BY <1>1, RequestedUnique
  <1>. QED
    BY <1>1, <1>2

\* One identifier is registered, after that of its container.
LEMMA RegisterOne ==
  ASSUME NEW q, PathOk(q), NEW c \in ILClasses, NEW ids, ids = Requested[c],
         NEW k \in 1..Len(ids), k > 1 => ids[k - 1] \in DOMAIN q,
         NEW r, r = register_one(q, ids, k)
  PROVE  PathOk(r) /\ Grown(q, r) /\ ids[k] \in DOMAIN r
  <1>1. CASE ids[k] \in DOMAIN q
    <2>1. r = q
      BY <1>1 DEF register_one
    <2>. QED
      BY <1>1, <2>1 DEF Grown
  <1>2. CASE ids[k] \notin DOMAIN q
    <2> DEFINE id == ids[k]
               container == IF k = 1 THEN <<>> ELSE ids[k - 1]
               new == SubSeq(ids, 1, k)
    <2>1. r = [x \in DOMAIN q \cup {id} |->
                 IF x # id THEN q[x] ELSE IF container = <<>> THEN <<id>> ELSE Append(q[container], id)]
      BY <1>2 DEF register_one, Made
    <2>2. ids \in Seq(Seq(STRING)) /\ \A j \in 1..Len(ids) : ids[j] # <<>>
      BY RequestedChain DEF ContainerChain
    <2>3. r[id] = new
      <3>1. CASE k = 1
        <4>1. new = <<ids[1]>>
          BY <2>2, <3>1, FirstOf
        <4>2. r[id] = <<id>>
          BY <2>1, <3>1
        <4>. QED
          BY <4>1, <4>2, <3>1
      <3>2. CASE k > 1
        <4>1. k - 1 \in 1..Len(ids)
          BY <2>2, <3>2
        <4>2. ids[k - 1] \in DOMAIN q
          BY <3>2
        <4>3. q[ids[k - 1]] = SubSeq(ids, 1, k - 1)
          BY <4>1, <4>2, PathOfRequested
        <4>4. container = ids[k - 1] /\ container # <<>>
          BY <2>2, <3>2, <4>1
        <4>5. r[id] = Append(q[container], id)
          BY <2>1, <4>4
        <4>6. new = Append(SubSeq(ids, 1, k - 1), ids[k])
          BY <2>2, <3>2, FirstOf
        <4>. QED
          BY <4>3, <4>4, <4>5, <4>6
      <3>3. k = 1 \/ k > 1
        OBVIOUS
      <3>. QED
        BY <3>1, <3>2, <3>3
    <2>4. DOMAIN r = DOMAIN q \cup {id} /\ \A x \in DOMAIN q : r[x] = q[x]
      BY <2>1, <1>2
    <2>5. Grown(q, r)
      BY <2>4 DEF Grown
    <2>6. ASSUME NEW j \in 1..k PROVE ids[j] \in DOMAIN r
      <3>1. CASE j = k
        BY <3>1, <2>4
      <3>2. CASE j # k
        <4>1. k > 1 /\ k - 1 \in 1..Len(ids) /\ j \in 1..(k - 1)
          BY <2>2, <3>2
        <4>2. ids[j] \in DOMAIN q
          BY <4>1, PathOfRequested
        <4>. QED
          BY <4>2, <2>4
      <3>. QED
        BY <3>1, <3>2
    <2>7. PathOk(r)
      <3> SUFFICES ASSUME NEW x \in DOMAIN r
                   PROVE  \E d \in ILClasses : \E i \in 1..Len(Requested[d]) :
                            /\ Requested[d][i] = x /\ r[x] = SubSeq(Requested[d], 1, i)
                            /\ \A j \in 1..i : Requested[d][j] \in DOMAIN r
        BY DEF PathOk
      <3>1. CASE x = id
        BY <3>1, <2>3, <2>6
      <3>2. CASE x # id
        <4>1. x \in DOMAIN q /\ r[x] = q[x]
          BY <3>2, <2>4
        <4>0. PICK d \in ILClasses : \E i \in 1..Len(Requested[d]) :
                /\ Requested[d][i] = x /\ q[x] = SubSeq(Requested[d], 1, i)
                /\ \A j \in 1..i : Requested[d][j] \in DOMAIN q
          BY <4>1 DEF PathOk
        <4>2. PICK i \in 1..Len(Requested[d]) :
                /\ Requested[d][i] = x /\ q[x] = SubSeq(Requested[d], 1, i)
                /\ \A j \in 1..i : Requested[d][j] \in DOMAIN q
          BY <4>0
        <4>3. \A j \in 1..i : Requested[d][j] \in DOMAIN r
          BY <4>2, <2>4
        <4>. QED
          BY <4>1, <4>2, <4>3
      <3>. QED
        BY <3>1, <3>2
    <2>. QED
      BY <2>4, <2>5, <2>7
  <1>. QED
    BY <1>1, <1>2

\* register_class: the class and its containers are known, and nothing that was
\* known before is known differently.
LEMMA RegisterClass ==
  ASSUME NEW p, PathOk(p), NEW c \in ILClasses, NEW r, r = register_class(p, c)
  PROVE  /\ PathOk(r) /\ Grown(p, r) /\ ClassId(c) \in DOMAIN r
         /\ r[ClassId(c)] = Requested[c]
  <1> DEFINE ids == Requested[c]
             n == Len(ids)
             s == [k \in DOMAIN ids |-> k]
             at(k) == Registered(p, ids, s)[1..k]
             Ok(k) == PathOk(at(k)) /\ Grown(p, at(k)) /\ (k >= 1 => ids[k] \in DOMAIN at(k))
             Bad == {k \in Nat : k <= n /\ ~Ok(k)}
  <1>1. ids \in Seq(Seq(STRING)) /\ n \in Nat /\ n >= 2
    BY RequestedChain DEF ContainerChain
  <1>2. DOMAIN s = 1..n /\ \A k \in 1..n : s[k] = k
    BY <1>1
  <1>3. r = at(n)
    BY <1>2, RegisterIsFold
  <1> HIDE DEF s, ids, n
  <1>4. at(0) = p /\ \A k \in 1..n : at(k) = register_one(at(k - 1), ids, s[k])
    <2>1. n \in Nat /\ DOMAIN s = 1..n
      BY <1>1, <1>2
    <2>2. /\ Registered(p, ids, s)[1..0] = p
          /\ \A k \in 1..n : Registered(p, ids, s)[1..k] =
                             register_one(Registered(p, ids, s)[1..(k - 1)], ids, s[k])
      BY ONLY <2>1, RegisteredPrefix DEF RegisteredSteps
    <2>. QED
      BY ONLY <2>2
  <1> HIDE DEF at
  <1>5. Ok(0)
    BY <1>4 DEF Grown
  <1>6. ASSUME NEW k \in 1..n, Ok(k - 1) PROVE Ok(k)
    <2> DEFINE q == at(k - 1)
    <2>1. PathOk(q) /\ Grown(p, q) /\ (k > 1 => ids[k - 1] \in DOMAIN q)
      BY <1>1, <1>6
    <2>2. at(k) = register_one(q, ids, k)
      BY <1>2, <1>4
    <2> HIDE DEF q
    <2>3. PathOk(at(k)) /\ Grown(q, at(k)) /\ ids[k] \in DOMAIN at(k)
      BY <2>1, <2>2, RegisterOne DEF ids, n
    <2>. QED
      BY <2>1, <2>3, GrownTwice
  <1> HIDE DEF Ok
  <1>7. Bad = {}
    <2> SUFFICES ASSUME Bad # {} PROVE FALSE
      OBVIOUS
    <2>1. PICK k \in Bad : \A j \in Bad : k <= j
      BY Least
    <2>2. k \in Nat /\ k <= n /\ ~Ok(k) /\ k # 0
      BY <2>1, <1>5
    <2>3. k - 1 \in Nat /\ k - 1 <= n /\ k \in 1..n
      BY <2>2, <1>1
    <2>4. k - 1 \notin Bad
      BY <2>1, <2>3
    <2>. QED
      BY <2>2, <2>3, <2>4, <1>6
  <1>8. Ok(n)
    BY <1>1, <1>7
  <1>9. PathOk(r) /\ Grown(p, r) /\ ids[n] \in DOMAIN r
    BY <1>1, <1>3, <1>8 DEF Ok
  <1>10. ClassId(c) = ids[n]
    BY DEF ClassId, Last, ids, n
  <1>11. r[ids[n]] = SubSeq(ids, 1, n)
    <2>1. n \in 1..Len(Requested[c])
      BY <1>1 DEF n, ids
    <2>. QED
      BY <2>1, <1>9, PathOfRequested DEF ids
  <1>12. SubSeq(ids, 1, n) = ids
    BY <1>1, SubSeqFull DEF n
  <1>. QED
    BY <1>9, <1>10, <1>11, <1>12 DEF ids

\* A type that is no class changes nothing.
LEMMA RegisterType ==
  ASSUME NEW p, PathOk(p), NEW t, NEW r, r = register_type(p, t)
  PROVE  PathOk(r) /\ Grown(p, r) /\ (t \in ILClasses => ClassId(t) \in DOMAIN r)
  <1>1. CASE t \in ILClasses
    <2>1. r = register_class(p, t)
      BY <1>1 DEF register_type
    <2>. QED
      BY <1>1, <2>1, RegisterClass
  <1>2. CASE t \notin ILClasses
    BY <1>2 DEF register_type, Grown
  <1>. QED
    BY <1>1, <1>2

\* The classes a method refers to are known before its name is made.
LEMMA RegisterTypes ==
  ASSUME NEW p, PathOk(p), NEW m \in ILMethods, NEW r, r = WithTypes(p, m)
  PROVE  /\ PathOk(r) /\ Grown(p, r) /\ ClassId(m.owner) \in DOMAIN r
         /\ \A k \in DOMAIN m.params :
              m.params[k] \in ILClasses => ClassId(m.params[k]) \in DOMAIN r
  <1> DEFINE T == ILClasses \cup Primitives
             s == <<m.result>> \o m.params
             l == Len(m.params)
             n == l + 1
             q == register_class(p, m.owner)
             at(k) == TypesOf(q, s)[1..k]
             Ok(k) == /\ PathOk(at(k)) /\ Grown(q, at(k))
                      /\ \A j \in 1..k : s[j] \in ILClasses => ClassId(s[j]) \in DOMAIN at(k)
             Bad == {k \in Nat : k <= n /\ ~Ok(k)}
  <1>1. m.owner \in ILClasses /\ m.params \in Seq(T) /\ m.result \in T
    BY MembersAssumption
  <1>2. l \in Nat /\ DOMAIN m.params = 1..l
    BY <1>1
  <1>3. DOMAIN s = 1..n /\ \A k \in 1..l : s[k + 1] = m.params[k]
    <2> DEFINE a == <<m.result>>
               b == m.params
    <2>1. a \in Seq(T) /\ b \in Seq(T) /\ Len(a) = 1
      BY <1>1
    <2> HIDE DEF a, b
    <2>2. /\ a \o b \in Seq(T) /\ Len(a \o b) = 1 + Len(b)
          /\ \A i \in 1..(1 + Len(b)) : (a \o b)[i] = IF i <= 1 THEN a[i] ELSE b[i - 1]
      <3>1. /\ a \o b \in Seq(T) /\ Len(a \o b) = Len(a) + Len(b)
            /\ \A i \in 1..(Len(a) + Len(b)) : (a \o b)[i] = IF i <= Len(a) THEN a[i] ELSE b[i - Len(a)]
        BY ONLY <2>1, ConcatProperties
      <3>. QED
        BY ONLY <2>1, <3>1
    <2>3. DOMAIN (a \o b) = 1..(Len(b) + 1) /\ \A k \in 1..Len(b) : (a \o b)[k + 1] = b[k]
      BY <2>1, <2>2
    <2>. QED
      BY <2>3 DEF a, b
  <1>4. PathOk(q) /\ Grown(p, q) /\ ClassId(m.owner) \in DOMAIN q
    BY <1>1, RegisterClass
  <1>5. r = at(n)
    <2>1. WithTypes(p, m) = TypesOf(q, s)[DOMAIN s]
      BY ONLY WithTypesIsFold
    <2>. QED
      BY <2>1, <1>3
  <1>6. n \in Nat
    BY <1>2
  <1> HIDE DEF s, q, l, n, T
  <1>7. at(0) = q /\ \A k \in 1..n : at(k) = register_type(at(k - 1), s[k])
    <2>1. /\ TypesOf(q, s)[1..0] = q
          /\ \A k \in 1..n : TypesOf(q, s)[1..k] = register_type(TypesOf(q, s)[1..(k - 1)], s[k])
      BY ONLY <1>3, <1>6, TypesOfPrefix DEF TypesOfSteps
    <2>. QED
      BY ONLY <2>1
  <1> HIDE DEF at
  <1>8. Ok(0)
    BY <1>4, <1>7 DEF Grown
  <1>9. ASSUME NEW k \in 1..n, Ok(k - 1) PROVE Ok(k)
    <2> DEFINE u == at(k - 1)
    <2>1. PathOk(u) /\ Grown(q, u) /\ at(k) = register_type(u, s[k])
      BY <1>7, <1>9
    <2>2. \A j \in 1..(k - 1) : s[j] \in ILClasses => ClassId(s[j]) \in DOMAIN u
      BY <1>9
    <2> HIDE DEF u
    <2>3. PathOk(at(k)) /\ Grown(u, at(k)) /\ (s[k] \in ILClasses => ClassId(s[k]) \in DOMAIN at(k))
      BY <2>1, RegisterType
    <2>4. ASSUME NEW j \in 1..k, s[j] \in ILClasses PROVE ClassId(s[j]) \in DOMAIN at(k)
      <3>1. j = k \/ j \in 1..(k - 1)
        BY <1>6
      <3>. QED
        BY <3>1, <2>2, <2>3, <2>4 DEF Grown
    <2>5. Grown(q, at(k))
      BY <2>1, <2>3, GrownTwice
    <2>. QED
      BY <2>3, <2>4, <2>5
  <1> HIDE DEF Ok
  <1>10. Bad = {}
    <2> SUFFICES ASSUME Bad # {} PROVE FALSE
      OBVIOUS
    <2>1. PICK k \in Bad : \A j \in Bad : k <= j
      BY Least
    <2>2. k \in Nat /\ k <= n /\ ~Ok(k) /\ k # 0
      BY <2>1, <1>8
    <2>3. k - 1 \in Nat /\ k - 1 <= n /\ k \in 1..n
      BY <2>2, <1>6
    <2>4. k - 1 \notin Bad
      BY <2>1, <2>3
    <2>. QED
      BY <2>2, <2>3, <2>4, <1>9
  <1>11. Ok(n)
    BY <1>6, <1>10
  <1>12. PathOk(r) /\ Grown(q, r) /\ \A j \in 1..n : s[j] \in ILClasses => ClassId(s[j]) \in DOMAIN r
    BY <1>5, <1>11 DEF Ok
  <1>13. ASSUME NEW k \in 1..l, m.params[k] \in ILClasses PROVE ClassId(m.params[k]) \in DOMAIN r
    <2>1. k + 1 \in 1..n /\ s[k + 1] = m.params[k]
      BY <1>2, <1>3 DEF n
    <2>. QED
      BY <2>1, <1>12, <1>13
  <1>14. Grown(p, r)
    BY <1>4, <1>12, GrownTwice
  <1>15. ClassId(m.owner) \in DOMAIN r
    BY <1>4, <1>12 DEF Grown
  <1>. QED
    BY <1>2, <1>12, <1>13, <1>14, <1>15

-----------------------------------------------------------------------------
(* Tokens                                                                    *)

\* The chunks of the built-in types.
NativeChunks == {native_type_trees[t] : t \in Primitives}

Token ==
  {"_Z", "_ZTV", "_ZZ", <<"N">>, <<"E">>, <<"P">>, <<"v">>, <<"C1">>, <<"chunk", <<"cctor$">> >>}
    \cup ({"S"} \X Nat) \cup ({"chunk"} \X Seq(STRING)) \cup ({"builtin"} \X NativeChunks)

\* Two sequences that differ in a place that both have differ however they go on.
Clash(s, t) == \E i \in 1..Len(s) : i <= Len(t) /\ s[i] # t[i]

\* They differ, and it does not matter which comes first.
LEMMA ClashDiffers ==
  ASSUME NEW S, NEW s \in Seq(S), NEW t \in Seq(S), Clash(s, t)
  PROVE  s # t /\ Clash(t, s)
  BY DEF Clash

\* However they go on.
LEMMA ClashMore ==
  ASSUME NEW S, NEW s \in Seq(S), NEW t \in Seq(S), NEW u \in Seq(S), NEW v \in Seq(S),
         Clash(s, t)
  PROVE  Clash(s \o u, t \o v)
  <1>1. PICK i \in 1..Len(s) : i <= Len(t) /\ s[i] # t[i]
    BY DEF Clash
  <1>2. Len(s \o u) = Len(s) + Len(u) /\ Len(t \o v) = Len(t) + Len(v)
    OBVIOUS
  <1>3. (s \o u)[i] = s[i] /\ (t \o v)[i] = t[i]
    BY <1>1
  <1>4. i \in 1..Len(s \o u) /\ i <= Len(t \o v)
    BY <1>1, <1>2
  <1>. QED
    BY <1>1, <1>3, <1>4 DEF Clash

\* However they began, if they began alike.
LEMMA ClashAfter ==
  ASSUME NEW S, NEW s \in Seq(S), NEW u \in Seq(S), NEW v \in Seq(S), Clash(u, v)
  PROVE  Clash(s \o u, s \o v)
  <1>1. PICK i \in 1..Len(u) : i <= Len(v) /\ u[i] # v[i]
    BY DEF Clash
  <1> DEFINE j == Len(s) + i
  <1>2. Len(s \o u) = Len(s) + Len(u) /\ Len(s \o v) = Len(s) + Len(v)
    OBVIOUS
  <1>3. (s \o u)[j] = u[i] /\ (s \o v)[j] = v[i]
    BY <1>1
  <1>4. j \in 1..Len(s \o u) /\ j <= Len(s \o v)
    BY <1>1, <1>2
  <1>. QED
    BY <1>1, <1>3, <1>4 DEF Clash

\* Where NODE is on the stack: nowhere, or at a place where it is found.
LEMMA CompressionId ==
  ASSUME NEW stack, NEW node
  PROVE  /\ get_compression_id(stack, node) \in Nat
         /\ get_compression_id(stack, node) > 0 => stack[get_compression_id(stack, node)] = node
  <1> DEFINE I == {i \in 1..Len(stack) : stack[i] = node}
  <1>1. get_compression_id(stack, node) = IF I # {} THEN Min(I) ELSE 0
    BY DEF get_compression_id, SelectInSeq
  <1>2. CASE I = {}
    BY <1>1, <1>2
  <1>3. CASE I # {}
    <2>1. I \subseteq Nat
      OBVIOUS
    <2>2. PICK x \in I : \A y \in I : x <= y
      BY <1>3, <2>1, Least
    <2>3. Min(I) \in I
      BY <2>2 DEF Min
    <2> DEFINE j == Min(I)
    <2>4. j \in Nat /\ stack[j] = node
      BY <2>1, <2>3
    <2>. QED
      BY <2>4, <1>1, <1>3
  <1>. QED
    BY <1>2, <1>3

\* Nothing is on an empty stack.
LEMMA NothingKnown ==
  ASSUME NEW node
  PROVE  get_compression_id(<<>>, node) = 0
  <1>1. 1..Len(<<>>) = {}
    OBVIOUS
  <1>. QED
    BY <1>1 DEF get_compression_id, SelectInSeq

\* The innermost of NODES that is on the stack; 0 if none is.
Known(stack, nodes) ==
  Max({0} \cup {i \in 1..Len(nodes) : Compressible(nodes[i]) /\ get_compression_id(stack, nodes[i]) > 0})

\* It is a place in NODES, and what is there is on the stack.
LEMMA KnownIs ==
  ASSUME NEW stack, NEW S, NEW nodes \in Seq(S), NEW k, k = Known(stack, nodes)
  PROVE  /\ k \in 0..Len(nodes)
         /\ k > 0 => Compressible(nodes[k]) /\ get_compression_id(stack, nodes[k]) > 0
  <1> DEFINE n == Len(nodes)
             A == {i \in 1..n : Compressible(nodes[i]) /\ get_compression_id(stack, nodes[i]) > 0}
             B == {0} \cup A
  <1>1. n \in Nat /\ A \subseteq 1..n
    OBVIOUS
  <1>2. B \subseteq Nat /\ B # {} /\ \A y \in B : y <= n
    BY <1>1
  <1>3. Max(B) \in B
    BY <1>1, <1>2, MaxIs
  <1>4. k \in B
    BY <1>3 DEF Known
  <1>. QED
    BY <1>1, <1>4

\* What is written for NODES.
Tokens(stack, nodes, chunks) ==
  LET n == Len(nodes)
      k == Known(stack, nodes)
      start == IF k = 0 THEN <<>> ELSE <<<<"S", get_compression_id(stack, nodes[k])>>>>
      rest == SubSeq(chunks, k + 1, n)
  IN  IF k = n THEN start
      ELSE IF n = 1 THEN rest
      ELSE <<<<"N">>>> \o start \o rest \o <<<<"E">>>>

\* write_chunk_or_compression writes them.
LEMMA WritesTokens ==
  ASSUME NEW w, NEW nodes, NEW chunks
  PROVE  write_chunk_or_compression(w, nodes, chunks).out = w.out \o Tokens(w.stack, nodes, chunks)
  BY DEF write_chunk_or_compression, Tokens, Known

-----------------------------------------------------------------------------
(* Rows of chunks                                                            *)

\* What follows the first K chunks of a row, after PRE and up to the end mark.
Row(pre, ch, k) == (pre \o SubSeq(ch, k + 1, Len(ch))) \o <<<<"E">>>>

\* What is where in a row.
LEMMA RowAt ==
  ASSUME NEW pre \in Seq(Token), NEW ch \in Seq(Token), NEW k \in 0..Len(ch)
  PROVE  /\ Row(pre, ch, k) \in Seq(Token)
         /\ Len(Row(pre, ch, k)) = Len(pre) + (Len(ch) - k) + 1
         /\ \A i \in 1..Len(pre) : Row(pre, ch, k)[i] = pre[i]
         /\ \A i \in 1..(Len(ch) - k) : Row(pre, ch, k)[Len(pre) + i] = ch[k + i]
         /\ Row(pre, ch, k)[Len(pre) + (Len(ch) - k) + 1] = <<"E">>
  <1> DEFINE u == SubSeq(ch, k + 1, Len(ch))
             a == Len(pre)
             m == Len(ch) - k
             e == <<<<"E">>>>
             s == pre \o u
             r == s \o e
  <1>1. a \in Nat /\ m \in Nat
    OBVIOUS
  <1>2. u \in Seq(Token) /\ Len(u) = m /\ \A i \in 1..m : u[i] = ch[k + i]
    <2> HIDE DEF m
    <2>1. Len(ch) = k + m /\ k \in Nat
      BY DEF m
    <2>2. \A i \in (k + 1)..Len(ch) : ch[i] \in Token
      BY <2>1
    <2>3. /\ u \in Seq(Token) /\ Len(u) = (IF k + 1 <= Len(ch) THEN Len(ch) - (k + 1) + 1 ELSE 0)
          /\ \A i \in 1..(Len(ch) - (k + 1) + 1) : u[i] = ch[(k + 1) + i - 1]
      BY <2>2, SubSeqProperties
    <2>4. /\ (IF k + 1 <= Len(ch) THEN Len(ch) - (k + 1) + 1 ELSE 0) = m
          /\ Len(ch) - (k + 1) + 1 = m
          /\ \A i \in 1..m : (k + 1) + i - 1 = k + i
      BY <1>1, <2>1
    <2>. QED
      BY <2>3, <2>4
  <1>3. <<"E">> \in Token
    BY DEF Token
  <1>4. e \in Seq(Token) /\ Len(e) = 1 /\ e[1] = <<"E">>
    BY <1>3
  <1> HIDE DEF u, e
  <1>5. s \in Seq(Token) /\ Len(s) = a + m
        /\ \A i \in 1..(a + m) : s[i] = IF i <= a THEN pre[i] ELSE u[i - a]
    <2>1. /\ s \in Seq(Token) /\ Len(s) = Len(pre) + Len(u)
          /\ \A i \in 1..(Len(pre) + Len(u)) : s[i] = IF i <= Len(pre) THEN pre[i] ELSE u[i - Len(pre)]
      BY <1>2, ConcatProperties
    <2>. QED
      BY <2>1, <1>2
  <1> HIDE DEF s
  <1>6. r \in Seq(Token) /\ Len(r) = a + m + 1
        /\ \A i \in 1..(a + m + 1) : r[i] = IF i <= a + m THEN s[i] ELSE e[i - (a + m)]
    <2>1. /\ r \in Seq(Token) /\ Len(r) = Len(s) + Len(e)
          /\ \A i \in 1..(Len(s) + Len(e)) : r[i] = IF i <= Len(s) THEN s[i] ELSE e[i - Len(s)]
      <3>1. s \in Seq(Token) /\ e \in Seq(Token)
        BY <1>4, <1>5
      <3>. QED
        BY ONLY <3>1, ConcatProperties
    <2>. QED
      BY <2>1, <1>4, <1>5
  <1> HIDE DEF r, a, m
  <1>7. \A i \in 1..a : r[i] = pre[i]
    BY <1>1, <1>5, <1>6
  <1>8. \A i \in 1..m : r[a + i] = ch[k + i]
    <2> SUFFICES ASSUME NEW i \in 1..m PROVE r[a + i] = ch[k + i]
      OBVIOUS
    <2>1. a + i \in 1..(a + m) /\ a + i \in 1..(a + m + 1) /\ a + i <= a + m /\ ~(a + i <= a) /\ (a + i) - a = i
      BY <1>1
    <2>2. r[a + i] = s[a + i]
      BY <2>1, <1>6
    <2>3. s[a + i] = u[i]
      BY <2>1, <1>5
    <2>. QED
      BY <2>2, <2>3, <1>2
  <1>9. r[a + m + 1] = <<"E">>
    <2>1. a + m + 1 \in 1..(a + m + 1) /\ ~(a + m + 1 <= a + m) /\ (a + m + 1) - (a + m) = 1
      BY <1>1
    <2>. QED
      BY <2>1, <1>4, <1>6
  <1>10. r = Row(pre, ch, k)
    BY DEF r, s, u, e, Row
  <1>. QED
    BY <1>6, <1>7, <1>8, <1>9, <1>10 DEF a, m

\* Rows that begin alike and are different clash: a chunk is no end mark.
LEMMA RowsClash ==
  ASSUME NEW pre \in Seq(Token), NEW ch \in Seq(Token), NEW dh \in Seq(Token), ch # dh,
         NEW k \in Nat, k < Len(ch), k < Len(dh), \A i \in 1..k : ch[i] = dh[i],
         \A i \in 1..Len(ch) : ch[i] # <<"E">>, \A i \in 1..Len(dh) : dh[i] # <<"E">>
  PROVE  Clash(Row(pre, ch, k), Row(pre, dh, k))
  <1> DEFINE a == Len(pre)
             m == Len(ch) - k
             n == Len(dh) - k
             r == Row(pre, ch, k)
             q == Row(pre, dh, k)
  <1>1. a \in Nat /\ m \in Nat /\ n \in Nat /\ Len(ch) = k + m /\ Len(dh) = k + n
    OBVIOUS
  <1>2. Len(r) = a + m + 1 /\ (\A i \in 1..m : r[a + i] = ch[k + i]) /\ r[a + m + 1] = <<"E">>
    <2>1. pre \in Seq(Token) /\ ch \in Seq(Token) /\ k \in 0..Len(ch)
      BY <1>1
    <2>. QED
      BY ONLY <2>1, RowAt
  <1>3. Len(q) = a + n + 1 /\ (\A i \in 1..n : q[a + i] = dh[k + i]) /\ q[a + n + 1] = <<"E">>
    <2>1. pre \in Seq(Token) /\ dh \in Seq(Token) /\ k \in 0..Len(dh)
      BY <1>1
    <2>. QED
      BY ONLY <2>1, RowAt
  <1> HIDE DEF a, m, n, r, q
  <1>4. CASE m = n
    <2>1. PICK i \in 1..Len(ch) : ch[i] # dh[i]
      BY <1>1, <1>4, SeqEqual
    <2> DEFINE j == i - k
    <2>2. j \in 1..m /\ k + j = i
      BY <2>1, <1>1
    <2>3. r[a + j] = ch[i] /\ q[a + j] = dh[i]
      BY <1>2, <1>3, <1>4, <2>2
    <2>4. a + j \in 1..Len(r) /\ a + j <= Len(q)
      BY <1>1, <1>2, <1>3, <1>4, <2>2
    <2>. QED
      BY <2>1, <2>3, <2>4 DEF Clash, r, q
  <1>5. CASE m < n
    <2>1. m + 1 \in 1..n /\ k + (m + 1) \in 1..Len(dh) /\ a + (m + 1) = a + m + 1
      BY <1>1, <1>5
    <2>2. q[a + m + 1] = dh[k + (m + 1)]
      BY <2>1, <1>3
    <2>3. q[a + m + 1] # <<"E">>
      BY <2>1, <2>2
    <2>4. a + m + 1 \in 1..Len(r) /\ a + m + 1 <= Len(q)
      BY <1>1, <1>2, <1>3, <1>5
    <2>. QED
      BY <1>2, <2>3, <2>4 DEF Clash, r, q
  <1>6. CASE n < m
    <2>1. n + 1 \in 1..m /\ k + (n + 1) \in 1..Len(ch) /\ a + (n + 1) = a + n + 1
      BY <1>1, <1>6
    <2>2. r[a + n + 1] = ch[k + (n + 1)]
      BY <2>1, <1>2
    <2>3. r[a + n + 1] # <<"E">>
      BY <2>1, <2>2
    <2>4. a + n + 1 \in 1..Len(r) /\ a + n + 1 <= Len(q)
      BY <1>1, <1>2, <1>3, <1>6
    <2>. QED
      BY <1>3, <2>3, <2>4 DEF Clash, r, q
  <1>. QED
    BY <1>1, <1>4, <1>5, <1>6

-----------------------------------------------------------------------------
(* What is written for a class and for a built-in type                       *)

\* The last member of a sequence.
LEMMA LastOfAppend ==
  ASSUME NEW S, NEW a \in Seq(S), NEW s \in S
  PROVE  Last(Append(a, s)) = s
  BY DEF Last

\* A class and its containers, as a sequence.
LEMMA RequestedSeq ==
  ASSUME NEW c \in ILClasses, NEW r, r = Requested[c]
  PROVE  /\ ContainerChain(r) /\ r \in Seq(Seq(STRING))
         /\ Len(r) \in Nat /\ Len(r) >= 2 /\ DOMAIN r = 1..Len(r)
  <1>1. ContainerChain(r) /\ Len(r) >= 2
    BY RequestedChain
  <1>2. r \in Seq(Seq(STRING))
    BY <1>1 DEF ContainerChain
  <1>3. Len(r) \in Nat /\ DOMAIN r = 1..Len(r)
    BY ONLY <1>2, LenProperties
  <1>. QED
    BY <1>1, <1>2, <1>3

\* What is written of the k-th of them.
Part(r, k) == IF k = 1 THEN r[k] ELSE <<Last(r[k])>>

\* The chunks of a class and its containers.
ChunksShape(r, ch) ==
  /\ ch \in Seq(Token) /\ Len(ch) = Len(r)
  /\ \A k \in 1..Len(r) :
       ch[k] = <<"chunk", Part(r, k)>> /\ ch[k][1] = "chunk" /\ ch[k] # <<"E">>

\* Each container gives one chunk, which is not the end of a row.
LEMMA ChunksOf ==
  ASSUME NEW c \in ILClasses, NEW r, r = Requested[c], NEW ch, ch = Chunks(r)
  PROVE  ChunksShape(r, ch)
  <1>1. ContainerChain(r) /\ Len(r) \in Nat /\ DOMAIN r = 1..Len(r)
    BY RequestedSeq
  <1>2. ASSUME NEW k \in 1..Len(r)
        PROVE  /\ ch[k] = <<"chunk", Part(r, k)>>
               /\ ch[k] \in Token /\ ch[k][1] = "chunk" /\ ch[k] # <<"E">>
    <2>1. r[k] \in Seq(STRING) /\ r[k] # <<>> /\ r[k][1] # "builtin"
      BY <1>1 DEF ContainerChain
    <2>2. Last(r[k]) \in STRING
      BY <2>1 DEF Last
    <2> DEFINE x == Part(r, k)
    <2>3. x \in Seq(STRING)
      <3>1. <<Last(r[k])>> \in Seq(STRING)
        BY <2>2
      <3>. QED
        BY <2>1, <3>1 DEF Part
    <2>4. ch[k] = <<"chunk", x>>
      BY <1>1, <2>1 DEF Chunks, Chunk, Part
    <2> HIDE DEF x
    <2>5. ch[k] \in Token
      BY <2>3, <2>4 DEF Token
    <2>6. ch[k][1] = "chunk" /\ <<"E">>[1] = "E"
      BY <2>4
    <2>7. ch[k] # <<"E">>
      BY <2>6
    <2>. QED
      BY <2>4, <2>5, <2>6, <2>7 DEF x
  <1>3. ch = [k \in 1..Len(r) |-> Chunk(r, k)]
    BY <1>1 DEF Chunks
  <1>4. ch \in [1..Len(r) -> Token]
    BY <1>2, <1>3
  <1>5. ch \in Seq(Token) /\ Len(ch) = Len(r)
    BY <1>1, <1>4
  <1>. QED
    BY <1>2, <1>5 DEF ChunksShape

\* Chunks tell classes apart: the part that each adds to its container's
\* identifier is written.
LEMMA ChunksDiffer ==
  ASSUME NEW c \in ILClasses, NEW d \in ILClasses, Chunks(Requested[c]) = Chunks(Requested[d])
  PROVE  Requested[c] = Requested[d]
  <1> DEFINE r == Requested[c]
             q == Requested[d]
             ch == Chunks(r)
             n == Len(r)
             Bad == {k \in Nat : k \in 1..n /\ r[k] # q[k]}
  <1>1. ContainerChain(r) /\ ContainerChain(q) /\ n \in Nat
    BY RequestedSeq
  <1>2. /\ Len(ch) = n
        /\ \A k \in 1..n : ch[k] = <<"chunk", Part(r, k)>>
    <2>1. c \in ILClasses /\ r = Requested[c] /\ ch = Chunks(r)
      OBVIOUS
    <2> HIDE DEF ch, r, n
    <2>2. /\ Len(ch) = Len(r)
          /\ \A k \in 1..Len(r) : ch[k] = <<"chunk", Part(r, k)>>
      BY ONLY <2>1, ChunksOf DEF ChunksShape
    <2>. QED
      BY <2>2 DEF n
  <1>3. /\ Len(ch) = Len(q)
        /\ \A k \in 1..Len(q) : ch[k] = <<"chunk", Part(q, k)>>
    <2>1. d \in ILClasses /\ q = Requested[d] /\ ch = Chunks(q)
      OBVIOUS
    <2> HIDE DEF ch, q
    <2>. QED
      BY ONLY <2>1, ChunksOf DEF ChunksShape
  <1>4. Len(q) = n
    BY <1>2, <1>3
  <1> HIDE DEF r, q, ch, n
  <1>5. ASSUME NEW k \in 1..n, k = 1 \/ r[k - 1] = q[k - 1] PROVE r[k] = q[k]
    <2>1. Part(r, k) = Part(q, k)
      BY <1>2, <1>3, <1>4
    <2>2. CASE k = 1
      BY <2>1, <2>2 DEF Part
    <2>3. CASE k # 1
      <3>1. k - 1 \in 1..(n - 1) /\ (k - 1) + 1 = k /\ k - 1 \in 1..n
        BY <1>1, <2>3
      <3>2. PICK s \in STRING : r[k] = Append(r[k - 1], s)
        BY <3>1, <1>1 DEF ContainerChain, n
      <3>3. PICK t \in STRING : q[k] = Append(q[k - 1], t)
        BY <3>1, <1>1, <1>4 DEF ContainerChain
      <3>4. r[k - 1] \in Seq(STRING)
        BY <3>1, <1>1 DEF ContainerChain, n
      <3>5. r[k - 1] = q[k - 1]
        BY <1>5, <2>3
      <3>6. Last(r[k]) = s /\ Last(q[k]) = t
        <4>1. Last(Append(r[k - 1], s)) = s
          BY ONLY <3>4, s \in STRING, LastOfAppend
        <4>2. Last(Append(r[k - 1], t)) = t
          BY ONLY <3>4, t \in STRING, LastOfAppend
        <4>. QED
          BY <4>1, <4>2, <3>2, <3>3, <3>5
      <3>7. <<s>> = <<t>>
        BY <2>1, <2>3, <3>6 DEF Part
      <3>8. s = t
        BY <3>7
      <3>. QED
        BY <3>2, <3>3, <3>5, <3>8
    <2>. QED
      BY <2>2, <2>3
  <1>6. Bad = {}
    <2> SUFFICES ASSUME Bad # {} PROVE FALSE
      OBVIOUS
    <2>1. PICK k \in Bad : \A j \in Bad : k <= j
      BY Least
    <2>2. k \in 1..n /\ r[k] # q[k]
      BY <2>1
    <2>3. k # 1 => k - 1 \in Nat /\ k - 1 \in 1..n /\ k - 1 \notin Bad
      BY <2>1, <1>1
    <2>. QED
      BY <2>2, <2>3, <1>5
  <1>7. r \in Seq(Seq(STRING)) /\ q \in Seq(Seq(STRING))
    BY <1>1 DEF ContainerChain
  <1>8. Len(r) = n
    BY DEF n
  <1>9. \A k \in 1..n : r[k] = q[k]
    BY <1>6
  <1>10. r = q
    BY <1>4, <1>7, <1>8, <1>9, SeqEqual
  <1>. QED
    BY <1>10 DEF r, q

\* The start of a row.
Start(stack, r, k) ==
  <<<<"N">>>> \o (IF k = 0 THEN <<>> ELSE <<<<"S", get_compression_id(stack, r[k])>>>>)

\* A row starts with one token, or two.
LEMMA StartIs ==
  ASSUME NEW stack, NEW r, NEW k
  PROVE  /\ Start(stack, r, k) \in Seq(Token) /\ Start(stack, r, k)[1] = <<"N">>
         /\ k = 0 => Len(Start(stack, r, k)) = 1
         /\ k # 0 => /\ Len(Start(stack, r, k)) = 2
                     /\ Start(stack, r, k)[2] = <<"S", get_compression_id(stack, r[k])>>
  <1> DEFINE j == get_compression_id(stack, r[k])
             x == <<"N">>
             y == <<"S", j>>
  <1>1. j \in Nat
    BY CompressionId
  <1>2. x \in Token /\ y \in Token
    BY <1>1 DEF Token
  <1>3. Start(stack, r, k) = <<x>> \o (IF k = 0 THEN <<>> ELSE <<y>>)
    BY DEF Start
  <1> HIDE DEF x, y
  <1> DEFINE S == Token
  <1> HIDE DEF S
  <1>4. CASE k = 0
    <2>1. <<x>> \o <<>> \in Seq(Token) /\ Len(<<x>> \o <<>>) = 1 /\ (<<x>> \o <<>>)[1] = x
      BY <1>2
    <2>. QED
      BY <2>1, <1>3, <1>4 DEF x
  <1>5. CASE k # 0
    <2>1. /\ <<x>> \o <<y>> \in Seq(Token) /\ Len(<<x>> \o <<y>>) = 2
          /\ (<<x>> \o <<y>>)[1] = x /\ (<<x>> \o <<y>>)[2] = y
      BY <1>2
    <2>. QED
      BY <2>1, <1>3, <1>5 DEF x, y
  <1>. QED
    BY <1>4, <1>5

\* A row is written whole, or stands on the stack.
LEMMA TokensOf ==
  ASSUME NEW stack, NEW S, NEW nodes \in Seq(S), NEW chunks \in Seq(Token),
         Len(chunks) = Len(nodes), Len(nodes) >= 2, NEW k, k = Known(stack, nodes)
  PROVE  Tokens(stack, nodes, chunks) =
           IF k = Len(nodes) THEN <<<<"S", get_compression_id(stack, nodes[k])>>>>
           ELSE Row(Start(stack, nodes, k), chunks, k)
  <1>1. Len(nodes) \in Nat /\ Len(nodes) # 1 /\ Len(nodes) # 0
    OBVIOUS
  <1>. QED
    BY <1>1 DEF Tokens, Row, Start

\* What a class is written as, beginning with the first token.
ClassShape(stack, r, ch, k, T) ==
  /\ T \in Seq(Token) /\ Len(T) >= 1 /\ k \in 0..Len(r)
  /\ k > 0 => get_compression_id(stack, r[k]) > 0
  /\ k = Len(r) => T = <<<<"S", get_compression_id(stack, r[k])>>>>
  /\ k # Len(r) => T = Row(Start(stack, r, k), ch, k) /\ T[1] = <<"N">>

\* What is written for a class: a reference, or a row.
LEMMA ClassTokens ==
  ASSUME NEW stack, NEW c \in ILClasses, NEW r, r = Requested[c], NEW ch, ch = Chunks(r),
         NEW k, k = Known(stack, r), NEW T, T = Tokens(stack, r, ch)
  PROVE  ClassShape(stack, r, ch, k, T)
  <1>1. r \in Seq(Seq(STRING)) /\ Len(r) \in Nat /\ Len(r) >= 2
    BY RequestedSeq
  <1>2. ch \in Seq(Token) /\ Len(ch) = Len(r)
    BY ChunksOf DEF ChunksShape
  <1>3. k \in 0..Len(r) /\ (k > 0 => get_compression_id(stack, r[k]) > 0)
    BY ONLY <1>1, k = Known(stack, r), KnownIs
  <1> DEFINE j == get_compression_id(stack, r[k])
             pre == Start(stack, r, k)
  <1>4. T = IF k = Len(r) THEN <<<<"S", j>>>> ELSE Row(pre, ch, k)
    BY ONLY <1>1, <1>2, k = Known(stack, r), T = Tokens(stack, r, ch), TokensOf
  <1>5. j \in Nat
    BY CompressionId
  <1>6. pre \in Seq(Token) /\ pre[1] = <<"N">> /\ Len(pre) \in Nat /\ Len(pre) >= 1
    BY StartIs
  <1> HIDE DEF j, pre
  <1>7. CASE k = Len(r)
    <2> DEFINE x == <<"S", j>>
    <2>1. x \in Token /\ T = <<x>>
      BY <1>4, <1>5, <1>7 DEF Token
    <2> HIDE DEF x
    <2>2. T \in Seq(Token) /\ Len(T) >= 1
      BY <2>1
    <2>. QED
      BY <2>1, <2>2, <1>3, <1>7 DEF ClassShape, j, x
  <1>8. CASE k # Len(r)
    <2>1. T = Row(pre, ch, k)
      BY <1>4, <1>8
    <2>2. k \in 0..Len(ch)
      BY <1>2, <1>3
    <2>3. /\ T \in Seq(Token) /\ Len(T) = Len(pre) + (Len(ch) - k) + 1
          /\ \A i \in 1..Len(pre) : T[i] = pre[i]
      BY ONLY <2>1, <2>2, <1>2, <1>6, RowAt
    <2>4. Len(T) >= 1 /\ T[1] = <<"N">>
      <3>1. Len(T) >= 1
        BY <2>2, <2>3, <1>1, <1>2, <1>6
      <3>2. 1 \in 1..Len(pre)
        BY <1>6
      <3>. QED
        BY <3>1, <3>2, <2>3, <1>6
    <2>. QED
      BY <2>1, <2>3, <2>4, <1>3, <1>8 DEF ClassShape, j, pre
  <1>. QED
    BY <1>7, <1>8

\* Rows of two classes that begin alike: after the same containers, the chunks
\* differ, or one row ends.
LEMMA ClassRowsClash ==
  ASSUME NEW c \in ILClasses, NEW d \in ILClasses, NEW r, r = Requested[c], NEW q, q = Requested[d],
         r # q, NEW pre \in Seq(Token), NEW k \in Nat, k < Len(r), k < Len(q),
         k > 0 => r[k] = q[k]
  PROVE  Clash(Row(pre, Chunks(r), k), Row(pre, Chunks(q), k))
  <1> DEFINE ch == Chunks(r)
             dh == Chunks(q)
  <1>1. /\ ch \in Seq(Token) /\ Len(ch) = Len(r)
        /\ \A i \in 1..Len(r) : ch[i] = <<"chunk", Part(r, i)>> /\ ch[i] # <<"E">>
    <2>1. c \in ILClasses /\ r = Requested[c] /\ ch = Chunks(r)
      OBVIOUS
    <2> HIDE DEF ch
    <2>2. ChunksShape(r, ch)
      BY ONLY <2>1, ChunksOf
    <2>. QED
      BY ONLY <2>2 DEF ChunksShape
  <1>2. /\ dh \in Seq(Token) /\ Len(dh) = Len(q)
        /\ \A i \in 1..Len(q) : dh[i] = <<"chunk", Part(q, i)>> /\ dh[i] # <<"E">>
    <2>1. d \in ILClasses /\ q = Requested[d] /\ dh = Chunks(q)
      OBVIOUS
    <2> HIDE DEF dh
    <2>2. ChunksShape(q, dh)
      BY ONLY <2>1, ChunksOf
    <2>. QED
      BY ONLY <2>2 DEF ChunksShape
  <1>3. ch # dh
    BY ChunksDiffer
  <1>4. Len(r) \in Nat /\ Len(q) \in Nat
    BY RequestedSeq
  <1> HIDE DEF ch, dh
  <1>5. ASSUME NEW i \in 1..k PROVE ch[i] = dh[i]
    <2>1. k > 0 /\ k \in 1..Len(r) /\ k \in 1..Len(q) /\ i \in 1..Len(r) /\ i \in 1..Len(q)
      BY <1>4
    <2>2. r[i] = q[i]
      BY <2>1, RequestedUnique
    <2>3. Part(r, i) = Part(q, i)
      BY <2>2 DEF Part
    <2>. QED
      BY <2>1, <2>3, <1>1, <1>2
  <1>6. Clash(Row(pre, ch, k), Row(pre, dh, k))
    <2>1. pre \in Seq(Token) /\ k \in Nat /\ k < Len(ch) /\ k < Len(dh)
      BY <1>1, <1>2
    <2>2. \A i \in 1..k : ch[i] = dh[i]
      BY <1>5
    <2>3. (\A i \in 1..Len(ch) : ch[i] # <<"E">>) /\ \A i \in 1..Len(dh) : dh[i] # <<"E">>
      BY <1>1, <1>2
    <2>4. ch \in Seq(Token) /\ dh \in Seq(Token)
      BY <1>1, <1>2
    <2>. QED
      BY ONLY <2>1, <2>2, <2>3, <2>4, <1>3, RowsClash
  <1>. QED
    BY <1>6 DEF ch, dh

\* Sequences that differ in their first or second token.
LEMMA ClashAtOne ==
  ASSUME NEW S, NEW s \in Seq(S), NEW t \in Seq(S), NEW i \in 1..2,
         Len(s) >= i, Len(t) >= i, s[i] # t[i]
  PROVE  Clash(s, t)
  BY DEF Clash

\* The second token of a row: the containers that are known, or the first chunk.
SecondShape(stack, r, k, T) ==
  /\ Len(T) >= 2
  /\ k = 0 => T[2][1] = "chunk"
  /\ k > 0 => T[2] = <<"S", get_compression_id(stack, r[k])>>

\* For a row, that is.
LEMMA SecondToken ==
  ASSUME NEW stack, NEW c \in ILClasses, NEW r, r = Requested[c],
         NEW k, k = Known(stack, r), k # Len(r), NEW T, T = Tokens(stack, r, Chunks(r))
  PROVE  SecondShape(stack, r, k, T)
  <1> DEFINE ch == Chunks(r)
             pre == Start(stack, r, k)
             a == Len(pre)
  <1>1. Len(r) \in Nat
    BY RequestedSeq
  <1>2. ch \in Seq(Token) /\ Len(ch) = Len(r) /\ \A i \in 1..Len(r) : ch[i][1] = "chunk"
    BY ChunksOf DEF ChunksShape
  <1>3. k \in 0..Len(r) /\ T = Row(pre, ch, k)
    <2>1. /\ c \in ILClasses /\ r = Requested[c] /\ ch = Chunks(r)
          /\ k = Known(stack, r) /\ T = Tokens(stack, r, ch) /\ k # Len(r)
      OBVIOUS
    <2> HIDE DEF ch
    <2>2. ClassShape(stack, r, ch, k, T)
      BY ONLY <2>1, ClassTokens
    <2>. QED
      BY ONLY <2>1, <2>2 DEF ClassShape
  <1>4. /\ pre \in Seq(Token) /\ (k = 0 => a = 1)
        /\ (k # 0 => a = 2 /\ pre[2] = <<"S", get_compression_id(stack, r[k])>>)
    BY StartIs
  <1> HIDE DEF ch, pre
  <1>5. k \in 0..Len(ch) /\ k < Len(ch)
    BY <1>1, <1>2, <1>3
  <1>6. /\ Len(T) = a + (Len(ch) - k) + 1
        /\ \A i \in 1..a : T[i] = pre[i]
        /\ \A i \in 1..(Len(ch) - k) : T[a + i] = ch[k + i]
    BY ONLY <1>2, <1>3, <1>4, <1>5, RowAt
  <1> HIDE DEF a
  <1>7. CASE k = 0
    <2>1. a = 1 /\ Len(ch) \in Nat /\ Len(ch) > 0 /\ Len(ch) - k = Len(ch)
      BY <1>1, <1>2, <1>4, <1>5, <1>7
    <2>2. 1 \in 1..(Len(ch) - k) /\ a + 1 = 2 /\ k + 1 = 1 /\ 1 \in 1..Len(r)
      BY <2>1, <1>2, <1>7
    <2>3. T[2] = ch[1]
      BY <2>2, <1>6
    <2>. QED
      BY <2>1, <2>2, <2>3, <1>2, <1>6, <1>7 DEF SecondShape
  <1>8. CASE k # 0
    <2>1. a = 2 /\ T[2] = pre[2]
      BY <1>4, <1>6, <1>8
    <2>2. Len(T) >= 2
      BY <2>1, <1>1, <1>2, <1>5, <1>6
    <2>. QED
      BY <2>1, <2>2, <1>4, <1>8 DEF SecondShape
  <1>. QED
    BY <1>7, <1>8

\* Two classes are never written alike, nor one as the beginning of the other,
\* whatever is compressed.
LEMMA ClassesClash ==
  ASSUME NEW stack, NEW c \in ILClasses, NEW d \in ILClasses, NEW r, r = Requested[c],
         NEW q, q = Requested[d], ClassId(c) # ClassId(d)
  PROVE  Clash(Tokens(stack, r, Chunks(r)), Tokens(stack, q, Chunks(q)))
  <1> DEFINE k == Known(stack, r)
             l == Known(stack, q)
             T == Tokens(stack, r, Chunks(r))
             U == Tokens(stack, q, Chunks(q))
             i == get_compression_id(stack, r[k])
             j == get_compression_id(stack, q[l])
  <1>1. r # q /\ Len(r) \in Nat /\ Len(q) \in Nat /\ r[Len(r)] # q[Len(q)]
    BY RequestedSeq DEF ClassId, Last
  <1>2. /\ T \in Seq(Token) /\ Len(T) >= 1 /\ k \in 0..Len(r)
        /\ (k > 0 => i > 0)
        /\ (k = Len(r) => T = <<<<"S", i>>>>)
        /\ (k # Len(r) => T = Row(Start(stack, r, k), Chunks(r), k) /\ T[1] = <<"N">>)
    <2> DEFINE ch == Chunks(r)
    <2>1. /\ c \in ILClasses /\ r = Requested[c] /\ ch = Chunks(r)
          /\ k = Known(stack, r) /\ T = Tokens(stack, r, ch)
      OBVIOUS
    <2> HIDE DEF ch, k, T
    <2>2. ClassShape(stack, r, ch, k, T)
      BY ONLY <2>1, ClassTokens
    <2>. QED
      BY ONLY <2>1, <2>2 DEF ClassShape
  <1>3. /\ U \in Seq(Token) /\ Len(U) >= 1 /\ l \in 0..Len(q)
        /\ (l > 0 => j > 0)
        /\ (l = Len(q) => U = <<<<"S", j>>>>)
        /\ (l # Len(q) => U = Row(Start(stack, q, l), Chunks(q), l) /\ U[1] = <<"N">>)
    <2> DEFINE dh == Chunks(q)
    <2>1. /\ d \in ILClasses /\ q = Requested[d] /\ dh = Chunks(q)
          /\ l = Known(stack, q) /\ U = Tokens(stack, q, dh)
      OBVIOUS
    <2> HIDE DEF dh, l, U
    <2>2. ClassShape(stack, q, dh, l, U)
      BY ONLY <2>1, ClassTokens
    <2>. QED
      BY ONLY <2>1, <2>2 DEF ClassShape
  <1>4. k # Len(r) => /\ Len(T) >= 2 /\ (k = 0 => T[2][1] = "chunk")
                      /\ (k > 0 => T[2] = <<"S", i>>)
    <2>1. /\ c \in ILClasses /\ r = Requested[c]
          /\ k = Known(stack, r) /\ T = Tokens(stack, r, Chunks(r))
      OBVIOUS
    <2> HIDE DEF k, T
    <2>2. k # Len(r) => SecondShape(stack, r, k, T)
      BY ONLY <2>1, SecondToken
    <2>. QED
      BY ONLY <2>2 DEF SecondShape
  <1>5. l # Len(q) => /\ Len(U) >= 2 /\ (l = 0 => U[2][1] = "chunk")
                      /\ (l > 0 => U[2] = <<"S", j>>)
    <2>1. /\ d \in ILClasses /\ q = Requested[d]
          /\ l = Known(stack, q) /\ U = Tokens(stack, q, Chunks(q))
      OBVIOUS
    <2> HIDE DEF l, U
    <2>2. l # Len(q) => SecondShape(stack, q, l, U)
      BY ONLY <2>1, SecondToken
    <2>. QED
      BY ONLY <2>2 DEF SecondShape
  <1>6. /\ i \in Nat /\ (i > 0 => stack[i] = r[k])
        /\ j \in Nat /\ (j > 0 => stack[j] = q[l])
    BY CompressionId
  <1>7. <<"S", i>>[1] = "S" /\ <<"S", j>>[1] = "S" /\ <<"N">>[1] = "N"
    OBVIOUS
  <1>8. <<"S", i>> = <<"S", j>> => i = j
    OBVIOUS
  <1>9. \A x, y : T = <<x>> => T[1] = x /\ (U = <<y>> => U[1] = y)
    OBVIOUS
  <1>10. (k = Len(r) => T[1] = <<"S", i>>) /\ (l = Len(q) => U[1] = <<"S", j>>)
    BY <1>2, <1>3
  <1> HIDE DEF k, l, T, U, i, j
  <1>11. CASE k = Len(r) /\ l = Len(q)
    <2>1. k > 0 /\ l > 0
      BY <1>11, RequestedSeq
    <2>2. i # j
      BY <2>1, <1>1, <1>2, <1>3, <1>6, <1>11
    <2>3. T[1] # U[1]
      BY <2>2, <1>8, <1>10, <1>11
    <2>. QED
      BY <2>3, <1>2, <1>3, ClashAtOne DEF T, U
  <1>12. CASE k = Len(r) /\ l # Len(q)
    <2>3. T[1] # U[1]
      BY <1>3, <1>7, <1>10, <1>12
    <2>. QED
      BY <2>3, <1>2, <1>3, ClashAtOne DEF T, U
  <1>13. CASE k # Len(r) /\ l = Len(q)
    <2>3. T[1] # U[1]
      BY <1>2, <1>7, <1>10, <1>13
    <2>. QED
      BY <2>3, <1>2, <1>3, ClashAtOne DEF T, U
  <1>14. CASE k # Len(r) /\ l # Len(q) /\ T[2] # U[2]
    BY <1>2, <1>3, <1>4, <1>5, <1>14, ClashAtOne DEF T, U
  <1>15. CASE k # Len(r) /\ l # Len(q) /\ T[2] = U[2]
    <2>1. (k = 0 /\ l = 0) \/ (k > 0 /\ l > 0 /\ i = j)
      <3>1. k \in Nat /\ l \in Nat
        BY <1>2, <1>3
      <3>. QED
        BY <3>1, <1>4, <1>5, <1>7, <1>8, <1>15
    <2>2. k > 0 => r[k] = q[l]
      BY <2>1, <1>2, <1>3, <1>6
    <2>3. k = l
      <3>1. ASSUME k > 0 PROVE k = l
        <4>1. k \in 1..Len(r) /\ l \in 1..Len(q) /\ r[k] = q[l]
          BY <2>1, <2>2, <3>1, <1>1, <1>2, <1>3
        <4>. QED
          BY <4>1, RequestedUnique
      <3>. QED
        BY <3>1, <2>1
    <2>4. Start(stack, r, k) = Start(stack, q, l)
      BY <2>1, <2>3 DEF Start, i, j
    <2> DEFINE pre == Start(stack, r, k)
    <2>5. pre \in Seq(Token)
      BY StartIs
    <2>6. k \in Nat /\ k < Len(r) /\ k < Len(q)
      BY <1>1, <1>2, <1>3, <1>15, <2>3
    <2>7. T = Row(pre, Chunks(r), k) /\ U = Row(pre, Chunks(q), k)
      BY <1>2, <1>3, <1>15, <2>3, <2>4
    <2> HIDE DEF pre
    <2>8. Clash(Row(pre, Chunks(r), k), Row(pre, Chunks(q), k))
      BY <2>2, <2>3, <2>5, <2>6, <1>1, ClassRowsClash
    <2>. QED
      BY <2>7, <2>8 DEF T, U
  <1>. QED
    BY <1>11, <1>12, <1>13, <1>14, <1>15

-----------------------------------------------------------------------------
(* Types                                                                     *)

\* A type whose class, if it is one, is registered.
TypeKnown(p, t) ==
  \E b \in BOOLEAN :
    \/ \E ch \in NativeChunks : t = [pointer |-> b, node |-> Builtin(ch)]
    \/ \E c \in ILClasses : ClassId(c) \in DOMAIN p /\ t = [pointer |-> b, node |-> ClassId(c)]

\* What is written for the node of a type, and for the type.
Nodes(p, t) == IF Compressible(t.node) THEN p[t.node] ELSE <<t.node>>
NodeTokens(stack, p, t) == Tokens(stack, Nodes(p, t), Chunks(Nodes(p, t)))
Pointer(t) == IF t.pointer THEN <<<<"P">>>> ELSE <<>>
TypeTokens(stack, p, t) == Pointer(t) \o NodeTokens(stack, p, t)

IsWriter(w) == w.out \in Seq(Token) /\ w = [out |-> w.out, stack |-> w.stack]

\* A registered class is found with the containers it asked for.
LEMMA ClassNodes ==
  ASSUME NEW p, PathOk(p), NEW c \in ILClasses, ClassId(c) \in DOMAIN p
  PROVE  /\ p[ClassId(c)] = Requested[c] /\ Compressible(ClassId(c))
         /\ ClassId(c) \in Seq(STRING)
  <1> DEFINE r == Requested[c]
             n == Len(r)
  <1>1. ContainerChain(r) /\ r \in Seq(Seq(STRING)) /\ n \in Nat /\ n >= 2
    BY RequestedSeq
  <1>2. ClassId(c) = r[n]
    BY DEF ClassId, Last
  <1>3. n \in 1..Len(Requested[c])
    BY <1>1
  <1>4. p[r[n]] = SubSeq(r, 1, n)
    BY <1>2, <1>3, PathOfRequested
  <1>5. SubSeq(r, 1, n) = r
    BY <1>1, SubSeqFull
  <1>6. r[n] \in Seq(STRING) /\ r[n][1] # "builtin"
    BY <1>1, <1>3 DEF ContainerChain
  <1>. QED
    BY <1>2, <1>4, <1>5, <1>6 DEF Compressible

\* A built-in type is one token.
LEMMA BuiltinTokens ==
  ASSUME NEW stack, NEW p, NEW t, NEW ch \in NativeChunks, t.node = Builtin(ch)
  PROVE  NodeTokens(stack, p, t) = <<<<"builtin", ch>>>>
  <1> DEFINE x == <<"builtin", ch>>
             nodes == <<x>>
             k == Known(stack, nodes)
  <1>1. t.node = x /\ x[1] = "builtin"
    BY DEF Builtin
  <1>2. Nodes(p, t) = nodes
    BY <1>1 DEF Nodes, Compressible
  <1>3. nodes \in Seq({x}) /\ Len(nodes) = 1 /\ nodes[1] = x
    OBVIOUS
  <1> HIDE DEF x
  <1>4. k \in 0..Len(nodes) /\ (k > 0 => Compressible(nodes[k]))
    <2>1. nodes \in Seq({x}) /\ k = Known(stack, nodes)
      BY <1>3
    <2> HIDE DEF k
    <2>. QED
      BY ONLY <2>1, KnownIs
  <1>5. k = 0
    <2>1. k # 1
      BY <1>1, <1>3, <1>4 DEF Compressible
    <2> HIDE DEF k
    <2>. QED
      BY <2>1, <1>3, <1>4
  <1>6. Chunks(nodes) = <<x>>
    <2>1. DOMAIN nodes = 1..1 /\ Chunk(nodes, 1) = x
      BY <1>1, <1>3 DEF Chunk
    <2>. QED
      BY <2>1 DEF Chunks
  <1>7. SubSeq(<<x>>, 1, 1) = <<x>>
    <2>1. SubSeq(nodes, 1, Len(nodes)) = nodes
      <3> HIDE DEF nodes
      <3>. QED
        BY ONLY <1>3, SubSeqFull
    <2>. QED
      BY <2>1, <1>3
  <1>8. Tokens(stack, nodes, <<x>>) = SubSeq(<<x>>, 1, 1)
    BY <1>3, <1>5 DEF Tokens
  <1>9. NodeTokens(stack, p, t) = <<x>>
    BY <1>2, <1>6, <1>7, <1>8 DEF NodeTokens
  <1>. QED
    BY <1>9 DEF x

\* What is written for a node begins neither as a pointer nor as an empty list.
NodeShape(T) ==
  /\ T \in Seq(Token) /\ Len(T) >= 1 /\ T[1] # <<"P">> /\ T[1] # <<"v">>

\* What is written for a node starts like neither a pointer nor an empty list.
LEMMA NodeTokensIs ==
  ASSUME NEW stack, NEW p, PathOk(p), NEW t, TypeKnown(p, t)
  PROVE  NodeShape(NodeTokens(stack, p, t))
  <1> DEFINE T == NodeTokens(stack, p, t)
  <1>0. <<"P">>[1] = "P" /\ <<"v">>[1] = "v"
    OBVIOUS
  <1>1. ASSUME NEW ch \in NativeChunks, t.node = Builtin(ch) PROVE NodeShape(T)
    <2> DEFINE x == <<"builtin", ch>>
    <2>1. T = <<x>>
      BY <1>1, BuiltinTokens
    <2>2. x \in Token /\ x[1] = "builtin"
      BY DEF Token
    <2> HIDE DEF x, T
    <2>3. T \in Seq(Token) /\ Len(T) >= 1 /\ T[1] = x
      BY <2>1, <2>2
    <2>. QED
      BY <2>2, <2>3, <1>0 DEF NodeShape
  <1>2. ASSUME NEW c \in ILClasses, ClassId(c) \in DOMAIN p, t.node = ClassId(c) PROVE NodeShape(T)
    <2> DEFINE r == Requested[c]
               ch == Chunks(r)
               k == Known(stack, r)
               j == get_compression_id(stack, r[k])
    <2>1. Nodes(p, t) = r
      BY <1>2, ClassNodes DEF Nodes
    <2>2. T = Tokens(stack, r, ch)
      BY <2>1 DEF NodeTokens
    <2>3. ClassShape(stack, r, ch, k, T)
      <3>1. c \in ILClasses /\ r = Requested[c] /\ ch = Chunks(r) /\ k = Known(stack, r)
        OBVIOUS
      <3> HIDE DEF r, ch, k, T
      <3>. QED
        BY ONLY <3>1, <2>2, ClassTokens
    <2> HIDE DEF r, ch, k, T
    <2>4. T \in Seq(Token) /\ Len(T) >= 1 /\ (T = <<<<"S", j>>>> \/ T[1] = <<"N">>)
      BY <2>3 DEF ClassShape
    <2> HIDE DEF j
    <2>5. T[1] = <<"S", j>> \/ T[1] = <<"N">>
      BY <2>4
    <2>6. <<"S", j>>[1] = "S" /\ <<"N">>[1] = "N"
      OBVIOUS
    <2>7. T[1] # <<"P">> /\ T[1] # <<"v">>
      BY <2>5, <2>6, <1>0
    <2>. QED
      BY <2>4, <2>7 DEF NodeShape
  <1>. QED
    BY <1>1, <1>2 DEF TypeKnown

\* Two nodes are never written alike, nor one as the beginning of the other.
LEMMA NodesClash ==
  ASSUME NEW stack, NEW p, PathOk(p), NEW t, TypeKnown(p, t), NEW u, TypeKnown(p, u),
         t.node # u.node
  PROVE  Clash(NodeTokens(stack, p, t), NodeTokens(stack, p, u))
  <1> DEFINE T == NodeTokens(stack, p, t)
             U == NodeTokens(stack, p, u)
  <1>1. T \in Seq(Token) /\ Len(T) >= 1 /\ U \in Seq(Token) /\ Len(U) >= 1
    BY NodeTokensIs DEF NodeShape
  <1>2. (\E ch \in NativeChunks : t.node = Builtin(ch))
        \/ \E c \in ILClasses : ClassId(c) \in DOMAIN p /\ t.node = ClassId(c)
    BY DEF TypeKnown
  <1>3. (\E ch \in NativeChunks : u.node = Builtin(ch))
        \/ \E c \in ILClasses : ClassId(c) \in DOMAIN p /\ u.node = ClassId(c)
    BY DEF TypeKnown
  <1>4. ASSUME NEW v, NEW ch \in NativeChunks, v.node = Builtin(ch)
        PROVE  NodeTokens(stack, p, v)[1] = v.node /\ v.node[1] = "builtin"
    <2>1. NodeTokens(stack, p, v) = <<<<"builtin", ch>>>>
      BY <1>4, BuiltinTokens
    <2>. QED
      BY <2>1, <1>4 DEF Builtin
  <1>5. ASSUME NEW v, NEW c \in ILClasses, ClassId(c) \in DOMAIN p, v.node = ClassId(c)
        PROVE  /\ NodeTokens(stack, p, v) = Tokens(stack, Requested[c], Chunks(Requested[c]))
               /\ NodeTokens(stack, p, v)[1][1] # "builtin"
    <2> DEFINE r == Requested[c]
               ch == Chunks(r)
               k == Known(stack, r)
               j == get_compression_id(stack, r[k])
               V == NodeTokens(stack, p, v)
    <2>1. Nodes(p, v) = r
      BY <1>5, ClassNodes DEF Nodes
    <2>2. V = Tokens(stack, r, ch)
      BY <2>1 DEF NodeTokens
    <2>3. ClassShape(stack, r, ch, k, V)
      <3>1. c \in ILClasses /\ r = Requested[c] /\ ch = Chunks(r) /\ k = Known(stack, r)
        OBVIOUS
      <3> HIDE DEF r, ch, k, V
      <3>. QED
        BY ONLY <3>1, <2>2, ClassTokens
    <2>4. V = <<<<"S", j>>>> \/ V[1] = <<"N">>
      <3> HIDE DEF r, ch, k, V
      <3>. QED
        BY <2>3 DEF ClassShape
    <2>5. V[1][1] # "builtin"
      <3> HIDE DEF j, V
      <3>1. V[1] = <<"S", j>> \/ V[1] = <<"N">>
        BY <2>4
      <3>2. <<"S", j>>[1] = "S" /\ <<"N">>[1] = "N"
        OBVIOUS
      <3>. QED
        BY <3>1, <3>2
    <2>. QED
      BY <2>2, <2>5
  <1>6. CASE T[1] # U[1]
    <2>. HIDE DEF T, U
    <2>1. Clash(T, U)
      BY <1>1, <1>6, ClashAtOne
    <2>. QED
      BY <2>1 DEF T, U
  <1>7. CASE T[1] = U[1]
    <2>1. (\E ch \in NativeChunks : t.node = Builtin(ch)) => FALSE
      BY <1>3, <1>4, <1>5, <1>7
    <2>2. (\E ch \in NativeChunks : u.node = Builtin(ch)) => FALSE
      BY <1>2, <1>4, <1>5, <1>7
    <2>3. PICK c \in ILClasses : ClassId(c) \in DOMAIN p /\ t.node = ClassId(c)
      BY <2>1, <1>2
    <2>4. PICK d \in ILClasses : ClassId(d) \in DOMAIN p /\ u.node = ClassId(d)
      BY <2>2, <1>3
    <2>5. ClassId(c) # ClassId(d)
      BY <2>3, <2>4
    <2>6. /\ T = Tokens(stack, Requested[c], Chunks(Requested[c]))
          /\ U = Tokens(stack, Requested[d], Chunks(Requested[d]))
      BY <2>3, <2>4, <1>5
    <2>7. Clash(Tokens(stack, Requested[c], Chunks(Requested[c])),
                Tokens(stack, Requested[d], Chunks(Requested[d])))
      BY <2>5, ClassesClash
    <2>. QED
      BY <2>6, <2>7
  <1>. QED
    BY <1>6, <1>7

\* What is written for a type.
TypeShape(T) == T \in Seq(Token) /\ Len(T) >= 1 /\ T[1] # <<"v">>

\* A pointer is written as one token.
LEMMA PointerIs ==
  ASSUME NEW p, NEW t, TypeKnown(p, t)
  PROVE  /\ t.pointer \in BOOLEAN /\ t = [pointer |-> t.pointer, node |-> t.node]
         /\ Pointer(t) \in Seq(Token)
         /\ t.pointer => Pointer(t) = <<<<"P">>>>
         /\ ~t.pointer => Pointer(t) = <<>>
  <1>1. t.pointer \in BOOLEAN /\ t = [pointer |-> t.pointer, node |-> t.node]
    BY DEF TypeKnown
  <1> DEFINE x == <<"P">>
  <1>2. x \in Token
    BY DEF Token
  <1> HIDE DEF x
  <1>3. <<x>> \in Seq(Token) /\ <<>> \in Seq(Token)
    BY <1>2
  <1>. QED
    BY <1>1, <1>3 DEF Pointer, x

\* The first token tells whether a type is a pointer.
LEMMA TypeTokensIs ==
  ASSUME NEW stack, NEW p, PathOk(p), NEW t, TypeKnown(p, t)
  PROVE  /\ TypeShape(TypeTokens(stack, p, t))
         /\ TypeTokens(stack, p, t)[1] = <<"P">> <=> t.pointer
  <1> DEFINE N == NodeTokens(stack, p, t)
             P == Pointer(t)
             T == P \o N
  <1>1. N \in Seq(Token) /\ Len(N) >= 1 /\ N[1] # <<"P">> /\ N[1] # <<"v">>
    BY NodeTokensIs DEF NodeShape
  <1>2. P \in Seq(Token) /\ t.pointer \in BOOLEAN
        /\ (t.pointer => P = <<<<"P">>>>) /\ (~t.pointer => P = <<>>)
    BY PointerIs
  <1>3. T = TypeTokens(stack, p, t)
    BY DEF TypeTokens
  <1>6. <<"P">> # <<"v">>
    <2>1. <<"P">>[1] = "P" /\ <<"v">>[1] = "v"
      OBVIOUS
    <2>. QED
      BY <2>1
  <1> HIDE DEF N, P
  <1>4. CASE t.pointer
    <2> DEFINE x == <<"P">>
    <2>1. P \in Seq(Token) /\ Len(P) = 1 /\ P[1] = x
      BY <1>2, <1>4
    <2> HIDE DEF x
    <2>2. T \in Seq(Token) /\ Len(T) >= 1 /\ T[1] = x
      <3>1. P \in Seq(Token) /\ N \in Seq(Token)
        BY <2>1, <1>1
      <3>2. /\ P \o N \in Seq(Token) /\ Len(P \o N) = Len(P) + Len(N)
            /\ \A i \in 1..(Len(P) + Len(N)) : (P \o N)[i] = IF i <= Len(P) THEN P[i] ELSE N[i - Len(P)]
        BY ONLY <3>1, ConcatProperties
      <3>3. Len(N) \in Nat
        BY <1>1
      <3>4. 1 \in 1..(Len(P) + Len(N)) /\ 1 <= Len(P)
        BY <3>3, <2>1
      <3>. QED
        BY <3>2, <3>3, <3>4, <2>1
    <2>. QED
      BY <2>2, <1>3, <1>4, <1>6 DEF TypeShape, x
  <1>5. CASE ~t.pointer
    <2>1. T = N
      BY <1>1, <1>2, <1>5, ConcatEmptySeq
    <2>. QED
      BY <2>1, <1>1, <1>3, <1>5 DEF TypeShape
  <1>. QED
    BY <1>2, <1>4, <1>5

\* Two types are never written alike, nor one as the beginning of the other.
LEMMA TypesClash ==
  ASSUME NEW stack, NEW p, PathOk(p), NEW t, TypeKnown(p, t), NEW u, TypeKnown(p, u), t # u
  PROVE  Clash(TypeTokens(stack, p, t), TypeTokens(stack, p, u))
  <1> DEFINE T == TypeTokens(stack, p, t)
             U == TypeTokens(stack, p, u)
  <1>1. t.pointer \in BOOLEAN /\ t = [pointer |-> t.pointer, node |-> t.node] /\ Pointer(t) \in Seq(Token)
    BY PointerIs
  <1>2. u.pointer \in BOOLEAN /\ u = [pointer |-> u.pointer, node |-> u.node] /\ Pointer(u) \in Seq(Token)
    BY PointerIs
  <1>3. T \in Seq(Token) /\ Len(T) >= 1 /\ (T[1] = <<"P">> <=> t.pointer)
    BY TypeTokensIs DEF TypeShape
  <1>4. U \in Seq(Token) /\ Len(U) >= 1 /\ (U[1] = <<"P">> <=> u.pointer)
    BY TypeTokensIs DEF TypeShape
  <1>5. CASE t.pointer = u.pointer
    <2>1. t.node # u.node
      BY <1>1, <1>2, <1>5
    <2>2. Clash(NodeTokens(stack, p, t), NodeTokens(stack, p, u))
      BY <2>1, NodesClash
    <2>3. Pointer(t) = Pointer(u)
      BY <1>5 DEF Pointer
    <2> DEFINE N == NodeTokens(stack, p, t)
               M == NodeTokens(stack, p, u)
               P == Pointer(t)
    <2>4. N \in Seq(Token) /\ M \in Seq(Token) /\ P \in Seq(Token)
      BY <1>1, NodeTokensIs DEF NodeShape
    <2>5. T = P \o N /\ U = P \o M
      BY <2>3 DEF TypeTokens
    <2> HIDE DEF N, M, P
    <2>6. Clash(P \o N, P \o M)
      <3>1. Clash(N, M)
        BY <2>2 DEF N, M
      <3>. QED
        BY ONLY <3>1, <2>4, ClashAfter
    <2>. QED
      BY <2>5, <2>6
  <1>6. CASE t.pointer # u.pointer
    <2> HIDE DEF T, U
    <2>1. T[1] # U[1]
      BY <1>1, <1>2, <1>3, <1>4, <1>6
    <2>2. Clash(T, U)
      BY <2>1, <1>3, <1>4, ClashAtOne
    <2>. QED
      BY <2>2 DEF T, U
  <1>. QED
    BY <1>5, <1>6

-----------------------------------------------------------------------------
(* Lists of types                                                            *)

\* More tokens are written.
LEMMA WriteIs ==
  ASSUME NEW w, IsWriter(w), NEW u \in Seq(Token)
  PROVE  IsWriter(Write(w, u)) /\ Write(w, u).out = w.out \o u /\ Write(w, u).stack = w.stack
  <1> DEFINE x == Write(w, u)
             o == w.out \o u
  <1>1. w.out \in Seq(Token) /\ w = [out |-> w.out, stack |-> w.stack]
    BY DEF IsWriter
  <1>2. o \in Seq(Token)
    BY <1>1
  <1>3. x = [out |-> o, stack |-> w.stack]
    <2> DEFINE a == w.out
               b == w.stack
    <2>1. w = [out |-> a, stack |-> b]
      BY <1>1
    <2>2. x = [w EXCEPT !.out = a \o u]
      BY DEF Write
    <2> HIDE DEF a, b, x
    <2>3. x = [out |-> a \o u, stack |-> b]
      BY <2>1, <2>2
    <2>. QED
      BY <2>3 DEF a, b
  <1> HIDE DEF o, x
  <1>4. x.out = o /\ x.stack = w.stack /\ x = [out |-> x.out, stack |-> x.stack]
    BY <1>3
  <1>. QED
    BY <1>2, <1>4 DEF IsWriter, x, o

\* A row is written.
LEMMA ChunksWritten ==
  ASSUME NEW w, IsWriter(w), NEW nodes, NEW chunks, Tokens(w.stack, nodes, chunks) \in Seq(Token),
         NEW v, v = write_chunk_or_compression(w, nodes, chunks)
  PROVE  IsWriter(v) /\ v.out = w.out \o Tokens(w.stack, nodes, chunks)
  <1>1. v.out = w.out \o Tokens(w.stack, nodes, chunks)
    BY WritesTokens
  <1>2. w.out \in Seq(Token)
    BY DEF IsWriter
  <1>3. v.out \in Seq(Token)
    <2> DEFINE T == Tokens(w.stack, nodes, chunks)
    <2>1. T \in Seq(Token)
      OBVIOUS
    <2> HIDE DEF T
    <2>. QED
      BY <1>1, <1>2, <2>1 DEF T
  <1>4. v = [out |-> v.out, stack |-> v.stack]
    BY DEF write_chunk_or_compression
  <1>. QED
    BY <1>1, <1>3, <1>4 DEF IsWriter

\* A type is written.
LEMMA TypeWritten ==
  ASSUME NEW w, IsWriter(w), NEW p, PathOk(p), NEW t, TypeKnown(p, t),
         NEW v, v = write_type(w, p, t)
  PROVE  IsWriter(v) /\ v.out = w.out \o TypeTokens(w.stack, p, t)
  <1> DEFINE x == IF t.pointer THEN Write(w, <<<<"P">>>>) ELSE w
             P == Pointer(t)
             N == NodeTokens(w.stack, p, t)
  <1>1. P \in Seq(Token) /\ t.pointer \in BOOLEAN
        /\ (t.pointer => P = <<<<"P">>>>) /\ (~t.pointer => P = <<>>)
    BY PointerIs
  <1>2. N \in Seq(Token)
    BY NodeTokensIs DEF NodeShape
  <1>3. w.out \in Seq(Token)
    BY DEF IsWriter
  <1>4. v = write_chunk_or_compression(x, Nodes(p, t), Chunks(Nodes(p, t)))
    BY DEF write_type, Nodes
  <1>5. IsWriter(x) /\ x.out = w.out \o P /\ x.stack = w.stack
    <2>1. CASE t.pointer
      <3>1. x = Write(w, P)
        BY <2>1, <1>1
      <3> HIDE DEF x, P
      <3>. QED
        BY <3>1, <1>1, WriteIs
    <2>2. CASE ~t.pointer
      <3>1. x = w /\ P = <<>>
        BY <2>2, <1>1
      <3>2. w.out \o <<>> = w.out
        BY ONLY <1>3, ConcatEmptySeq
      <3> HIDE DEF x, P
      <3>. QED
        BY <3>1, <3>2
    <2>. QED
      BY <1>1, <2>1, <2>2
  <1> HIDE DEF x, P
  <1>6. Tokens(x.stack, Nodes(p, t), Chunks(Nodes(p, t))) = N
    BY <1>5 DEF NodeTokens
  <1> HIDE DEF N
  <1>7. IsWriter(v) /\ v.out = x.out \o N
    BY <1>2, <1>4, <1>5, <1>6, ChunksWritten
  <1>8. (w.out \o P) \o N = w.out \o (P \o N)
    <2> DEFINE a == w.out
    <2>1. a \in Seq(Token) /\ P \in Seq(Token) /\ N \in Seq(Token)
      BY <1>1, <1>2, <1>3
    <2> HIDE DEF a
    <2>2. (a \o P) \o N = a \o (P \o N)
      BY ONLY <2>1, ConcatAssociative
    <2>. QED
      BY <2>2 DEF a
  <1>9. TypeTokens(w.stack, p, t) = P \o N
    BY DEF TypeTokens, P, N
  <1>. QED
    BY <1>5, <1>7, <1>8, <1>9

\* The types of parameters, all of them known.
TypeTree == [pointer : BOOLEAN, node : Seq(STRING) \cup ({"builtin"} \X NativeChunks)]
TypesKnown(p, ts) == ts \in Seq(TypeTree) /\ \A k \in 1..Len(ts) : TypeKnown(p, ts[k])

\* B goes on from A.
GoesOn(a, b) == \E u \in Seq(Token) : b = a \o u
GoesFurther(a, b) == \E u \in Seq(Token) : Len(u) >= 1 /\ b = a \o u

\* Going on and then further is going further.
LEMMA GoesOnTwice ==
  ASSUME NEW a \in Seq(Token), NEW b, NEW c, GoesOn(a, b), GoesFurther(b, c)
  PROVE  GoesFurther(a, c)
  <1>1. PICK u \in Seq(Token) : b = a \o u
    BY DEF GoesOn
  <1>2. PICK v \in Seq(Token) : Len(v) >= 1 /\ c = b \o v
    BY DEF GoesFurther
  <1>3. (a \o u) \o v = a \o (u \o v)
    <2>1. a \in Seq(Token) /\ u \in Seq(Token) /\ v \in Seq(Token)
      OBVIOUS
    <2>. QED
      BY ONLY <2>1, ConcatAssociative
  <1>4. u \o v \in Seq(Token) /\ Len(u \o v) >= 1
    BY <1>2
  <1>5. c = a \o (u \o v)
    BY <1>1, <1>2, <1>3
  <1>. QED
    BY <1>4, <1>5 DEF GoesFurther

\* Going further is going on.
LEMMA FurtherIsOn ==
  ASSUME NEW a, NEW b, GoesFurther(a, b)
  PROVE  GoesOn(a, b)
  BY DEF GoesOn, GoesFurther

\* Nothing may follow.
LEMMA GoesOnSelf ==
  ASSUME NEW a \in Seq(Token)
  PROVE  GoesOn(a, a)
  <1>1. a \o <<>> = a
    <2>1. a \in Seq(Token)
      OBVIOUS
    <2>. QED
      BY ONLY <2>1, ConcatEmptySeq
  <1>2. <<>> \in Seq(Token)
    OBVIOUS
  <1>. QED
    BY <1>1, <1>2 DEF GoesOn

\* What goes further is something else; what clashed goes on clashing.
LEMMA FurtherDiffers ==
  ASSUME NEW a \in Seq(Token), NEW b, GoesFurther(a, b)
  PROVE  a # b
  <1>1. PICK u \in Seq(Token) : Len(u) >= 1 /\ b = a \o u
    BY DEF GoesFurther
  <1>2. Len(a \o u) = Len(a) + Len(u) /\ Len(a) \in Nat
    OBVIOUS
  <1>3. Len(b) # Len(a)
    BY <1>1, <1>2
  <1>. QED
    BY <1>3

\* What goes on from two sequences that clash differs.
LEMMA ClashGoesOn ==
  ASSUME NEW a \in Seq(Token), NEW b \in Seq(Token), Clash(a, b), NEW c, NEW d,
         GoesOn(a, c), GoesOn(b, d)
  PROVE  c # d
  <1>1. PICK u \in Seq(Token) : c = a \o u
    BY DEF GoesOn
  <1>2. PICK v \in Seq(Token) : d = b \o v
    BY DEF GoesOn
  <1>3. Clash(a \o u, b \o v)
    BY ClashMore
  <1>4. a \o u \in Seq(Token) /\ b \o v \in Seq(Token)
    OBVIOUS
  <1>5. a \o u # b \o v
    BY <1>3, <1>4, ClashDiffers
  <1>. QED
    BY <1>1, <1>2, <1>5

\* What is written after the first K of the types TS.
At(p, w, ts, k) == Written(p, w, ts)[1..k]

AllSteps(p, w, ts) ==
  /\ At(p, w, ts, 0) = w
  /\ \A k \in 1..Len(ts) : At(p, w, ts, k) = write_type(At(p, w, ts, k - 1), p, ts[k])
  /\ ts # <<>> => write_method_type(w, p, ts) = At(p, w, ts, Len(ts))

\* write_method_type writes one type after the other.
LEMMA AtSteps ==
  ASSUME NEW p, NEW w, NEW ts \in Seq(TypeTree)
  PROVE  AllSteps(p, w, ts)
  <1> DEFINE n == Len(ts)
  <1>1. n \in Nat /\ DOMAIN ts = 1..n
    OBVIOUS
  <1> HIDE DEF n
  <1>2. /\ Written(p, w, ts)[1..0] = w
        /\ \A k \in 1..n : Written(p, w, ts)[1..k] = write_type(Written(p, w, ts)[1..(k - 1)], p, ts[k])
    <2>1. WrittenSteps(p, w, ts, n)
      BY ONLY <1>1, WrittenPrefix
    <2>. QED
      BY ONLY <2>1 DEF WrittenSteps
  <1>3. ts # <<>> => write_method_type(w, p, ts) = Written(p, w, ts)[1..n]
    <2>1. ts # <<>> => write_method_type(w, p, ts) = Written(p, w, ts)[DOMAIN ts]
      BY ONLY WriteIsFold
    <2>. QED
      BY ONLY <2>1, <1>1
  <1>. QED
    BY <1>2, <1>3 DEF At, n, AllSteps

\* Each type makes the name longer.
AllWriters(p, w, ts) ==
  /\ \A k \in 0..Len(ts) : IsWriter(At(p, w, ts, k))
  /\ \A k \in 1..Len(ts) :
       /\ TypeKnown(p, ts[k])
       /\ At(p, w, ts, k).out =
            At(p, w, ts, k - 1).out \o TypeTokens(At(p, w, ts, k - 1).stack, p, ts[k])

\* Each of them follows what was written before.
LEMMA AtWriters ==
  ASSUME NEW p, PathOk(p), NEW w, IsWriter(w), NEW ts, TypesKnown(p, ts)
  PROVE  AllWriters(p, w, ts)
  <1> DEFINE n == Len(ts)
             at(k) == At(p, w, ts, k)
             Bad == {k \in Nat : k <= n /\ ~IsWriter(at(k))}
  <1>1. ts \in Seq(TypeTree) /\ n \in Nat /\ \A k \in 1..n : TypeKnown(p, ts[k])
    BY DEF TypesKnown
  <1>2. at(0) = w /\ \A k \in 1..n : at(k) = write_type(at(k - 1), p, ts[k])
    BY <1>1, AtSteps DEF AllSteps
  <1> HIDE DEF n, at
  <1>3. ASSUME NEW k \in 1..n, IsWriter(at(k - 1))
        PROVE  IsWriter(at(k)) /\ at(k).out = at(k - 1).out \o TypeTokens(at(k - 1).stack, p, ts[k])
    <2>1. at(k) = write_type(at(k - 1), p, ts[k]) /\ TypeKnown(p, ts[k])
      BY <1>1, <1>2
    <2>. QED
      <3> DEFINE x == at(k - 1)
                 v == at(k)
                 t == ts[k]
      <3>1. PathOk(p) /\ IsWriter(x) /\ TypeKnown(p, t) /\ v = write_type(x, p, t)
        BY <1>3, <2>1
      <3> HIDE DEF x, v, t
      <3>2. IsWriter(v) /\ v.out = x.out \o TypeTokens(x.stack, p, t)
        BY ONLY <3>1, TypeWritten
      <3>. QED
        BY <3>2 DEF x, v, t
  <1>4. Bad = {}
    <2> SUFFICES ASSUME Bad # {} PROVE FALSE
      OBVIOUS
    <2>1. PICK k \in Bad : \A j \in Bad : k <= j
      BY Least
    <2>2. k \in Nat /\ k <= n /\ ~IsWriter(at(k)) /\ k # 0
      BY <2>1, <1>2
    <2>3. k - 1 \in Nat /\ k - 1 <= n /\ k \in 1..n
      BY <2>2, <1>1
    <2>4. k - 1 \notin Bad
      BY <2>1, <2>3
    <2>. QED
      BY <2>2, <2>3, <2>4, <1>3
  <1>5. \A k \in 0..n : IsWriter(at(k))
    BY <1>1, <1>4
  <1>6. ASSUME NEW k \in 1..n
        PROVE  at(k).out = at(k - 1).out \o TypeTokens(at(k - 1).stack, p, ts[k])
    <2>1. k - 1 \in 0..n
      BY <1>1
    <2>. QED
      BY <2>1, <1>3, <1>5
  <1>. QED
    BY <1>1, <1>5, <1>6 DEF n, at, AllWriters

\* So that more types are a longer name.
LEMMA AtGrows ==
  ASSUME NEW p, PathOk(p), NEW w, IsWriter(w), NEW ts, TypesKnown(p, ts)
  PROVE  \A k \in 0..Len(ts) : \A l \in 0..Len(ts) :
           /\ k <= l => GoesOn(At(p, w, ts, k).out, At(p, w, ts, l).out)
           /\ k < l => GoesFurther(At(p, w, ts, k).out, At(p, w, ts, l).out)
  <1> DEFINE n == Len(ts)
             o(k) == At(p, w, ts, k).out
  <1>1. n \in Nat
    BY DEF TypesKnown
  <1>2. \A k \in 0..n : o(k) \in Seq(Token)
    BY AtWriters DEF IsWriter, AllWriters
  <1>3. ASSUME NEW k \in 1..n PROVE GoesFurther(o(k - 1), o(k))
    <2> DEFINE T == TypeTokens(At(p, w, ts, k - 1).stack, p, ts[k])
    <2>1. o(k) = o(k - 1) \o T /\ TypeKnown(p, ts[k])
      <3>1. AllWriters(p, w, ts) /\ k \in 1..Len(ts)
        BY AtWriters
      <3>. QED
        BY ONLY <3>1 DEF AllWriters
    <2>2. T \in Seq(Token) /\ Len(T) >= 1
      BY <2>1, TypeTokensIs DEF TypeShape
    <2> HIDE DEF T, o
    <2>. QED
      BY <2>1, <2>2 DEF GoesFurther
  <1> HIDE DEF n, o
  <1>4. ASSUME NEW k \in 0..n PROVE \A l \in 0..n : k <= l => GoesOn(o(k), o(l))
    <2> DEFINE Bad == {l \in Nat : l \in k..n /\ ~GoesOn(o(k), o(l))}
    <2>1. Bad = {}
      <3> SUFFICES ASSUME Bad # {} PROVE FALSE
        OBVIOUS
      <3>1. PICK l \in Bad : \A j \in Bad : l <= j
        BY Least
      <3>2. l \in Nat /\ l \in k..n /\ ~GoesOn(o(k), o(l))
        BY <3>1
      <3>3. l # k
        BY <3>2, <1>2, GoesOnSelf
      <3>4. l - 1 \in Nat /\ l - 1 \in k..n /\ l \in 1..n
        BY <3>2, <3>3, <1>1
      <3>5. l - 1 \notin Bad
        BY <3>1, <3>4
      <3>6. GoesOn(o(k), o(l - 1))
        BY <3>4, <3>5
      <3>7. GoesFurther(o(k), o(l))
        BY <3>4, <3>6, <1>2, <1>3, GoesOnTwice
      <3>. QED
        BY <3>2, <3>7, FurtherIsOn
    <2>. QED
      BY <2>1, <1>1
  <1>5. ASSUME NEW k \in 0..n, NEW l \in 0..n, k < l PROVE GoesFurther(o(k), o(l))
    <2>1. l - 1 \in 0..n /\ k <= l - 1 /\ l \in 1..n
      BY <1>5, <1>1
    <2>. QED
      BY <2>1, <1>2, <1>3, <1>4, GoesOnTwice
  <1>. QED
    BY <1>4, <1>5 DEF n, o

\* A list of types is written.
LEMMA ListWritten ==
  ASSUME NEW p, PathOk(p), NEW w, IsWriter(w), NEW ts, TypesKnown(p, ts)
  PROVE  /\ IsWriter(write_method_type(w, p, ts))
         /\ GoesFurther(w.out, write_method_type(w, p, ts).out)
  <1>1. ts \in Seq(TypeTree)
    BY DEF TypesKnown
  <1>2. CASE ts = <<>>
    <2> DEFINE x == <<"v">>
    <2>1. x \in Token
      BY DEF Token
    <2>2. write_method_type(w, p, ts) = Write(w, <<x>>)
      BY <1>2 DEF write_method_type
    <2> HIDE DEF x
    <2>3. <<x>> \in Seq(Token) /\ Len(<<x>>) >= 1
      BY <2>1
    <2>4. IsWriter(Write(w, <<x>>)) /\ Write(w, <<x>>).out = w.out \o <<x>>
      BY <2>3, WriteIs
    <2>. QED
      BY <2>2, <2>3, <2>4 DEF GoesFurther
  <1>3. CASE ts # <<>>
    <2> DEFINE n == Len(ts)
    <2>1. n \in Nat /\ n > 0
      BY <1>1, <1>3
    <2>2. write_method_type(w, p, ts) = At(p, w, ts, n) /\ At(p, w, ts, 0) = w
      BY <1>1, <1>3, AtSteps DEF AllSteps
    <2>3. 0 \in 0..n /\ n \in 0..n /\ 0 < n
      BY <2>1
    <2>4. IsWriter(At(p, w, ts, n))
      BY <2>3, AtWriters DEF AllWriters
    <2>5. GoesFurther(At(p, w, ts, 0).out, At(p, w, ts, n).out)
      BY <2>3, AtGrows
    <2>. QED
      BY <2>2, <2>4, <2>5
  <1>. QED
    BY <1>2, <1>3

\* An empty list is written as no other is.
LEMMA EmptyListDiffers ==
  ASSUME NEW p, PathOk(p), NEW w, IsWriter(w), NEW ts, TypesKnown(p, ts), ts # <<>>
  PROVE  write_method_type(w, p, <<>>).out # write_method_type(w, p, ts).out
  <1> DEFINE x == <<"v">>
             n == Len(ts)
             T == TypeTokens(w.stack, p, ts[1])
  <1>1. ts \in Seq(TypeTree) /\ n \in Nat /\ n > 0 /\ TypeKnown(p, ts[1])
    BY DEF TypesKnown
  <1>2. x \in Token
    BY DEF Token
  <1>3. write_method_type(w, p, <<>>) = Write(w, <<x>>)
    BY DEF write_method_type
  <1>4. T \in Seq(Token) /\ Len(T) >= 1 /\ T[1] # x
    BY <1>1, TypeTokensIs DEF TypeShape
  <1>5. w.out \in Seq(Token)
    BY DEF IsWriter
  <1> HIDE DEF x
  <1>6. <<x>> \in Seq(Token) /\ Len(<<x>>) = 1 /\ <<x>>[1] = x
    BY <1>2
  <1>7. Write(w, <<x>>).out = w.out \o <<x>>
    BY <1>6, WriteIs
  <1>8. 0 \in 0..n /\ 1 \in 0..n /\ n \in 0..n /\ 1 \in 1..n /\ 1 - 1 = 0 /\ 1 <= n
    BY <1>1
  <1>9. write_method_type(w, p, ts) = At(p, w, ts, n) /\ At(p, w, ts, 0) = w
    BY <1>1, AtSteps DEF AllSteps
  <1>10. At(p, w, ts, 1).out = w.out \o T
    <2>1. AllWriters(p, w, ts)
      BY AtWriters
    <2>2. At(p, w, ts, 1).out = At(p, w, ts, 1 - 1).out \o TypeTokens(At(p, w, ts, 1 - 1).stack, p, ts[1])
      BY ONLY <2>1, <1>8 DEF AllWriters, n
    <2>3. At(p, w, ts, 1 - 1) = w
      BY <1>8, <1>9
    <2>. QED
      BY ONLY <2>2, <2>3
  <1>11. GoesOn(w.out \o T, At(p, w, ts, n).out)
    BY <1>8, <1>10, AtGrows
  <1> HIDE DEF T
  <1>12. Clash(<<x>>, T)
    <2> DEFINE s == <<x>>
    <2>1. s \in Seq(Token) /\ Len(s) = 1 /\ s[1] = x
      BY <1>6
    <2> HIDE DEF s
    <2>2. Clash(s, T)
      <3>1. 1 \in 1..Len(s) /\ 1 <= Len(T) /\ s[1] # T[1]
        BY <1>4, <2>1
      <3>. QED
        BY ONLY <3>1 DEF Clash
    <2>. QED
      BY <2>2 DEF s
  <1> DEFINE a == w.out \o <<x>>
             b == w.out \o T
  <1>13. Clash(a, b)
    BY <1>4, <1>5, <1>6, <1>12, ClashAfter
  <1>14. a \in Seq(Token) /\ b \in Seq(Token)
    BY <1>4, <1>5, <1>6
  <1> HIDE DEF a, b
  <1>15. GoesOn(a, a) /\ GoesOn(b, At(p, w, ts, n).out)
    BY <1>11, <1>14, GoesOnSelf DEF b
  <1>16. a # At(p, w, ts, n).out
    BY <1>13, <1>14, <1>15, ClashGoesOn
  <1>. QED
    BY <1>3, <1>7, <1>9, <1>16 DEF a

\* Different lists are written differently.
LEMMA ListsDiffer ==
  ASSUME NEW p, PathOk(p), NEW w, IsWriter(w), NEW ts, TypesKnown(p, ts), NEW us, TypesKnown(p, us),
         ts # us
  PROVE  write_method_type(w, p, ts).out # write_method_type(w, p, us).out
  <1>1. CASE ts = <<>>
    BY <1>1, EmptyListDiffers
  <1>2. CASE us = <<>>
    BY <1>2, EmptyListDiffers
  <1>3. CASE ts # <<>> /\ us # <<>>
    <2> SUFFICES ASSUME write_method_type(w, p, ts).out = write_method_type(w, p, us).out PROVE FALSE
      OBVIOUS
    <2> DEFINE n == Len(ts)
               m == Len(us)
               a(k) == At(p, w, ts, k)
               b(k) == At(p, w, us, k)
               Ok(k) == a(k) = b(k) /\ (k >= 1 => ts[k] = us[k])
               Bad == {k \in Nat : k <= n /\ k <= m /\ ~Ok(k)}
    <2>1. ts \in Seq(TypeTree) /\ n \in Nat /\ us \in Seq(TypeTree) /\ m \in Nat
      BY DEF TypesKnown
    <2>2. a(0) = w /\ (\A k \in 1..n : a(k) = write_type(a(k - 1), p, ts[k]))
          /\ write_method_type(w, p, ts) = a(n)
      BY <2>1, <1>3, AtSteps DEF AllSteps
    <2>3. b(0) = w /\ (\A k \in 1..m : b(k) = write_type(b(k - 1), p, us[k]))
          /\ write_method_type(w, p, us) = b(m)
      BY <2>1, <1>3, AtSteps DEF AllSteps
    <2>4. a(n).out = b(m).out
      BY <2>2, <2>3
    <2>5. /\ \A k \in 0..n : a(k).out \in Seq(Token)
          /\ \A k \in 1..n : /\ TypeKnown(p, ts[k])
                             /\ a(k).out = a(k - 1).out \o TypeTokens(a(k - 1).stack, p, ts[k])
      <3>1. AllWriters(p, w, ts)
        BY AtWriters
      <3>. QED
        BY ONLY <3>1 DEF AllWriters, IsWriter
    <2>6. /\ \A k \in 0..m : b(k).out \in Seq(Token)
          /\ \A k \in 1..m : /\ TypeKnown(p, us[k])
                             /\ b(k).out = b(k - 1).out \o TypeTokens(b(k - 1).stack, p, us[k])
      <3>1. AllWriters(p, w, us)
        BY AtWriters
      <3>. QED
        BY ONLY <3>1 DEF AllWriters, IsWriter
    <2>7. \A k \in 0..n : GoesOn(a(k).out, a(n).out) /\ (k < n => GoesFurther(a(k).out, a(n).out))
      BY <2>1, AtGrows
    <2>8. \A k \in 0..m : GoesOn(b(k).out, b(m).out) /\ (k < m => GoesFurther(b(k).out, b(m).out))
      BY <2>1, AtGrows
    <2> HIDE DEF n, m, a, b
    <2>9. ASSUME NEW k \in 1..n, k \in 1..m, a(k - 1) = b(k - 1) PROVE Ok(k)
      <3> DEFINE x == a(k - 1)
                 t == ts[k]
                 u == us[k]
                 T == TypeTokens(x.stack, p, t)
                 U == TypeTokens(x.stack, p, u)
                 o == x.out
      <3>1. TypeKnown(p, t) /\ TypeKnown(p, u) /\ a(k).out = o \o T /\ b(k).out = o \o U
        BY <2>5, <2>6, <2>9
      <3>2. t = u
        <4> SUFFICES ASSUME t # u PROVE FALSE
          OBVIOUS
        <4>1. Clash(T, U)
          BY <3>1, TypesClash
        <4>2. T \in Seq(Token) /\ U \in Seq(Token)
          BY <3>1, TypeTokensIs DEF TypeShape
        <4>3. o \in Seq(Token)
          <5>1. k - 1 \in 0..n
            BY <2>1
          <5>. QED
            BY <5>1, <2>5
        <4> HIDE DEF T, U, o
        <4>4. Clash(o \o T, o \o U)
          BY ONLY <4>1, <4>2, <4>3, ClashAfter
        <4>5. o \o T \in Seq(Token) /\ o \o U \in Seq(Token)
          BY <4>2, <4>3
        <4>6. k \in 0..n /\ k \in 0..m
          BY <2>1, <2>9
        <4>7. GoesOn(o \o T, a(n).out) /\ GoesOn(o \o U, b(m).out)
          BY <3>1, <4>6, <2>7, <2>8
        <4>8. a(n).out # b(m).out
          BY <4>4, <4>5, <4>7, ClashGoesOn
        <4>. QED
          BY <4>8, <2>4
      <3>3. a(k) = b(k)
        BY <3>2, <2>2, <2>3, <2>9
      <3>. QED
        BY <3>2, <3>3
    <2>10. Ok(0)
      BY <2>2, <2>3
    <2> HIDE DEF Ok
    <2>11. Bad = {}
      <3> SUFFICES ASSUME Bad # {} PROVE FALSE
        OBVIOUS
      <3>1. PICK k \in Bad : \A j \in Bad : k <= j
        BY Least
      <3>2. k \in Nat /\ k <= n /\ k <= m /\ ~Ok(k) /\ k # 0
        BY <3>1, <2>10
      <3>3. k - 1 \in Nat /\ k - 1 <= n /\ k - 1 <= m /\ k \in 1..n /\ k \in 1..m
        BY <3>2, <2>1
      <3>4. k - 1 \notin Bad
        BY <3>1, <3>3
      <3>5. a(k - 1) = b(k - 1)
        BY <3>3, <3>4 DEF Ok
      <3>. QED
        BY <3>2, <3>3, <3>5, <2>9
    <2>12. ~(n < m)
      <3> SUFFICES ASSUME n < m PROVE FALSE
        OBVIOUS
      <3>1. n \in 0..m /\ n <= n /\ n <= m /\ n \in 0..n
        BY <2>1
      <3>2. a(n) = b(n)
        BY <3>1, <2>1, <2>11 DEF Ok
      <3>3. GoesFurther(b(n).out, b(m).out) /\ b(n).out \in Seq(Token)
        BY <3>1, <2>6, <2>8
      <3>. QED
        BY <3>2, <3>3, <2>4, FurtherDiffers
    <2>13. ~(m < n)
      <3> SUFFICES ASSUME m < n PROVE FALSE
        OBVIOUS
      <3>1. m \in 0..n /\ m <= m /\ m <= n /\ m \in 0..m
        BY <2>1
      <3>2. a(m) = b(m)
        BY <3>1, <2>1, <2>11 DEF Ok
      <3>3. GoesFurther(a(m).out, a(n).out) /\ a(m).out \in Seq(Token)
        BY <3>1, <2>5, <2>7
      <3>. QED
        BY <3>2, <3>3, <2>4, FurtherDiffers
    <2>14. n = m
      BY <2>1, <2>12, <2>13
    <2>15. \A k \in 1..n : ts[k] = us[k]
      <3> SUFFICES ASSUME NEW k \in 1..n PROVE ts[k] = us[k]
        OBVIOUS
      <3>1. k \in Nat /\ k <= n /\ k <= m /\ k >= 1
        BY <2>1, <2>14
      <3>2. Ok(k)
        BY <3>1, <2>11
      <3>. QED
        BY <3>1, <3>2 DEF Ok
    <2>16. ts = us
      BY <2>1, <2>14, <2>15, SeqEqual DEF n, m
    <2>. QED
      BY <2>16
  <1>. QED
    BY <1>1, <1>2, <1>3

\* What is registered later does not change how a type is written.
LEMMA TypeGrown ==
  ASSUME NEW p, PathOk(p), NEW q, Grown(p, q), NEW t, TypeKnown(p, t), NEW w
  PROVE  write_type(w, q, t) = write_type(w, p, t) /\ TypeKnown(q, t)
  <1>1. TypeKnown(q, t)
    BY DEF TypeKnown, Grown
  <1>2. ASSUME NEW ch \in NativeChunks, t.node = Builtin(ch)
        PROVE  write_type(w, q, t) = write_type(w, p, t)
    <2>1. ~Compressible(t.node)
      BY <1>2 DEF Builtin, Compressible
    <2>. QED
      BY <2>1 DEF write_type
  <1>3. ASSUME NEW c \in ILClasses, ClassId(c) \in DOMAIN p, t.node = ClassId(c)
        PROVE  write_type(w, q, t) = write_type(w, p, t)
    <2>1. q[t.node] = p[t.node]
      BY <1>3 DEF Grown
    <2>. QED
      BY <2>1 DEF write_type
  <1>. QED
    BY <1>1, <1>2, <1>3 DEF TypeKnown

\* The types of a method are written alike when more trees are registered.
LEMMA ListGrown ==
  ASSUME NEW p, PathOk(p), NEW q, Grown(p, q), NEW ts, TypesKnown(p, ts), NEW w
  PROVE  write_method_type(w, q, ts) = write_method_type(w, p, ts) /\ TypesKnown(q, ts)
  <1> DEFINE n == Len(ts)
             a(k) == At(p, w, ts, k)
             b(k) == At(q, w, ts, k)
             Bad == {k \in Nat : k <= n /\ a(k) # b(k)}
  <1>1. ts \in Seq(TypeTree) /\ n \in Nat /\ \A k \in 1..n : TypeKnown(p, ts[k])
    BY DEF TypesKnown
  <1>2. a(0) = w /\ (\A k \in 1..n : a(k) = write_type(a(k - 1), p, ts[k]))
        /\ (ts # <<>> => write_method_type(w, p, ts) = a(n))
    <2>1. AllSteps(p, w, ts)
      BY <1>1, AtSteps
    <2>. QED
      BY ONLY <2>1 DEF AllSteps
  <1>3. b(0) = w /\ (\A k \in 1..n : b(k) = write_type(b(k - 1), q, ts[k]))
        /\ (ts # <<>> => write_method_type(w, q, ts) = b(n))
    <2>1. AllSteps(q, w, ts)
      BY <1>1, AtSteps
    <2>. QED
      BY ONLY <2>1 DEF AllSteps
  <1>4. TypesKnown(q, ts)
    BY <1>1, TypeGrown DEF TypesKnown
  <1>5. ts = <<>> => write_method_type(w, q, ts) = write_method_type(w, p, ts)
    BY DEF write_method_type
  <1> HIDE DEF n, a, b
  <1>6. Bad = {}
    <2> SUFFICES ASSUME Bad # {} PROVE FALSE
      OBVIOUS
    <2>1. PICK k \in Bad : \A j \in Bad : k <= j
      BY Least
    <2>2. k \in Nat /\ k <= n /\ a(k) # b(k) /\ k # 0
      BY <2>1, <1>2, <1>3
    <2>3. k - 1 \in Nat /\ k - 1 <= n /\ k \in 1..n
      BY <2>2, <1>1
    <2>4. k - 1 \notin Bad
      BY <2>1, <2>3
    <2>5. a(k - 1) = b(k - 1)
      BY <2>3, <2>4
    <2> DEFINE x == a(k - 1)
               t == ts[k]
    <2>6. TypeKnown(p, t)
      BY <2>3, <1>1
    <2>7. write_type(x, q, t) = write_type(x, p, t)
      BY <2>6, TypeGrown
    <2>8. a(k) = b(k)
      BY <2>3, <2>5, <2>7, <1>2, <1>3
    <2>. QED
      BY <2>2, <2>8
  <1>7. a(n) = b(n)
    BY <1>1, <1>6
  <1>. QED
    BY <1>2, <1>3, <1>4, <1>5, <1>7

-----------------------------------------------------------------------------
(* Names                                                                     *)

\* A class that is registered.
OwnerKnown(p, o) == o \in DOMAIN p /\ \E c \in ILClasses : o = ClassId(c)
MemberNames == STRING \ {"cctor$"}

\* Trees whose names can be made: all they refer to is registered.
MethodKnown(p, d) ==
  /\ d.kind = "method" /\ OwnerKnown(p, d.owner) /\ d.name \in MemberNames
  /\ TypesKnown(p, d.params)
FieldKnown(p, d) ==
  /\ d.kind = "field" /\ OwnerKnown(p, d.owner) /\ d.name \in MemberNames
  /\ d = [kind |-> "field", owner |-> d.owner, name |-> d.name]
VtableKnown(p, d) ==
  /\ d.kind = "vtable" /\ OwnerKnown(p, d.owner) /\ d = [kind |-> "vtable", owner |-> d.owner]
LabelKnown(p, d) == d.kind = "label" /\ MethodKnown(p, d.method) /\ d.name \in STRING
DeclKnown(p, d) == MethodKnown(p, d) \/ FieldKnown(p, d) \/ VtableKnown(p, d) \/ LabelKnown(p, d)

\* The chunk of a member tells its name.
LEMMA MemberChunkIs ==
  ASSUME NEW n \in MemberNames
  PROVE  MemberChunk(n) \in Token /\ MemberChunk(n) # <<"E">>
  <1>0. <<"E">>[1] = "E" /\ <<"C1">>[1] = "C1"
    OBVIOUS
  <1>1. CASE n = ".ctor"
    <2>1. MemberChunk(n) = <<"C1">>
      BY <1>1 DEF MemberChunk
    <2>. QED
      BY <2>1, <1>0 DEF Token
  <1>2. CASE n # ".ctor"
    <2> DEFINE s == IF n = ".cctor" THEN "cctor$" ELSE n
               x == <<s>>
               y == <<"chunk", x>>
    <2>1. MemberChunk(n) = y
      BY <1>2 DEF MemberChunk
    <2>2. n \in STRING
      BY DEF MemberNames
    <2>3. s = "cctor$" \/ s \in STRING
      BY <2>2
    <2>4. x = <<"cctor$">> \/ x \in Seq(STRING)
      <3> HIDE DEF s
      <3>1. ASSUME NEW S, s \in S PROVE x \in Seq(S)
        BY <3>1
      <3>. QED
        BY <2>3, <3>1
    <2> HIDE DEF x
    <2>5. y \in Token /\ y[1] = "chunk"
      BY <2>4 DEF Token
    <2> HIDE DEF y
    <2>6. y # <<"E">>
      BY <2>5, <1>0
    <2>. QED
      BY <2>1, <2>5, <2>6
  <1>. QED
    BY <1>1, <1>2

\* The chunks of two names differ, those of constructors too.
LEMMA MemberChunksDiffer ==
  ASSUME NEW m \in MemberNames, NEW n \in MemberNames, MemberChunk(m) = MemberChunk(n)
  PROVE  m = n
  <1> DEFINE Shown(x) == IF x = ".cctor" THEN "cctor$" ELSE x
  <1>1. ASSUME NEW x \in MemberNames
        PROVE  MemberChunk(x) = IF x = ".ctor" THEN <<"C1">> ELSE <<"chunk", <<Shown(x)>> >>
    BY DEF MemberChunk
  <1>2. ASSUME NEW x PROVE <<"C1">> # <<"chunk", x>>
    <2>1. <<"C1">>[1] = "C1" /\ <<"chunk", x>>[1] = "chunk"
      OBVIOUS
    <2>. QED
      BY <2>1
  <1>3. m = ".ctor" <=> n = ".ctor"
    BY <1>1, <1>2
  <1>4. CASE m # ".ctor" /\ n # ".ctor"
    <2>1. <<"chunk", <<Shown(m)>> >> = <<"chunk", <<Shown(n)>> >>
      BY <1>1, <1>4
    <2>2. <<Shown(m)>> = <<Shown(n)>>
      <3> DEFINE x == <<Shown(m)>>
                 y == <<Shown(n)>>
      <3>1. <<"chunk", x>> = <<"chunk", y>>
        BY <2>1
      <3> HIDE DEF x, y
      <3>2. x = y
        BY <3>1
      <3>. QED
        BY <3>2 DEF x, y
    <2>3. Shown(m) = Shown(n)
      <3> HIDE DEF Shown
      <3>. QED
        BY <2>2
    <2>4. m # "cctor$" /\ n # "cctor$"
      BY DEF MemberNames
    <2>. QED
      BY <2>3, <2>4
  <1>. QED
    BY <1>3, <1>4

\* The row of a member: the containers of its class, the class, its own chunk.
MemberChunks(r, n) == Append(Chunks(r), MemberChunk(n))
Bare == <<<<"N">>>> \o <<>>

\* A row that refers to nothing starts with one token.
LEMMA BareIs == Bare \in Seq(Token) /\ Len(Bare) = 1 /\ \A r : Start(<<>>, r, 0) = Bare
  <1>1. \A r : Start(<<>>, r, 0) = Bare
    BY DEF Start, Bare
  <1>2. Start(<<>>, <<>>, 0) \in Seq(Token) /\ Len(Start(<<>>, <<>>, 0)) = 1
    BY StartIs
  <1>. QED
    BY <1>1, <1>2

\* With nothing on the stack, a row is written whole.
LEMMA WholeRow ==
  ASSUME NEW S, NEW nodes \in Seq(S), NEW chunks \in Seq(Token), Len(chunks) = Len(nodes),
         Len(nodes) >= 2
  PROVE  Tokens(<<>>, nodes, chunks) = Row(Bare, chunks, 0)
  <1> DEFINE k == Known(<<>>, nodes)
  <1>1. k \in 0..Len(nodes) /\ (k > 0 => get_compression_id(<<>>, nodes[k]) > 0)
    <2>1. nodes \in Seq(S) /\ k = Known(<<>>, nodes)
      OBVIOUS
    <2> HIDE DEF k
    <2>. QED
      BY ONLY <2>1, KnownIs
  <1> HIDE DEF k
  <1>2. k = 0
    BY <1>1, NothingKnown
  <1>3. Tokens(<<>>, nodes, chunks) =
          IF k = Len(nodes) THEN <<<<"S", get_compression_id(<<>>, nodes[k])>>>>
          ELSE Row(Start(<<>>, nodes, k), chunks, k)
    BY TokensOf DEF k
  <1>4. k # Len(nodes)
    BY <1>2
  <1>. QED
    BY <1>2, <1>3, <1>4, BareIs

\* It has no end but its own, and is what is written.
LEMMA MemberRow ==
  ASSUME NEW c \in ILClasses, NEW r, r = Requested[c], NEW n \in MemberNames
  PROVE  /\ MemberChunks(r, n) \in Seq(Token) /\ Len(MemberChunks(r, n)) = Len(r) + 1
         /\ \A i \in 1..(Len(r) + 1) : MemberChunks(r, n)[i] # <<"E">>
         /\ Tokens(<<>>, Append(r, MemberNode), MemberChunks(r, n)) = Row(Bare, MemberChunks(r, n), 0)
  <1> DEFINE ch == Chunks(r)
             x == MemberChunk(n)
             mh == Append(ch, x)
             S == Seq(STRING) \cup {MemberNode}
             nodes == Append(r, MemberNode)
  <1>1. ch \in Seq(Token) /\ Len(ch) = Len(r) /\ \A i \in 1..Len(r) : ch[i] # <<"E">>
    BY ChunksOf DEF ChunksShape
  <1>2. x \in Token /\ x # <<"E">>
    BY MemberChunkIs
  <1>3. r \in Seq(Seq(STRING)) /\ Len(r) \in Nat /\ Len(r) >= 2
    BY RequestedSeq
  <1>4. nodes \in Seq(S) /\ Len(nodes) = Len(r) + 1
    <2>1. r \in Seq(S) /\ MemberNode \in S
      BY <1>3
    <2> HIDE DEF S
    <2>. QED
      BY <2>1
  <1> HIDE DEF ch, x, nodes, S
  <1>5. mh \in Seq(Token) /\ Len(mh) = Len(r) + 1 /\ mh[Len(r) + 1] = x /\ \A i \in 1..Len(r) : mh[i] = ch[i]
    BY <1>1, <1>2, AppendProperties
  <1>6. ASSUME NEW i \in 1..(Len(r) + 1) PROVE mh[i] # <<"E">>
    <2>1. i = Len(r) + 1 \/ i \in 1..Len(r)
      BY <1>3
    <2>. QED
      BY <2>1, <1>1, <1>2, <1>5
  <1>7. mh = MemberChunks(r, n)
    BY DEF MemberChunks, ch, x
  <1> HIDE DEF mh
  <1>8. Tokens(<<>>, nodes, mh) = Row(Bare, mh, 0)
    <2>1. Len(mh) = Len(nodes) /\ Len(nodes) >= 2
      BY <1>3, <1>4, <1>5
    <2>. QED
      BY ONLY <2>1, <1>4, <1>5, WholeRow
  <1>. QED
    BY <1>5, <1>6, <1>7, <1>8 DEF nodes

\* What is written for a member when the stack is empty.
MemberTokens(p, o, n) == Row(Bare, MemberChunks(p[o], n), 0)

\* A member of a registered class.
LEMMA MemberTokensIs ==
  ASSUME NEW p, PathOk(p), NEW o, OwnerKnown(p, o), NEW n \in MemberNames
  PROVE  /\ MemberTokens(p, o, n) \in Seq(Token)
         /\ Tokens(<<>>, Append(p[o], MemberNode), MemberChunks(p[o], n)) = MemberTokens(p, o, n)
  <1>1. PICK c \in ILClasses : o = ClassId(c) /\ o \in DOMAIN p
    BY DEF OwnerKnown
  <1> DEFINE r == p[o]
             mh == MemberChunks(r, n)
  <1>2. r = Requested[c]
    BY <1>1, ClassNodes
  <1> HIDE DEF r
  <1>3. mh \in Seq(Token) /\ Tokens(<<>>, Append(r, MemberNode), mh) = Row(Bare, mh, 0)
    BY <1>2, MemberRow
  <1> HIDE DEF mh
  <1>4. Row(Bare, mh, 0) \in Seq(Token)
    <2>1. 0 \in 0..Len(mh)
      BY <1>3
    <2>. QED
      BY <2>1, <1>3, BareIs, RowAt
  <1>. QED
    BY <1>3, <1>4 DEF mh, r, MemberTokens

\* write_member writes the row of the member.
LEMMA MemberWritten ==
  ASSUME NEW p, PathOk(p), NEW o, OwnerKnown(p, o), NEW n \in MemberNames,
         NEW w, IsWriter(w), w.stack = <<>>, NEW v, v = write_member(w, p, o, n)
  PROVE  IsWriter(v) /\ v.out = w.out \o MemberTokens(p, o, n)
  <1> DEFINE nodes == Append(p[o], MemberNode)
             mh == MemberChunks(p[o], n)
             T == Tokens(w.stack, nodes, mh)
  <1>1. T \in Seq(Token) /\ T = MemberTokens(p, o, n)
    BY MemberTokensIs
  <1>2. v = write_chunk_or_compression(w, nodes, mh)
    BY DEF write_member, MemberChunks
  <1> HIDE DEF nodes, mh
  <1>3. IsWriter(v) /\ v.out = w.out \o T
    BY <1>1, <1>2, ChunksWritten
  <1>. QED
    BY <1>1, <1>3

\* Members of different classes, or of different names, are told apart.
LEMMA MembersClash ==
  ASSUME NEW p, PathOk(p), NEW o, OwnerKnown(p, o), NEW n \in MemberNames,
         NEW oo, OwnerKnown(p, oo), NEW nn \in MemberNames, o # oo \/ n # nn
  PROVE  Clash(MemberTokens(p, o, n), MemberTokens(p, oo, nn))
  <1>1. PICK c \in ILClasses : o = ClassId(c) /\ o \in DOMAIN p
    BY DEF OwnerKnown
  <1>2. PICK d \in ILClasses : oo = ClassId(d) /\ oo \in DOMAIN p
    BY DEF OwnerKnown
  <1> DEFINE r == p[o]
             q == p[oo]
             ch == Chunks(r)
             dh == Chunks(q)
             x == MemberChunk(n)
             y == MemberChunk(nn)
             mh == MemberChunks(r, n)
             nh == MemberChunks(q, nn)
  <1>3. r = Requested[c] /\ q = Requested[d]
    BY <1>1, <1>2, ClassNodes
  <1>4. r # q \/ n # nn
    BY <1>1, <1>2, <1>3 DEF ClassId
  <1> HIDE DEF r, q
  <1>5. ch \in Seq(Token) /\ dh \in Seq(Token)
    BY <1>3, ChunksOf DEF ChunksShape
  <1>6. x \in Token /\ y \in Token
    BY MemberChunkIs
  <1>7. ch # dh \/ x # y
    BY <1>3, <1>4, ChunksDiffer, MemberChunksDiffer
  <1>8. mh = Append(ch, x) /\ nh = Append(dh, y)
    BY DEF MemberChunks
  <1>9. /\ mh \in Seq(Token) /\ Len(mh) = Len(r) + 1
        /\ \A i \in 1..(Len(r) + 1) : mh[i] # <<"E">>
    BY <1>3, MemberRow
  <1>10. /\ nh \in Seq(Token) /\ Len(nh) = Len(q) + 1
         /\ \A i \in 1..(Len(q) + 1) : nh[i] # <<"E">>
    BY <1>3, MemberRow
  <1>11. Len(r) \in Nat /\ Len(q) \in Nat
    BY <1>3, RequestedSeq
  <1> HIDE DEF ch, dh, x, y, mh, nh
  <1>12. mh # nh
    BY <1>5, <1>6, <1>7, <1>8, AppendInjective
  <1>13. Clash(Row(Bare, mh, 0), Row(Bare, nh, 0))
    <2>1. Bare \in Seq(Token) /\ 0 \in Nat /\ 0 < Len(mh) /\ 0 < Len(nh) /\ \A i \in 1..0 : mh[i] = nh[i]
      BY BareIs, <1>9, <1>10, <1>11
    <2>2. \A i \in 1..Len(mh) : mh[i] # <<"E">>
      BY <1>9
    <2>3. \A i \in 1..Len(nh) : nh[i] # <<"E">>
      BY <1>10
    <2>. QED
      BY ONLY <2>1, <2>2, <2>3, <1>9, <1>10, <1>12, RowsClash
  <1>. QED
    BY <1>13 DEF mh, nh, r, q, MemberTokens

NamePrefixes == {"_Z", "_ZTV", "_ZZ"}

\* A new writer.
LEMMA WriterIs ==
  ASSUME NEW x \in NamePrefixes, NEW w, w = Writer(x, <<>>)
  PROVE  IsWriter(w) /\ w.out = <<x>> /\ w.stack = <<>> /\ <<x>> \in Seq(Token)
  <1>1. x \in Token
    BY DEF NamePrefixes, Token
  <1> DEFINE y == <<x>>
  <1>2. y \in Seq(Token)
    BY <1>1
  <1>3. w = [out |-> y, stack |-> <<>>]
    BY DEF Writer
  <1> HIDE DEF y
  <1>4. w.out = y /\ w.stack = <<>>
    BY <1>3
  <1>. QED
    BY <1>2, <1>3, <1>4 DEF IsWriter, y

\* What goes on from A starts as A does.
LEMMA StartsAlike ==
  ASSUME NEW a \in Seq(Token), Len(a) >= 1, NEW b, GoesOn(a, b)
  PROVE  b \in Seq(Token) /\ Len(b) >= 1 /\ b[1] = a[1]
  <1>1. PICK u \in Seq(Token) : b = a \o u
    BY DEF GoesOn
  <1>. QED
    BY <1>1

\* A prefix, and what follows it.
LEMMA AfterPrefix ==
  ASSUME NEW x \in NamePrefixes, NEW T \in Seq(Token)
  PROVE  /\ <<x>> \o T \in Seq(Token) /\ (<<x>> \o T)[1] = x /\ GoesOn(<<x>>, <<x>> \o T)
         /\ \A U \in Seq(Token) : Clash(T, U) => Clash(<<x>> \o T, <<x>> \o U)
  <1> DEFINE y == <<x>>
  <1>1. y \in Seq(Token) /\ Len(y) = 1 /\ y[1] = x
    BY WriterIs
  <1> HIDE DEF y
  <1>2. y \o T \in Seq(Token) /\ (y \o T)[1] = x
    <2>1. y \o T \in Seq(Token)
      BY ONLY <1>1, T \in Seq(Token), ConcatProperties
    <2>2. (y \o T)[1] = y[1]
      <3>1. \A i \in 1..(Len(y) + Len(T)) : (y \o T)[i] = IF i <= Len(y) THEN y[i] ELSE T[i - Len(y)]
        BY ONLY <1>1, T \in Seq(Token), ConcatProperties
      <3>2. 1 \in 1..(Len(y) + Len(T))
        BY <1>1
      <3>. QED
        BY <3>1, <3>2, <1>1
    <2>. QED
      BY <2>1, <2>2, <1>1
  <1>3. GoesOn(y, y \o T)
    BY DEF GoesOn
  <1>4. \A U \in Seq(Token) : Clash(T, U) => Clash(y \o T, y \o U)
    BY <1>1, ClashAfter
  <1>. QED
    BY <1>2, <1>3, <1>4 DEF y

\* The name of a method: its class and name, then its types.
LEMMA MethodWritten ==
  ASSUME NEW p, PathOk(p), NEW d, MethodKnown(p, d), NEW x \in NamePrefixes,
         NEW w, w = write_member(Writer(x, <<>>), p, d.owner, d.name),
         NEW v, v = write_method(Writer(x, <<>>), p, d)
  PROVE  /\ IsWriter(w) /\ w.out = <<x>> \o MemberTokens(p, d.owner, d.name)
         /\ v = write_method_type(w, p, d.params)
         /\ IsWriter(v) /\ GoesFurther(w.out, v.out)
  <1>1. OwnerKnown(p, d.owner) /\ d.name \in MemberNames /\ TypesKnown(p, d.params)
    BY DEF MethodKnown
  <1> DEFINE u == Writer(x, <<>>)
             o == d.owner
             n == d.name
             ts == d.params
  <1>2. IsWriter(u) /\ u.out = <<x>> /\ u.stack = <<>>
    BY WriterIs
  <1>3. v = write_method_type(w, p, ts) /\ w = write_member(u, p, o, n)
    BY DEF write_method
  <1> HIDE DEF u, o, n, ts
  <1>4. OwnerKnown(p, o) /\ n \in MemberNames /\ TypesKnown(p, ts)
    BY <1>1 DEF o, n, ts
  <1>5. IsWriter(w) /\ w.out = u.out \o MemberTokens(p, o, n)
    BY <1>2, <1>3, <1>4, MemberWritten
  <1>6. IsWriter(v) /\ GoesFurther(w.out, v.out)
    BY <1>3, <1>4, <1>5, ListWritten
  <1>. QED
    BY <1>2, <1>3, <1>5, <1>6 DEF o, n, ts

\* Methods that differ in more than their result and their kind have different names.
LEMMA MethodsDiffer ==
  ASSUME NEW p, PathOk(p), NEW d, MethodKnown(p, d), NEW e, MethodKnown(p, e), NEW x \in NamePrefixes,
         write_method(Writer(x, <<>>), p, d).out = write_method(Writer(x, <<>>), p, e).out
  PROVE  d.owner = e.owner /\ d.name = e.name /\ d.params = e.params
  <1> DEFINE dw == write_member(Writer(x, <<>>), p, d.owner, d.name)
             ew == write_member(Writer(x, <<>>), p, e.owner, e.name)
             dv == write_method(Writer(x, <<>>), p, d)
             ev == write_method(Writer(x, <<>>), p, e)
             dt == MemberTokens(p, d.owner, d.name)
             et == MemberTokens(p, e.owner, e.name)
  <1>1. /\ OwnerKnown(p, d.owner) /\ d.name \in MemberNames /\ TypesKnown(p, d.params)
        /\ OwnerKnown(p, e.owner) /\ e.name \in MemberNames /\ TypesKnown(p, e.params)
    BY DEF MethodKnown
  <1>2. /\ IsWriter(dw) /\ dw.out = <<x>> \o dt /\ dv = write_method_type(dw, p, d.params)
        /\ GoesFurther(dw.out, dv.out)
    BY MethodWritten
  <1>3. /\ IsWriter(ew) /\ ew.out = <<x>> \o et /\ ev = write_method_type(ew, p, e.params)
        /\ GoesFurther(ew.out, ev.out)
    BY MethodWritten
  <1>4. dt \in Seq(Token) /\ et \in Seq(Token)
    BY <1>1, MemberTokensIs
  <1>5. dv.out = ev.out
    OBVIOUS
  <1>6. d.owner # e.owner \/ d.name # e.name => Clash(dt, et)
    BY <1>1, MembersClash
  <1>7. d.owner = e.owner /\ d.name = e.name => dw = ew
    OBVIOUS
  <1> HIDE DEF dw, ew, dv, ev, dt, et
  <1>8. ~Clash(dt, et)
    <2>1. SUFFICES ASSUME Clash(dt, et) PROVE FALSE
      OBVIOUS
    <2>2. Clash(dw.out, ew.out) /\ dw.out \in Seq(Token) /\ ew.out \in Seq(Token)
      BY <2>1, <1>2, <1>3, <1>4, AfterPrefix
    <2>3. GoesOn(dw.out, dv.out) /\ GoesOn(ew.out, ev.out)
      BY <1>2, <1>3, FurtherIsOn
    <2>. QED
      BY <2>2, <2>3, <1>5, ClashGoesOn
  <1>9. d.owner = e.owner /\ d.name = e.name /\ dw = ew
    BY <1>6, <1>7, <1>8
  <1>10. d.params = e.params
    BY <1>1, <1>2, <1>3, <1>5, <1>9, ListsDiffer
  <1>. QED
    BY <1>9, <1>10

\* The names of the other kinds.
LEMMA FieldWritten ==
  ASSUME NEW p, PathOk(p), NEW d, FieldKnown(p, d)
  PROVE  /\ MemberTokens(p, d.owner, d.name) \in Seq(Token)
         /\ Mangled(p, <<>>, d).out = <<"_Z">> \o MemberTokens(p, d.owner, d.name)
  <1> DEFINE u == Writer("_Z", <<>>)
             o == d.owner
             n == d.name
  <1>1. OwnerKnown(p, o) /\ n \in MemberNames /\ d.kind = "field"
    BY DEF FieldKnown
  <1>2. Mangled(p, <<>>, d) = write_member(u, p, o, n)
    BY <1>1 DEF Mangled
  <1>3. IsWriter(u) /\ u.out = <<"_Z">> /\ u.stack = <<>>
    BY WriterIs DEF NamePrefixes
  <1> HIDE DEF u, o, n
  <1>4. write_member(u, p, o, n).out = u.out \o MemberTokens(p, o, n)
    BY <1>1, <1>3, MemberWritten
  <1>5. MemberTokens(p, o, n) \in Seq(Token)
    BY <1>1, MemberTokensIs
  <1>. QED
    BY <1>2, <1>3, <1>4, <1>5 DEF o, n

VtableTokens(p, o) == Tokens(<<>>, p[o], Chunks(p[o]))

\* The vtables of two classes are told apart.
LEMMA VtableTokensIs ==
  ASSUME NEW p, PathOk(p), NEW o, OwnerKnown(p, o)
  PROVE  /\ VtableTokens(p, o) \in Seq(Token)
         /\ \A oo : OwnerKnown(p, oo) /\ o # oo => Clash(VtableTokens(p, o), VtableTokens(p, oo))
  <1>1. PICK c \in ILClasses : o = ClassId(c) /\ o \in DOMAIN p
    BY DEF OwnerKnown
  <1> DEFINE r == p[o]
             T == Tokens(<<>>, r, Chunks(r))
             k == Known(<<>>, r)
             ch == Chunks(r)
  <1>2. r = Requested[c]
    BY <1>1, ClassNodes
  <1> HIDE DEF r
  <1>3. T \in Seq(Token)
    <2>1. T = Tokens(<<>>, r, ch) /\ k = Known(<<>>, r) /\ ch = Chunks(r)
      OBVIOUS
    <2> HIDE DEF T, k, ch
    <2>2. ClassShape(<<>>, r, ch, k, T)
      BY <2>1, <1>2, ClassTokens
    <2>. QED
      BY ONLY <2>2 DEF ClassShape
  <1>4. ASSUME NEW oo, OwnerKnown(p, oo), o # oo
        PROVE  Clash(VtableTokens(p, o), VtableTokens(p, oo))
    <2>1. PICK d \in ILClasses : oo = ClassId(d) /\ oo \in DOMAIN p
      BY <1>4 DEF OwnerKnown
    <2> DEFINE q == p[oo]
    <2>2. q = Requested[d]
      BY <2>1, ClassNodes
    <2> HIDE DEF q
    <2>3. Clash(Tokens(<<>>, r, Chunks(r)), Tokens(<<>>, q, Chunks(q)))
      BY <1>1, <1>2, <1>4, <2>1, <2>2, ClassesClash
    <2>. QED
      BY <2>3 DEF VtableTokens, r, q
  <1>. QED
    BY <1>3, <1>4 DEF VtableTokens, r

\* A vtable is named by its class.
LEMMA VtableWritten ==
  ASSUME NEW p, PathOk(p), NEW d, VtableKnown(p, d)
  PROVE  Mangled(p, <<>>, d).out = <<"_ZTV">> \o VtableTokens(p, d.owner)
  <1> DEFINE u == Writer("_ZTV", <<>>)
             o == d.owner
  <1>1. OwnerKnown(p, o) /\ d.kind = "vtable"
    BY DEF VtableKnown
  <1>2. Mangled(p, <<>>, d) = write_chunk_or_compression(u, p[o], Chunks(p[o]))
    BY <1>1 DEF Mangled
  <1>3. IsWriter(u) /\ u.out = <<"_ZTV">> /\ u.stack = <<>>
    BY WriterIs DEF NamePrefixes
  <1> HIDE DEF u, o
  <1>4. write_chunk_or_compression(u, p[o], Chunks(p[o])).out = u.out \o VtableTokens(p, o)
    BY <1>3, WritesTokens DEF VtableTokens
  <1>. QED
    BY <1>2, <1>3, <1>4 DEF o

\* The first token tells labels, vtables and the others apart.
NameStart(d) == CASE d.kind = "label" -> "_ZZ" [] d.kind = "vtable" -> "_ZTV" [] OTHER -> "_Z"

\* Which is what Mangled writes first.
LEMMA NameStarts ==
  ASSUME NEW p, PathOk(p), NEW d, DeclKnown(p, d)
  PROVE  Mangled(p, <<>>, d).out[1] = NameStart(d)
  <1> DEFINE out == Mangled(p, <<>>, d).out
  <1>0. \A x \in NamePrefixes : <<x>> \in Seq(Token) /\ Len(<<x>>) = 1 /\ <<x>>[1] = x
    BY WriterIs
  <1>1. ASSUME NEW e, MethodKnown(p, e), NEW x \in NamePrefixes
        PROVE  /\ IsWriter(write_method(Writer(x, <<>>), p, e))
               /\ write_method(Writer(x, <<>>), p, e).out \in Seq(Token)
               /\ Len(write_method(Writer(x, <<>>), p, e).out) >= 1
               /\ write_method(Writer(x, <<>>), p, e).out[1] = x
    <2> DEFINE w == write_member(Writer(x, <<>>), p, e.owner, e.name)
               v == write_method(Writer(x, <<>>), p, e)
               T == MemberTokens(p, e.owner, e.name)
               a == w.out
    <2>1. IsWriter(v) /\ IsWriter(w) /\ a = <<x>> \o T /\ GoesFurther(a, v.out)
      BY <1>1, MethodWritten
    <2>2. T \in Seq(Token)
      BY <1>1, MemberTokensIs DEF MethodKnown
    <2> HIDE DEF w, v, T, a
    <2>3. a \in Seq(Token) /\ a[1] = x /\ GoesOn(<<x>>, a)
      BY <2>1, <2>2, AfterPrefix
    <2>4. Len(a) >= 1
      <3> DEFINE z == <<x>>
      <3>1. z \in Seq(Token) /\ Len(z) >= 1 /\ GoesOn(z, a)
        BY <2>3, <1>0
      <3> HIDE DEF z
      <3>. QED
        BY ONLY <3>1, StartsAlike
    <2>5. v.out \in Seq(Token) /\ Len(v.out) >= 1 /\ v.out[1] = a[1]
      BY <2>1, <2>3, <2>4, FurtherIsOn, StartsAlike
    <2>. QED
      BY <2>1, <2>3, <2>5 DEF v
  <1>2. CASE MethodKnown(p, d)
    <2>1. d.kind = "method"
      BY <1>2 DEF MethodKnown
    <2>2. Mangled(p, <<>>, d) = write_method(Writer("_Z", <<>>), p, d)
      BY <2>1 DEF Mangled
    <2>3. NameStart(d) = "_Z"
      BY <2>1 DEF NameStart
    <2>. QED
      BY <2>2, <2>3, <1>1, <1>2 DEF NamePrefixes
  <1>3. CASE FieldKnown(p, d)
    <2>1. NameStart(d) = "_Z"
      BY <1>3 DEF NameStart, FieldKnown
    <2>. QED
      BY <2>1, <1>3, FieldWritten, AfterPrefix DEF NamePrefixes
  <1>4. CASE VtableKnown(p, d)
    <2>1. NameStart(d) = "_ZTV" /\ OwnerKnown(p, d.owner)
      BY <1>4 DEF NameStart, VtableKnown
    <2>2. VtableTokens(p, d.owner) \in Seq(Token)
      BY <2>1, VtableTokensIs
    <2>. QED
      BY <2>1, <2>2, <1>4, VtableWritten, AfterPrefix DEF NamePrefixes
  <1>5. CASE LabelKnown(p, d)
    <2>1. d.kind = "label" /\ MethodKnown(p, d.method) /\ d.name \in STRING
      BY <1>5 DEF LabelKnown
    <2>2. NameStart(d) = "_ZZ"
      BY <2>1 DEF NameStart
    <2> DEFINE v == write_method(Writer("_ZZ", <<>>), p, d.method)
               n == <<d.name>>
               x == <<"chunk", n>>
               y == <<"E">>
               u == <<x, y>>
    <2>3. Mangled(p, <<>>, d) = Write(v, u)
      BY <2>1 DEF Mangled
    <2>4. IsWriter(v) /\ v.out \in Seq(Token) /\ Len(v.out) >= 1 /\ v.out[1] = "_ZZ"
      BY <2>1, <1>1 DEF NamePrefixes
    <2>5. n \in Seq(STRING)
      <3>1. ASSUME NEW S, d.name \in S PROVE n \in Seq(S)
        BY <3>1
      <3>. QED
        BY <2>1, <3>1
    <2> HIDE DEF v, n
    <2>6. x \in Token /\ y \in Token
      BY <2>5 DEF Token
    <2> HIDE DEF x, y
    <2>7. u \in Seq(Token)
      BY <2>6
    <2> HIDE DEF u
    <2>8. Write(v, u).out = v.out \o u
      BY <2>4, <2>7, WriteIs
    <2>9. GoesOn(v.out, Write(v, u).out)
      BY <2>7, <2>8 DEF GoesOn
    <2>10. Write(v, u).out[1] = "_ZZ"
      BY <2>4, <2>9, StartsAlike
    <2>. QED
      BY <2>2, <2>3, <2>10
  <1>. QED
    BY <1>2, <1>3, <1>4, <1>5 DEF DeclKnown

\* A field and a method have different names, a method going on where the field ends.
LEMMA FieldIsNoMethod ==
  ASSUME NEW p, PathOk(p), NEW d, MethodKnown(p, d), NEW e, FieldKnown(p, e)
  PROVE  Mangled(p, <<>>, d).out # Mangled(p, <<>>, e).out
  <1> DEFINE w == write_member(Writer("_Z", <<>>), p, d.owner, d.name)
             v == write_method(Writer("_Z", <<>>), p, d)
             a == w.out
             b == v.out
             f == Mangled(p, <<>>, e).out
             dt == MemberTokens(p, d.owner, d.name)
             et == MemberTokens(p, e.owner, e.name)
             z == <<"_Z">>
  <1>1. /\ OwnerKnown(p, d.owner) /\ d.name \in MemberNames /\ d.kind = "method"
        /\ OwnerKnown(p, e.owner) /\ e.name \in MemberNames
    BY DEF MethodKnown, FieldKnown
  <1>2. Mangled(p, <<>>, d).out = b
    BY <1>1 DEF Mangled
  <1>3. a = z \o dt /\ GoesFurther(a, b)
    BY MethodWritten DEF NamePrefixes
  <1>4. f = z \o et
    BY FieldWritten
  <1>5. dt \in Seq(Token) /\ et \in Seq(Token)
    BY <1>1, MemberTokensIs
  <1>6. dt = et \/ Clash(dt, et)
    BY <1>1, MembersClash
  <1>7. /\ z \o dt \in Seq(Token) /\ z \o et \in Seq(Token)
        /\ Clash(dt, et) => Clash(z \o dt, z \o et)
    BY <1>5, AfterPrefix DEF NamePrefixes
  <1> HIDE DEF w, v, a, b, f, dt, et, z
  <1>8. CASE dt = et
    <2>1. a = f /\ a \in Seq(Token)
      BY <1>3, <1>4, <1>7, <1>8
    <2>. QED
      BY <2>1, <1>2, <1>3, FurtherDiffers DEF f
  <1>9. CASE Clash(dt, et)
    <2>1. Clash(a, f) /\ a \in Seq(Token) /\ f \in Seq(Token)
      BY <1>3, <1>4, <1>7, <1>9
    <2>2. GoesOn(a, b) /\ GoesOn(f, f)
      BY <2>1, <1>3, FurtherIsOn, GoesOnSelf
    <2>. QED
      BY <2>1, <2>2, <1>2, ClashGoesOn DEF f
  <1>. QED
    BY <1>6, <1>8, <1>9

\* Names tell what they are the names of, but for the result and the kind of a method.
LEMMA NamesTell ==
  ASSUME NEW p, PathOk(p), NEW d, DeclKnown(p, d), NEW e, DeclKnown(p, e),
         Mangled(p, <<>>, d).out = Mangled(p, <<>>, e).out, d.kind # "label"
  PROVE  d = e \/ SameButForResult(d, e)
  <1>1. NameStart(d) = NameStart(e)
    BY NameStarts
  <1>2. d.kind \in {"method", "field", "vtable"} /\ e.kind \in {"method", "field", "vtable", "label"}
    BY DEF DeclKnown, MethodKnown, FieldKnown, VtableKnown, LabelKnown
  <1>3. e.kind # "label" /\ (d.kind = "vtable" <=> e.kind = "vtable")
    BY <1>1, <1>2 DEF NameStart
  <1>4. /\ d.kind = "method" => MethodKnown(p, d)
        /\ e.kind = "method" => MethodKnown(p, e)
        /\ d.kind = "field" => FieldKnown(p, d)
        /\ e.kind = "field" => FieldKnown(p, e)
        /\ d.kind = "vtable" => VtableKnown(p, d)
        /\ e.kind = "vtable" => VtableKnown(p, e)
    BY DEF DeclKnown, MethodKnown, FieldKnown, VtableKnown, LabelKnown
  <1>5. CASE d.kind = "method" /\ e.kind = "method"
    <2>1. /\ Mangled(p, <<>>, d) = write_method(Writer("_Z", <<>>), p, d)
          /\ Mangled(p, <<>>, e) = write_method(Writer("_Z", <<>>), p, e)
      BY <1>5 DEF Mangled
    <2>2. d.owner = e.owner /\ d.name = e.name /\ d.params = e.params
      BY <2>1, <1>4, <1>5, MethodsDiffer DEF NamePrefixes
    <2>. QED
      BY <2>2, <1>5 DEF SameButForResult
  <1>6. CASE (d.kind = "method" /\ e.kind = "field") \/ (d.kind = "field" /\ e.kind = "method")
    BY <1>4, <1>6, FieldIsNoMethod
  <1>7. CASE d.kind = "field" /\ e.kind = "field"
    <2> DEFINE dt == MemberTokens(p, d.owner, d.name)
               et == MemberTokens(p, e.owner, e.name)
               z == <<"_Z">>
    <2>1. /\ OwnerKnown(p, d.owner) /\ d.name \in MemberNames
          /\ OwnerKnown(p, e.owner) /\ e.name \in MemberNames
          /\ d = [kind |-> "field", owner |-> d.owner, name |-> d.name]
          /\ e = [kind |-> "field", owner |-> e.owner, name |-> e.name]
      BY <1>4, <1>7 DEF FieldKnown
    <2>2. z \o dt = z \o et /\ dt \in Seq(Token) /\ et \in Seq(Token)
      BY <1>4, <1>7, FieldWritten
    <2>3. /\ z \o dt \in Seq(Token) /\ z \o et \in Seq(Token)
          /\ Clash(dt, et) => Clash(z \o dt, z \o et)
      BY <2>2, AfterPrefix DEF NamePrefixes
    <2>4. d.owner # e.owner \/ d.name # e.name => Clash(dt, et)
      BY <2>1, MembersClash
    <2> HIDE DEF dt, et, z
    <2>5. ~Clash(dt, et)
      BY <2>2, <2>3, ClashDiffers
    <2>6. d.owner = e.owner /\ d.name = e.name
      BY <2>4, <2>5
    <2>. QED
      BY <2>1, <2>6
  <1>8. CASE d.kind = "vtable" /\ e.kind = "vtable"
    <2> DEFINE dt == VtableTokens(p, d.owner)
               et == VtableTokens(p, e.owner)
               z == <<"_ZTV">>
    <2>1. /\ OwnerKnown(p, d.owner) /\ d = [kind |-> "vtable", owner |-> d.owner]
          /\ OwnerKnown(p, e.owner) /\ e = [kind |-> "vtable", owner |-> e.owner]
      BY <1>4, <1>8 DEF VtableKnown
    <2>2. z \o dt = z \o et
      BY <1>4, <1>8, VtableWritten
    <2>3. dt \in Seq(Token) /\ et \in Seq(Token) /\ (d.owner # e.owner => Clash(dt, et))
      BY <2>1, VtableTokensIs
    <2>4. /\ z \o dt \in Seq(Token) /\ z \o et \in Seq(Token)
          /\ Clash(dt, et) => Clash(z \o dt, z \o et)
      BY <2>3, AfterPrefix DEF NamePrefixes
    <2> HIDE DEF dt, et, z
    <2>5. ~Clash(dt, et)
      BY <2>2, <2>4, ClashDiffers
    <2>6. d.owner = e.owner
      BY <2>3, <2>5
    <2>. QED
      BY <2>1, <2>6
  <1>9. \/ d.kind = "method" /\ e.kind = "method"
        \/ (d.kind = "method" /\ e.kind = "field") \/ (d.kind = "field" /\ e.kind = "method")
        \/ d.kind = "field" /\ e.kind = "field"
        \/ d.kind = "vtable" /\ e.kind = "vtable"
    BY ONLY <1>2, <1>3
  <1>. QED
    BY <1>5, <1>6, <1>7, <1>8, <1>9

\* A name stays what it is when more trees are registered.
LEMMA MethodGrown ==
  ASSUME NEW p, PathOk(p), NEW q, Grown(p, q), NEW d, MethodKnown(p, d)
  PROVE  MethodKnown(q, d) /\ \A w : write_method(w, q, d) = write_method(w, p, d)
  <1>1. OwnerKnown(p, d.owner) /\ TypesKnown(p, d.params)
    BY DEF MethodKnown
  <1>2. OwnerKnown(q, d.owner) /\ q[d.owner] = p[d.owner]
    BY <1>1 DEF OwnerKnown, Grown
  <1>3. \A w : write_member(w, q, d.owner, d.name) = write_member(w, p, d.owner, d.name)
    BY <1>2 DEF write_member
  <1>4. \A w : write_method_type(w, q, d.params) = write_method_type(w, p, d.params)
    BY <1>1, ListGrown
  <1>5. TypesKnown(q, d.params)
    BY <1>1, ListGrown
  <1>6. ASSUME NEW w PROVE write_method(w, q, d) = write_method(w, p, d)
    BY <1>3, <1>4 DEF write_method
  <1>. QED
    BY <1>2, <1>5, <1>6 DEF MethodKnown

\* The same for the four kinds of names.
LEMMA NameGrown ==
  ASSUME NEW p, PathOk(p), NEW q, Grown(p, q), NEW d, DeclKnown(p, d), NEW st
  PROVE  DeclKnown(q, d) /\ Mangled(q, st, d) = Mangled(p, st, d)
  <1>0. \A o : OwnerKnown(p, o) => OwnerKnown(q, o) /\ q[o] = p[o]
    BY DEF OwnerKnown, Grown
  <1>1. CASE MethodKnown(p, d)
    <2>1. MethodKnown(q, d) /\ \A w : write_method(w, q, d) = write_method(w, p, d)
      BY <1>1, MethodGrown
    <2>2. d.kind = "method"
      BY <1>1 DEF MethodKnown
    <2>. QED
      BY <2>1, <2>2 DEF Mangled, DeclKnown
  <1>2. CASE FieldKnown(p, d)
    <2>1. FieldKnown(q, d) /\ q[d.owner] = p[d.owner] /\ d.kind = "field"
      BY <1>0, <1>2 DEF FieldKnown
    <2>. QED
      BY <2>1 DEF Mangled, write_member, DeclKnown
  <1>3. CASE VtableKnown(p, d)
    <2>1. VtableKnown(q, d) /\ q[d.owner] = p[d.owner] /\ d.kind = "vtable"
      BY <1>0, <1>3 DEF VtableKnown
    <2>. QED
      BY <2>1 DEF Mangled, DeclKnown
  <1>4. CASE LabelKnown(p, d)
    <2>1. /\ MethodKnown(q, d.method)
          /\ \A w : write_method(w, q, d.method) = write_method(w, p, d.method)
      BY <1>4, MethodGrown DEF LabelKnown
    <2>2. d.kind = "label" /\ LabelKnown(q, d)
      BY <1>4, <2>1 DEF LabelKnown
    <2>. QED
      BY <2>1, <2>2 DEF Mangled, DeclKnown
  <1>. QED
    BY <1>1, <1>2, <1>3, <1>4 DEF DeclKnown

-----------------------------------------------------------------------------
(* The invariant                                                             *)

\* All the trees are in the containers that were asked for; every name was made for
\* registered trees, and is the one that would be made now; a label is made only when
\* no tree has its name.
PathInv == PathOk(path)
DeclsInv ==
  \A e \in decls :
    /\ e = [decl |-> e.decl, assembler_name |-> e.assembler_name]
    /\ DeclKnown(path, e.decl) /\ e.assembler_name = Mangled(path, <<>>, e.decl).out
TreeInv ==
  /\ DOMAIN tree \subseteq ILMethods
  /\ \A m \in DOMAIN tree : MethodKnown(path, tree[m]) /\ \E e \in decls : e.decl = tree[m]
LabelsInv ==
  \A d, e \in decls :
    d.decl.kind = "label" /\ e.decl.kind = "label" /\ d.assembler_name = e.assembler_name => d = e
IndInv ==
  /\ PathInv /\ DeclsInv /\ TreeInv /\ LabelsInv
  /\ compression_stack = <<>> /\ status \in {"ok", "crashed"}

\* Initially.
LEMMA InitInd == Init => IndInv
  <1>1. SUFFICES ASSUME Init PROVE IndInv
    OBVIOUS
  <1>2. DOMAIN path = {} /\ decls = {} /\ DOMAIN tree = {}
    BY <1>1 DEF Init
  <1>3. PathInv /\ DeclsInv /\ TreeInv /\ LabelsInv
    BY <1>2 DEF PathInv, PathOk, DeclsInv, TreeInv, LabelsInv
  <1>. QED
    BY <1>1, <1>3 DEF Init, IndInv

\* A type of the program, once its class is registered.
LEMMA TypeTreeKnown ==
  ASSUME NEW p, PathOk(p), NEW t \in ILClasses \cup Primitives,
         t \in ILClasses => ClassId(t) \in DOMAIN p
  PROVE  TypeKnown(p, get_var_type_tree(t)) /\ get_var_type_tree(t) \in TypeTree
  <1> DEFINE b == t \in ILClasses \ ValueTypes
             n == IF t \in Primitives THEN Builtin(native_type_trees[t]) ELSE ClassId(t)
             u == [pointer |-> b, node |-> n]
  <1>1. b \in BOOLEAN
    OBVIOUS
  <1>2. get_var_type_tree(t) = u
    BY DEF get_var_type_tree
  <1>3. \/ \E ch \in NativeChunks : n = Builtin(ch)
        \/ \E c \in ILClasses : ClassId(c) \in DOMAIN p /\ n = ClassId(c)
    BY DEF NativeChunks
  <1>4. n \in Seq(STRING) \cup ({"builtin"} \X NativeChunks)
    BY <1>3, ClassNodes DEF Builtin
  <1> HIDE DEF b, n
  <1>5. TypeKnown(p, u)
    BY <1>1, <1>3 DEF TypeKnown
  <1>6. u \in TypeTree
    BY <1>1, <1>4 DEF TypeTree
  <1>. QED
    BY <1>2, <1>5, <1>6

\* A method of the program, once its class and types are registered.
LEMMA MethodTreeKnown ==
  ASSUME NEW p, PathOk(p), NEW m \in ILMethods, NEW q, q = WithTypes(p, m)
  PROVE  PathOk(q) /\ Grown(p, q) /\ MethodKnown(q, MethodTree(m))
  <1> DEFINE d == MethodTree(m)
             ts == m.params
             us == d.params
             n == Len(ts)
  <1>1. /\ PathOk(q) /\ Grown(p, q) /\ ClassId(m.owner) \in DOMAIN q
        /\ \A k \in DOMAIN ts : ts[k] \in ILClasses => ClassId(ts[k]) \in DOMAIN q
    BY RegisterTypes
  <1>2. m.owner \in ILClasses /\ m.name \in MemberNames /\ ts \in Seq(ILClasses \cup Primitives)
    BY MembersAssumption DEF MemberNames
  <1>3. /\ d.kind = "method" /\ d.owner = ClassId(m.owner) /\ d.name = m.name
        /\ us = [k \in DOMAIN ts |-> get_var_type_tree(ts[k])]
    BY DEF MethodTree
  <1> HIDE DEF d, ts, us
  <1>4. n \in Nat /\ DOMAIN ts = 1..n /\ \A k \in 1..n : ts[k] \in ILClasses \cup Primitives
    BY <1>2
  <1>5. ASSUME NEW k \in 1..n PROVE TypeKnown(q, us[k]) /\ us[k] \in TypeTree
    <2>1. us[k] = get_var_type_tree(ts[k])
      BY <1>3, <1>4
    <2> DEFINE t == ts[k]
    <2>2. t \in ILClasses \cup Primitives /\ (t \in ILClasses => ClassId(t) \in DOMAIN q)
      BY <1>1, <1>4
    <2> HIDE DEF t
    <2>3. TypeKnown(q, get_var_type_tree(t)) /\ get_var_type_tree(t) \in TypeTree
      BY <1>1, <2>2, TypeTreeKnown
    <2>. QED
      BY <2>1, <2>3 DEF t
  <1>6. us \in Seq(TypeTree) /\ Len(us) = n
    <2>1. us \in [1..n -> TypeTree]
      BY <1>3, <1>4, <1>5
    <2>. QED
      BY <2>1, <1>4
  <1>7. TypesKnown(q, us)
    BY <1>5, <1>6 DEF TypesKnown
  <1>8. OwnerKnown(q, d.owner) /\ d.name \in MemberNames
    BY <1>1, <1>2, <1>3 DEF OwnerKnown
  <1>9. MethodKnown(q, d)
    BY <1>3, <1>7, <1>8 DEF MethodKnown, us
  <1>. QED
    BY <1>1, <1>9 DEF d

\* What is known stays known when trees are registered.
LEMMA StaysKnown ==
  ASSUME IndInv, NEW q, Grown(path, q)
  PROVE  /\ \A e \in decls :
              /\ e = [decl |-> e.decl, assembler_name |-> e.assembler_name]
              /\ DeclKnown(q, e.decl) /\ e.assembler_name = Mangled(q, <<>>, e.decl).out
         /\ \A m \in DOMAIN tree : MethodKnown(q, tree[m])
  <1>1. PathOk(path)
    BY DEF IndInv, PathInv
  <1>2. ASSUME NEW e \in decls
        PROVE  /\ e = [decl |-> e.decl, assembler_name |-> e.assembler_name]
               /\ DeclKnown(q, e.decl) /\ e.assembler_name = Mangled(q, <<>>, e.decl).out
    <2>1. /\ e = [decl |-> e.decl, assembler_name |-> e.assembler_name]
          /\ DeclKnown(path, e.decl) /\ e.assembler_name = Mangled(path, <<>>, e.decl).out
      BY DEF IndInv, DeclsInv
    <2>2. DeclKnown(q, e.decl) /\ Mangled(q, <<>>, e.decl) = Mangled(path, <<>>, e.decl)
      BY <1>1, <2>1, NameGrown
    <2>. QED
      BY <2>1, <2>2
  <1>3. ASSUME NEW m \in DOMAIN tree PROVE MethodKnown(q, tree[m])
    <2>1. MethodKnown(path, tree[m])
      BY DEF IndInv, TreeInv
    <2>. QED
      BY <1>1, <2>1, MethodGrown
  <1>. QED
    BY <1>2, <1>3

\* Making a name.
LEMMA NameMade ==
  ASSUME IndInv, Grown(path, path'), NEW d, DeclKnown(path', d), MakeName(path', d),
         d.kind = "label" => \A e \in decls : e.assembler_name # Mangled(path', <<>>, d).out
  PROVE  /\ DeclsInv' /\ LabelsInv' /\ compression_stack' = <<>>
         /\ decls \subseteq decls' /\ \E e \in decls' : e.decl = d
  <1> DEFINE o == Mangled(path', <<>>, d).out
             f == [decl |-> d, assembler_name |-> o]
  <1>0. compression_stack = <<>> /\ LabelsInv
    BY DEF IndInv
  <1>1. decls' = decls \cup {f} /\ compression_stack' = <<>>
    BY <1>0 DEF MakeName, complete_mangling
  <1>2. f.decl = d /\ f.assembler_name = o
    OBVIOUS
  <1>3. o = Mangled(path', <<>>, d).out
    OBVIOUS
  <1>4. f = [decl |-> f.decl, assembler_name |-> f.assembler_name]
    OBVIOUS
  <1> HIDE DEF f, o
  <1>5. ASSUME NEW e \in decls'
        PROVE  /\ e = [decl |-> e.decl, assembler_name |-> e.assembler_name]
               /\ DeclKnown(path', e.decl) /\ e.assembler_name = Mangled(path', <<>>, e.decl).out
    <2>1. CASE e \in decls
      BY <2>1, StaysKnown
    <2>2. CASE e = f
      BY <2>2, <1>2, <1>3, <1>4
    <2>. QED
      BY <1>1, <2>1, <2>2
  <1>6. DeclsInv'
    BY <1>5 DEF DeclsInv
  <1>7. ASSUME NEW a \in decls', NEW b \in decls', a.decl.kind = "label", b.decl.kind = "label",
               a.assembler_name = b.assembler_name
        PROVE  a = b
    <2>1. CASE a \in decls /\ b \in decls
      BY <2>1, <1>0, <1>7 DEF LabelsInv
    <2>2. CASE a = f /\ b \in decls
      BY <2>2, <1>2, <1>3, <1>7
    <2>3. CASE b = f /\ a \in decls
      BY <2>3, <1>2, <1>3, <1>7
    <2>. QED
      BY <1>1, <2>1, <2>2, <2>3
  <1>8. LabelsInv'
    BY <1>7 DEF LabelsInv
  <1>. QED
    BY <1>1, <1>2, <1>6, <1>8

\* No names are made.
LEMMA NoNameMade ==
  ASSUME IndInv, Grown(path, path'), UNCHANGED <<decls, compression_stack>>
  PROVE  DeclsInv' /\ LabelsInv' /\ compression_stack' = <<>>
  <1>1. DeclsInv'
    BY StaysKnown DEF DeclsInv
  <1>2. LabelsInv'
    BY DEF IndInv, LabelsInv
  <1>. QED
    BY <1>1, <1>2 DEF IndInv

\* register_method
LEMMA MethodStep ==
  ASSUME IndInv, NEW m \in ILMethods, register_method(m)
  PROVE  IndInv'
  <1> DEFINE d == MethodTree(m)
             same == {e \in decls : /\ e.decl.kind = "method" /\ e.decl.owner = d.owner
                                    /\ e.decl.name = d.name /\ types_equal_p(e.decl, d)}
  <1>1. path' = WithTypes(path, m)
    BY DEF register_method
  <1>2. PathOk(path') /\ Grown(path, path') /\ MethodKnown(path', d)
    BY <1>1, MethodTreeKnown DEF IndInv, PathInv
  <1>3. \/ status' = "crashed" /\ UNCHANGED <<decls, tree, compression_stack>>
        \/ /\ \E e \in same : tree' = [x \in DOMAIN tree \cup {m} |-> IF x = m THEN e.decl ELSE tree[x]]
           /\ UNCHANGED <<decls, compression_stack, status>>
        \/ /\ MakeName(path', d)
           /\ tree' = [x \in DOMAIN tree \cup {m} |-> IF x = m THEN d ELSE tree[x]]
           /\ UNCHANGED status
    BY <1>1 DEF register_method
  <1>4. DOMAIN tree \subseteq ILMethods /\ status \in {"ok", "crashed"}
    BY DEF IndInv, TreeInv
  <1>5. \A x \in DOMAIN tree : MethodKnown(path', tree[x])
    BY <1>2, StaysKnown
  <1>6. \A x \in DOMAIN tree : \E e \in decls : e.decl = tree[x]
    BY DEF IndInv, TreeInv
  <1>7. CASE status' = "crashed" /\ UNCHANGED <<decls, tree, compression_stack>>
    <2>1. DeclsInv' /\ LabelsInv' /\ compression_stack' = <<>>
      BY <1>2, <1>7, NoNameMade
    <2>2. TreeInv'
      BY <1>4, <1>5, <1>6, <1>7 DEF TreeInv
    <2>. QED
      BY <1>2, <1>7, <2>1, <2>2 DEF IndInv, PathInv
  <1>8. CASE /\ \E e \in same : tree' = [x \in DOMAIN tree \cup {m} |-> IF x = m THEN e.decl ELSE tree[x]]
             /\ UNCHANGED <<decls, compression_stack, status>>
    <2>1. DeclsInv' /\ LabelsInv' /\ compression_stack' = <<>>
      BY <1>2, <1>8, NoNameMade
    <2>2. PICK e \in decls : /\ e.decl.kind = "method"
                             /\ tree' = [x \in DOMAIN tree \cup {m} |-> IF x = m THEN e.decl ELSE tree[x]]
      BY <1>8
    <2>3. MethodKnown(path', e.decl)
      <3>1. DeclKnown(path', e.decl)
        BY <1>2, StaysKnown
      <3>. QED
        BY <3>1, <2>2 DEF DeclKnown, FieldKnown, VtableKnown, LabelKnown
    <2>4. TreeInv'
      BY <1>4, <1>5, <1>6, <1>8, <2>2, <2>3 DEF TreeInv
    <2>. QED
      BY <1>2, <1>4, <1>8, <2>1, <2>4 DEF IndInv, PathInv
  <1>9. CASE /\ MakeName(path', d)
             /\ tree' = [x \in DOMAIN tree \cup {m} |-> IF x = m THEN d ELSE tree[x]]
             /\ UNCHANGED status
    <2>1. d.kind # "label" /\ DeclKnown(path', d)
      BY <1>2 DEF MethodKnown, DeclKnown
    <2> HIDE DEF d
    <2>2. /\ DeclsInv' /\ LabelsInv' /\ compression_stack' = <<>>
          /\ decls \subseteq decls' /\ \E e \in decls' : e.decl = d
      BY <1>2, <1>9, <2>1, NameMade
    <2>3. TreeInv'
      BY <1>2, <1>4, <1>5, <1>6, <1>9, <2>2 DEF TreeInv
    <2>. QED
      BY <1>2, <1>4, <1>9, <2>2, <2>3 DEF IndInv, PathInv
  <1>. QED
    BY <1>3, <1>7, <1>8, <1>9

\* A name for a member or the vtable of a class.
LEMMA ClassNamed ==
  ASSUME IndInv, NEW c \in ILClasses, path' = register_class(path, c), NEW d,
         OwnerKnown(path', ClassId(c)) => DeclKnown(path', d), d.kind # "label",
         MakeName(path', d), UNCHANGED <<tree, status>>
  PROVE  IndInv'
  <1>1. PathOk(path') /\ Grown(path, path') /\ ClassId(c) \in DOMAIN path'
    BY RegisterClass DEF IndInv, PathInv
  <1>2. DeclKnown(path', d)
    BY <1>1 DEF OwnerKnown
  <1>3. DeclsInv' /\ LabelsInv' /\ compression_stack' = <<>> /\ decls \subseteq decls'
    BY <1>1, <1>2, NameMade
  <1>4. \A x \in DOMAIN tree : MethodKnown(path', tree[x])
    BY <1>1, StaysKnown
  <1>5. TreeInv'
    BY <1>3, <1>4 DEF IndInv, TreeInv
  <1>. QED
    BY <1>1, <1>3, <1>5 DEF IndInv, PathInv

\* register_static_field
LEMMA FieldStep ==
  ASSUME IndInv, NEW f \in ILFields, register_static_field(f)
  PROVE  IndInv'
  <1> DEFINE d == [kind |-> "field", owner |-> ClassId(f.owner), name |-> f.name]
             o == ClassId(f.owner)
  <1>1. f.owner \in ILClasses /\ f.name \in MemberNames
    BY MembersAssumption DEF MemberNames
  <1>2. path' = register_class(path, f.owner) /\ MakeName(path', d) /\ UNCHANGED <<tree, status>>
    BY DEF register_static_field
  <1>3. d.kind = "field" /\ d.owner = o /\ d.name = f.name
    OBVIOUS
  <1>4. d = [kind |-> "field", owner |-> d.owner, name |-> d.name]
    OBVIOUS
  <1> HIDE DEF d
  <1>5. OwnerKnown(path', o) => DeclKnown(path', d)
    BY <1>1, <1>3, <1>4 DEF DeclKnown, FieldKnown
  <1>. QED
    BY <1>1, <1>2, <1>3, <1>5, ClassNamed

\* make_vtable
LEMMA VtableStep ==
  ASSUME IndInv, NEW c \in ILClasses, make_vtable(c)
  PROVE  IndInv'
  <1> DEFINE d == [kind |-> "vtable", owner |-> ClassId(c)]
  <1>1. path' = register_class(path, c) /\ MakeName(path', d) /\ UNCHANGED <<tree, status>>
    BY DEF make_vtable
  <1>2. d.kind = "vtable" /\ d.owner = ClassId(c) /\ d = [kind |-> "vtable", owner |-> d.owner]
    OBVIOUS
  <1> HIDE DEF d
  <1>3. OwnerKnown(path', ClassId(c)) => DeclKnown(path', d)
    BY <1>2 DEF DeclKnown, VtableKnown
  <1>. QED
    BY <1>1, <1>2, <1>3, ClassNamed

\* get_label
LEMMA LabelStep ==
  ASSUME IndInv, NEW m \in DOMAIN tree, NEW l \in Labels, get_label(m, l)
  PROVE  IndInv'
  <1> DEFINE d == [kind |-> "label", method |-> tree[m], name |-> l]
  <1>1. /\ \A e \in decls : e.assembler_name # Mangled(path, <<>>, d).out
        /\ MakeName(path, d) /\ UNCHANGED <<path, tree, status>>
    BY DEF get_label, IndInv
  <1>2. Grown(path, path')
    BY <1>1 DEF Grown
  <1>3. d.kind = "label" /\ d.method = tree[m] /\ d.name = l /\ l \in STRING
    BY MembersAssumption
  <1>4. MethodKnown(path, tree[m])
    BY DEF IndInv, TreeInv
  <1> HIDE DEF d
  <1>5. DeclKnown(path', d)
    BY <1>1, <1>3, <1>4 DEF DeclKnown, LabelKnown
  <1>6. /\ MakeName(path', d)
        /\ d.kind = "label" => \A e \in decls : e.assembler_name # Mangled(path', <<>>, d).out
    BY <1>1
  <1>7. DeclsInv' /\ LabelsInv' /\ compression_stack' = <<>> /\ decls \subseteq decls'
    BY <1>2, <1>5, <1>6, NameMade
  <1>8. TreeInv'
    BY <1>1, <1>7 DEF IndInv, TreeInv
  <1>. QED
    BY <1>1, <1>7, <1>8 DEF IndInv, PathInv

\* Every operation keeps the invariant, for every program and any number of names.
THEOREM Invariance == Spec => []IndInv
  <1>1. Init => IndInv
    BY InitInd
  <1>2. ASSUME IndInv, [Next]_vars PROVE IndInv'
    <2>1. ASSUME NEW m \in ILMethods, register_method(m) PROVE IndInv'
      BY <1>2, <2>1, MethodStep
    <2>2. ASSUME NEW f \in ILFields, register_static_field(f) PROVE IndInv'
      BY <1>2, <2>2, FieldStep
    <2>3. ASSUME NEW c \in ILClasses, make_vtable(c) PROVE IndInv'
      BY <1>2, <2>3, VtableStep
    <2>4. ASSUME NEW m \in DOMAIN tree, NEW l \in Labels, get_label(m, l) PROVE IndInv'
      BY <1>2, <2>4, LabelStep
    <2>5. CASE UNCHANGED vars
      BY <1>2, <2>5 DEF vars, IndInv, PathInv, DeclsInv, TreeInv, LabelsInv
    <2>. QED
      BY <1>2, <2>1, <2>2, <2>3, <2>4, <2>5 DEF Next
  <1>. QED
    BY <1>1, <1>2, PTL DEF Spec

\* Containers that were asked for are the containers that were to be had.
LEMMA PathTypes ==
  ASSUME NEW p, PathOk(p), NEW id \in DOMAIN p
  PROVE  /\ Last(p[id]) = id /\ ToSet(p[id]) \subseteq DOMAIN p
         /\ \E c \in ILClasses : IsPrefix(p[id], Requested[c])
  <1>1. PICK c \in ILClasses : \E i \in 1..Len(Requested[c]) :
          /\ Requested[c][i] = id /\ p[id] = SubSeq(Requested[c], 1, i)
          /\ \A j \in 1..i : Requested[c][j] \in DOMAIN p
    BY DEF PathOk
  <1> DEFINE r == Requested[c]
  <1>2. PICK i \in 1..Len(r) :
          /\ r[i] = id /\ p[id] = SubSeq(r, 1, i) /\ \A j \in 1..i : r[j] \in DOMAIN p
    BY <1>1
  <1>3. r \in Seq(Seq(STRING))
    BY RequestedSeq
  <1> HIDE DEF r
  <1> DEFINE v == SubSeq(r, 1, i)
  <1>4. v \in Seq(Seq(STRING)) /\ Len(v) = i /\ (\A k \in 1..i : v[k] = r[k]) /\ Last(v) = r[i]
    BY <1>2, <1>3, FirstOf
  <1> HIDE DEF v
  <1>5. ToSet(v) \subseteq DOMAIN p
    <2>1. DOMAIN v = 1..i
      BY ONLY <1>4
    <2>2. \A k \in DOMAIN v : v[k] \in DOMAIN p
      BY ONLY <1>2, <1>4, <2>1
    <2>. QED
      BY ONLY <2>2 DEF ToSet
  <1>6. IsPrefix(v, r)
    <2>1. SubSeq(v, 1, Len(v)) = v
      BY ONLY <1>4, SubSeqFull
    <2>2. Len(v) <= Len(r) /\ SubSeq(r, 1, Len(v)) = v
      BY <1>2, <1>3, <1>4 DEF v
    <2>. QED
      BY <2>1, <2>2 DEF IsPrefix
  <1>. QED
    BY <1>2, <1>4, <1>5, <1>6 DEF v, r

\* State types, however the classes are nested.  That a tree is in the containers its
\* class file names, though register_class asks SCIL_DECL for each of them by a dotted
\* name only, is so because NamesAssumption excludes dotted names that clash.
THEOREM TypeCorrect == Spec => []TypeOK
  <1>1. ASSUME IndInv PROVE TypeOK
    <2>1. PathOk(path)
      BY <1>1 DEF IndInv, PathInv
    <2>2. \A id \in DOMAIN path :
            /\ Last(path[id]) = id /\ ToSet(path[id]) \subseteq DOMAIN path
            /\ \E c \in ILClasses : IsPrefix(path[id], Requested[c])
      BY <2>1, PathTypes
    <2>. QED
      BY <1>1, <2>2 DEF IndInv, TreeInv, TypeOK
  <1>. QED
    BY <1>1, Invariance, PTL

\* An assembler name is that of the tree alone, for every program whose dotted names do
\* not clash (NamesAssumption): whatever was named
\* before and is registered later, mangling it again would write the same name, because
\* complete_mangling leaves nothing on the compression stack.
THEOREM NamesAreFixed == Spec => []NamesFixed
  <1>1. IndInv => NamesFixed
    BY DEF IndInv, DeclsInv, NamesFixed
  <1>. QED
    BY <1>1, Invariance, PTL

\* No two trees have one assembler name, for any number of names and every program
\* whose dotted names do not clash (NamesAssumption) and whose names do not begin with a
\* digit (ChunksAssumption, without which tokens are not what is written): compression
\* never writes one sequence of tokens for two different trees, and only methods that
\* differ in their result or in being static share a name.
THEOREM NamesAreDistinct == Spec => []NamesDistinct
  <1>1. ASSUME IndInv PROVE NamesDistinct
    <2>1. SUFFICES ASSUME NEW d \in decls, NEW e \in decls, d.assembler_name = e.assembler_name
                   PROVE  d = e \/ SameButForResult(d.decl, e.decl)
      BY DEF NamesDistinct
    <2>2. PathOk(path) /\ LabelsInv
      BY <1>1 DEF IndInv, PathInv
    <2>3. /\ d = [decl |-> d.decl, assembler_name |-> d.assembler_name]
          /\ e = [decl |-> e.decl, assembler_name |-> e.assembler_name]
          /\ DeclKnown(path, d.decl) /\ DeclKnown(path, e.decl)
          /\ Mangled(path, <<>>, d.decl).out = Mangled(path, <<>>, e.decl).out
      BY <1>1, <2>1 DEF IndInv, DeclsInv
    <2> DEFINE a == d.decl
               b == e.decl
    <2>4. a = b => d = e
      BY <2>1, <2>3
    <2>5. CASE a.kind = "label" /\ b.kind = "label"
      BY <2>1, <2>2, <2>5 DEF LabelsInv
    <2>6. CASE a.kind # "label"
      <3>1. a = b \/ SameButForResult(a, b)
        BY <2>2, <2>3, <2>6, NamesTell
      <3>. QED
        BY <3>1, <2>4
    <2>7. CASE b.kind # "label"
      <3>1. b = a \/ SameButForResult(b, a)
        BY <2>2, <2>3, <2>7, NamesTell
      <3>2. SameButForResult(b, a) => SameButForResult(a, b)
        BY DEF SameButForResult
      <3>. QED
        BY <3>1, <3>2, <2>4
    <2>. QED
      BY <2>5, <2>6, <2>7
  <1>. QED
    BY <1>1, Invariance, PTL

=============================================================================
