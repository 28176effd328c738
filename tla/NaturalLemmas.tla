--------------------------- MODULE NaturalLemmas ---------------------------
(***************************************************************************)
(* Facts about natural numbers, sums, iteration and folds over sequences   *)
(* that the proofs of this project share.                                  *)
(*                                                                         *)
(* Least stands in for induction: the induction rules of the library take  *)
(* a predicate as a parameter, which the provers cannot instantiate, but   *)
(* a set of counterexamples is a value, and it has a least member.         *)
(***************************************************************************)
EXTENDS Integers, FiniteSets, FiniteSetsExt, Functions, FiniteSetTheorems, TLAPS

\* Every nonempty set of natural numbers has a least member, because the
\* intervals from 0 are well-founded under inclusion.
LEMMA Least ==
  ASSUME NEW T, T \subseteq Nat, T # {}
  PROVE  \E n \in T : \A k \in T : n <= k
<1> DEFINE Below == {0..k : k \in T}
           R == StrictSubsetOrdering(Nat)
           F == FiniteSubsetsOf(Nat)
<1>1. IsWellFoundedOn(R, F)
  BY FS_StrictSubsetOrderingWellFounded
<1>2. Below # {}
  OBVIOUS
<1>3. Below \subseteq F
  <2> SUFFICES ASSUME NEW k \in T PROVE 0..k \in F
    OBVIOUS
  <2>1. k \in Int /\ 0 \in Int
    OBVIOUS
  <2>2. IsFiniteSet(0..k)
    BY <2>1, FS_Interval
  <2> QED
    BY <2>2 DEF FiniteSubsetsOf
<1> HIDE DEF R, F, Below
<1>4. PICK b \in Below : \A c \in Below : ~(<<c, b>> \in R)
  BY <1>1, <1>2, <1>3, WFMin
<1>5. PICK n \in T : b = 0..n
  BY DEF Below
<1>6. ASSUME NEW k \in T, k < n PROVE FALSE
  <2>1. 0..k \in Below
    BY DEF Below
  <2>2. n \in Nat /\ k \in Nat
    OBVIOUS
  <2>3. 0..k \subseteq 0..n
    BY <1>6, <2>2
  <2>4. n \in 0..n /\ n \notin 0..k
    BY <1>6, <2>2
  <2>5. 0..k # 0..n
    BY <2>4
  <2>6. <<0..k, 0..n>> \in R
    BY <2>3, <2>5 DEF R, StrictSubsetOrdering
  <2> QED
    BY <2>1, <2>6, <1>4, <1>5
<1> QED
  BY <1>6

\* A bounded, nonempty set of natural numbers has a maximum.
LEMMA MaxIs ==
  ASSUME NEW T, T \subseteq Nat, T # {}, NEW m \in Nat, \A y \in T : y <= m
  PROVE  Max(T) \in T /\ \A y \in T : y <= Max(T)
  <1> DEFINE B == {k \in Nat : \A y \in T : y <= k}
  <1>1. PICK n \in B : \A k \in B : n <= k
    <2>1. B \subseteq Nat /\ B # {}
      OBVIOUS
    <2>. QED
      BY <2>1, Least
  <1>2. n \in T
    <2> SUFFICES ASSUME n \notin T PROVE FALSE
      OBVIOUS
    <2>1. \A y \in T : y < n
      OBVIOUS
    <2>2. n # 0
      <3>1. PICK y \in T : y \in Nat /\ y < n
        BY <2>1
      <3>. QED
        BY <3>1
    <2>3. n - 1 \in B
      BY <2>1, <2>2
    <2>. QED
      BY <1>1, <2>3
  <1>3. \E x \in T : \A y \in T : x >= y
    BY <1>2
  <1>. QED
    BY <1>3 DEF Max

\* A multiple of N leaves no remainder.
LEMMA Multiple ==
  ASSUME NEW z \in Int, NEW n \in Nat, n > 0
  PROVE  (z * n) % n = 0
<1> DEFINE x == z * n
           q == x \div n
           r == x % n
<1>1. x \in Int
  OBVIOUS
<1> HIDE DEF x
<1>2. q \in Int /\ r \in 0..(n - 1) /\ x = q * n + r
  BY <1>1
<1> HIDE DEF q, r
<1>3. (z - q) * n = r
  BY <1>2 DEF x
<1>4. CASE z - q >= 1
  <2>1. (z - q) * n >= n
    BY <1>4, <1>2
  <2> QED
    BY <2>1, <1>2, <1>3
<1>5. CASE z - q <= -1
  <2>1. (z - q) * n <= -n
    BY <1>5, <1>2
  <2> QED
    BY <2>1, <1>2, <1>3
<1>6. CASE z - q = 0
  BY <1>6, <1>3, <1>2 DEF r, x
<1> QED
  BY <1>4, <1>5, <1>6, <1>2

\* Equal remainders: the difference is a multiple.
LEMMA SameRemainder ==
  ASSUME NEW a \in Int, NEW b \in Int, NEW n \in Nat, n > 0, a % n = b % n
  PROVE  (b - a) % n = 0
<1> DEFINE qa == a \div n
           qb == b \div n
           r == a % n
<1>1. qa \in Int /\ qb \in Int /\ r \in Int /\ a = qa * n + r /\ b = qb * n + r
  OBVIOUS
<1> HIDE DEF qa, qb, r
<1>2. b - a = (qb - qa) * n
  BY <1>1
<1> DEFINE z == qb - qa
<1>3. z \in Int
  BY <1>1
<1> HIDE DEF z
<1>4. (z * n) % n = 0
  BY <1>3, Multiple
<1> QED
  BY <1>2, <1>4 DEF z

\* Euclid's lemma: a prime divides no product of smaller numbers.  The least B
\* for which it divided A * B would divide the prime.
LEMMA PrimeDividesNoProduct ==
  ASSUME NEW n \in Nat, n > 1, \A d \in 2..(n - 1) : n % d # 0,
         NEW a \in 1..(n - 1), NEW c \in 1..(n - 1)
  PROVE  (a * c) % n # 0
<1> SUFFICES ASSUME (a * c) % n = 0 PROVE FALSE
  OBVIOUS
<1> DEFINE B == {b \in Nat : b > 0 /\ (a * b) % n = 0}
<1>1. B \subseteq Nat /\ c \in B
  OBVIOUS
<1>2. PICK b \in B : \A k \in B : b <= k
  BY <1>1, Least
<1>3. b \in Nat /\ b > 0 /\ (a * b) % n = 0 /\ b <= c
  BY <1>1, <1>2
<1>4. b # 1
  BY <1>3
<1>5. n % b # 0
  <2>1. b \in 2..(n - 1)
    BY <1>3, <1>4
  <2> QED
    BY <2>1
<1> DEFINE q == n \div b
           r == n % b
           m == (a * b) \div n
<1>6. q \in Nat /\ r \in Nat /\ r > 0 /\ r < b /\ n = q * b + r
  BY <1>3, <1>5
<1>7. m \in Nat /\ a * b = m * n
  BY <1>3
<1> HIDE DEF q, r, m, B
<1>8. a * r = (a - q * m) * n
  <2>1. a * n = a * (q * b) + a * r
    BY <1>6, <1>3
  <2>2. a * (q * b) = q * (a * b)
    BY <1>6, <1>3
  <2>3. q * (a * b) = q * (m * n)
    BY <1>7
  <2>4. (a - q * m) * n = a * n - q * (m * n)
    BY <1>6, <1>7
  <2>5. a * r \in Int /\ q * (m * n) \in Int
    BY <1>6, <1>7
  <2> QED
    BY <2>1, <2>2, <2>3, <2>4, <2>5
<1>9. (a * r) % n = 0
  <2> DEFINE z == a - q * m
  <2>1. z \in Int
    BY <1>6, <1>7
  <2> HIDE DEF z
  <2>2. (z * n) % n = 0
    BY <2>1, Multiple
  <2> QED
    BY <2>2, <1>8 DEF z
<1>10. r \in B
  BY <1>9, <1>6 DEF B
<1> QED
  BY <1>2, <1>3, <1>6, <1>10

-----------------------------------------------------------------------------
(* Sums: what SumFunction computes over a finite domain                      *)

\* The index that SumFunction takes first from S.
First(s) == CHOOSE x \in s : TRUE

\* One unfolding of the recursion of SumFunction(F) over the partial sums G.
Unfold(f, g) ==
  [s \in SUBSET DOMAIN f |->
     IF s = {} THEN 0 ELSE f[First(s)] + g[s \ {First(s)}]]

\* The partial sums of F, by the set of the indices that are added up.
Partial(f) == CHOOSE g : g = Unfold(f, g)

\* SumFunction is the partial sum over the whole domain.
LEMMA SumIsPartial ==
  ASSUME NEW f
  PROVE  SumFunction(f) = Partial(f)[DOMAIN f]
<1> DEFINE It == LET iter[s \in SUBSET DOMAIN f] ==
                       IF s = {} THEN 0
                       ELSE LET x == CHOOSE x \in s : TRUE IN f[x] + iter[s \ {x}]
                 IN  iter
<1>1. SumFunction(f) = It[DOMAIN f]
  BY DEF SumFunction, SumFunctionOnSet, FoldFunctionOnSet, MapThenFoldSet
<1>2. It = Partial(f)
  BY DEF Partial, Unfold, First
<1> QED
  BY <1>1, <1>2

\* A set without one of its members is smaller by one.
LEMMA OneLess ==
  ASSUME NEW s, IsFiniteSet(s), NEW x \in s
  PROVE  /\ IsFiniteSet(s \ {x})
         /\ Cardinality(s) \in Nat \ {0}
         /\ Cardinality(s \ {x}) = Cardinality(s) - 1
<1>1. IsFiniteSet(s \ {x}) /\ Cardinality(s \ {x}) = Cardinality(s) - 1
  BY FS_RemoveElement
<1>2. Cardinality(s) \in Nat /\ Cardinality(s) # 0
  BY FS_CardinalityType, FS_EmptySet
<1> QED
  BY <1>1, <1>2

\* The recursion of SumFunction has a solution: one more unfolding is right for
\* one more index.
LEMMA PartialUnfolds ==
  ASSUME NEW f, IsFiniteSet(DOMAIN f)
  PROVE  Partial(f) = Unfold(f, Partial(f))
<1> DEFINE Good(g, n) == \A s \in SUBSET DOMAIN f :
                           Cardinality(s) <= n => g[s] = Unfold(f, g)[s]
           Bad == {n \in Nat : ~\E g : DOMAIN g = SUBSET DOMAIN f /\ Good(g, n)}
<1>1. \A s \in SUBSET DOMAIN f : IsFiniteSet(s) /\ Cardinality(s) \in Nat
  BY FS_Subset, FS_CardinalityType
<1>2. Bad = {}
  <2> SUFFICES ASSUME Bad # {} PROVE FALSE
    OBVIOUS
  <2>1. PICK n \in Bad : \A k \in Bad : n <= k
    BY Least
  <2>2. CASE n = 0
    <3> DEFINE g == [s \in SUBSET DOMAIN f |-> 0]
    <3>1. ASSUME NEW s \in SUBSET DOMAIN f, Cardinality(s) <= 0
          PROVE  g[s] = Unfold(f, g)[s]
      <4>1. s = {}
        BY <1>1, <3>1, FS_EmptySet
      <4> QED
        BY <4>1 DEF Unfold
    <3> QED
      BY <2>1, <2>2, <3>1
  <2>3. CASE n # 0
    <3>1. n - 1 \in Nat /\ n - 1 \notin Bad
      BY <2>1, <2>3
    <3>2. PICK g : DOMAIN g = SUBSET DOMAIN f /\ Good(g, n - 1)
      BY <3>1
    <3> DEFINE h == Unfold(f, g)
    <3>3. DOMAIN h = SUBSET DOMAIN f
      BY DEF Unfold
    <3>4. ASSUME NEW s \in SUBSET DOMAIN f, Cardinality(s) <= n
          PROVE  h[s] = Unfold(f, h)[s]
      <4>1. CASE s = {}
        BY <4>1 DEF Unfold
      <4>2. CASE s # {}
        <5> DEFINE x == First(s)
        <5>1. x \in s
          BY <4>2 DEF First
        <5> HIDE DEF x
        <5>2. s \ {x} \in SUBSET DOMAIN f /\ Cardinality(s \ {x}) <= n - 1
          BY <5>1, <1>1, <3>4, <2>1, OneLess
        <5>3. g[s \ {x}] = h[s \ {x}]
          BY <5>2, <3>2
        <5>4. h[s] = f[x] + g[s \ {x}]
          BY <4>2 DEF Unfold, x
        <5>5. Unfold(f, h)[s] = f[x] + h[s \ {x}]
          BY <4>2 DEF Unfold, x
        <5> QED
          BY <5>3, <5>4, <5>5
      <4> QED
        BY <4>1, <4>2
    <3> HIDE DEF h
    <3> QED
      BY <2>1, <3>3, <3>4
  <2> QED
    BY <2>2, <2>3
<1>3. PICK g : DOMAIN g = SUBSET DOMAIN f /\ Good(g, Cardinality(DOMAIN f))
  BY <1>1, <1>2
<1>4. ASSUME NEW s \in SUBSET DOMAIN f PROVE g[s] = Unfold(f, g)[s]
  <2>1. Cardinality(s) <= Cardinality(DOMAIN f)
    BY FS_Subset
  <2> QED
    BY <2>1, <1>3
<1>5. \E h : h = Unfold(f, h)
  <2> DEFINE h == [s \in SUBSET DOMAIN f |-> g[s]]
  <2>1. ASSUME NEW s \in SUBSET DOMAIN f PROVE h[s] = Unfold(f, h)[s]
    <3>1. CASE s = {}
      BY <3>1, <1>4 DEF Unfold
    <3>2. CASE s # {}
      <4> DEFINE x == First(s)
      <4>1. s \ {x} \in SUBSET DOMAIN f
        OBVIOUS
      <4>2. h[s] = g[s] /\ h[s \ {x}] = g[s \ {x}]
        BY <4>1
      <4>3. Unfold(f, h)[s] = f[x] + h[s \ {x}]
        BY <3>2 DEF Unfold
      <4>4. Unfold(f, g)[s] = f[x] + g[s \ {x}]
        BY <3>2 DEF Unfold
      <4> QED
        BY <4>2, <4>3, <4>4, <1>4
    <3> QED
      BY <3>1, <3>2
  <2>2. h = [s \in SUBSET DOMAIN f |-> h[s]]
    OBVIOUS
  <2>3. Unfold(f, h) = [s \in SUBSET DOMAIN f |-> Unfold(f, h)[s]]
    BY DEF Unfold
  <2> HIDE DEF h
  <2>4. h = Unfold(f, h)
    BY <2>1, <2>2, <2>3
  <2> QED
    BY <2>4
<1> QED
  BY <1>5 DEF Partial

\* What the recursion says of the partial sums.
LEMMA PartialStep ==
  ASSUME NEW f, IsFiniteSet(DOMAIN f)
  PROVE  /\ Partial(f)[{}] = 0
         /\ \A s \in SUBSET DOMAIN f : s # {} =>
              /\ First(s) \in s
              /\ Partial(f)[s] = f[First(s)] + Partial(f)[s \ {First(s)}]
<1> DEFINE g == Partial(f)
<1>1. g = Unfold(f, g)
  BY PartialUnfolds
<1> HIDE DEF g
<1>2. g[{}] = 0
  <2>1. Unfold(f, g)[{}] = 0
    BY DEF Unfold
  <2> QED
    BY <1>1, <2>1
<1>3. ASSUME NEW s \in SUBSET DOMAIN f, s # {}
      PROVE  First(s) \in s /\ g[s] = f[First(s)] + g[s \ {First(s)}]
  <2> DEFINE x == First(s)
  <2>1. x \in s
    BY <1>3 DEF First
  <2>2. Unfold(f, g)[s] = f[x] + g[s \ {x}]
    BY <1>3 DEF Unfold
  <2> QED
    BY <1>1, <2>1, <2>2
<1> QED
  BY <1>2, <1>3 DEF g

\* Partial sums of natural numbers are natural numbers, and any member of the set
\* may be taken out first.
LEMMA PartialAny ==
  ASSUME NEW D, IsFiniteSet(D), NEW f \in [D -> Nat]
  PROVE  \A s \in SUBSET D :
           /\ Partial(f)[s] \in Nat
           /\ \A x \in s : Partial(f)[s] = f[x] + Partial(f)[s \ {x}]
<1> DEFINE g == Partial(f)
           Ok(s) == g[s] \in Nat /\ \A x \in s : g[s] = f[x] + g[s \ {x}]
           Bad == {n \in Nat : \E s \in SUBSET D : Cardinality(s) = n /\ ~Ok(s)}
<1>1. \A s \in SUBSET D : IsFiniteSet(s) /\ Cardinality(s) \in Nat
  BY FS_Subset, FS_CardinalityType
<1>2. g[{}] = 0 /\ \A s \in SUBSET D : s # {} => \E x \in s : g[s] = f[x] + g[s \ {x}]
  BY PartialStep
<1> HIDE DEF g
<1>3. Bad = {}
  <2> SUFFICES ASSUME Bad # {} PROVE FALSE
    OBVIOUS
  <2>1. PICK n \in Bad : \A k \in Bad : n <= k
    BY Least
  <2>2. PICK s \in SUBSET D : Cardinality(s) = n /\ ~Ok(s)
    BY <2>1
  <2> HIDE DEF Ok
  <2>3. n \in Nat /\ \A t \in SUBSET D : Cardinality(t) < n => Ok(t)
    BY <1>1, <2>1
  <2>4. s # {}
    <3>1. Ok({})
      BY <1>2 DEF Ok
    <3> QED
      BY <2>2, <3>1
  <2>5. PICK y \in s : g[s] = f[y] + g[s \ {y}]
    BY <1>2, <2>4
  <2> HIDE DEF Bad
  <2>6. ASSUME NEW x \in s PROVE Ok(s \ {x})
    BY <2>2, <2>3, <1>1, OneLess
  <2>7. g[s] \in Nat
    <3>1. f[y] \in Nat /\ g[s \ {y}] \in Nat
      BY <2>6 DEF Ok
    <3> QED
      BY <2>5, <3>1
  <2>8. ASSUME NEW x \in s PROVE g[s] = f[x] + g[s \ {x}]
    <3>1. CASE x = y
      BY <2>5, <3>1
    <3>2. CASE x # y
      <4>1. g[s \ {y}] = f[x] + g[(s \ {y}) \ {x}]
        BY <2>6, <3>2 DEF Ok
      <4>2. g[s \ {x}] = f[y] + g[(s \ {x}) \ {y}]
        BY <2>6, <3>2 DEF Ok
      <4>3. (s \ {y}) \ {x} = (s \ {x}) \ {y}
        OBVIOUS
      <4>4. Ok((s \ {y}) \ {x})
        <5>1. x \in s \ {y} /\ IsFiniteSet(s) /\ IsFiniteSet(s \ {y})
          BY <3>2, <1>1, OneLess
        <5>2. Cardinality((s \ {y}) \ {x}) < n
          <6>1. Cardinality((s \ {y}) \ {x}) = Cardinality(s \ {y}) - 1
            BY <5>1, OneLess
          <6>2. Cardinality(s \ {y}) = n - 1
            BY <5>1, <2>2, OneLess
          <6> QED
            BY <6>1, <6>2, <2>3
        <5> QED
          BY <5>2, <2>3
      <4>5. f[x] \in Nat /\ f[y] \in Nat /\ g[(s \ {y}) \ {x}] \in Nat
        BY <4>4 DEF Ok
      <4> DEFINE z == g[(s \ {y}) \ {x}]
      <4>6. z \in Nat /\ g[s] = f[y] + (f[x] + z) /\ g[s \ {x}] = f[y] + z
        BY <4>1, <4>2, <4>3, <4>5, <2>5
      <4> HIDE DEF z
      <4> QED
        BY <4>5, <4>6
    <3> QED
      BY <3>1, <3>2
  <2> QED
    BY <2>2, <2>7, <2>8 DEF Ok
<1> QED
  BY <1>1, <1>3 DEF g

\* The same, for one member.
LEMMA PartialTake ==
  ASSUME NEW D, IsFiniteSet(D), NEW f \in [D -> Nat], NEW s \in SUBSET D, NEW x \in s
  PROVE  Partial(f)[s] = f[x] + Partial(f)[s \ {x}]
<1>1. \A t \in SUBSET D :
        /\ Partial(f)[t] \in Nat
        /\ \A y \in t : Partial(f)[t] = f[y] + Partial(f)[t \ {y}]
  BY PartialAny
<1> QED
  BY <1>1

\* A partial sum only depends on the values that are added up.
LEMMA PartialAgree ==
  ASSUME NEW f, NEW h, IsFiniteSet(DOMAIN f), IsFiniteSet(DOMAIN h),
         NEW s, s \subseteq DOMAIN f, s \subseteq DOMAIN h, \A x \in s : f[x] = h[x]
  PROVE  Partial(f)[s] = Partial(h)[s]
<1> DEFINE Bad == {n \in Nat : \E t \in SUBSET s :
                     Cardinality(t) = n /\ Partial(f)[t] # Partial(h)[t]}
<1>1. \A t \in SUBSET s : IsFiniteSet(t) /\ Cardinality(t) \in Nat
  BY FS_Subset, FS_CardinalityType
<1>2. Bad = {}
  <2> SUFFICES ASSUME Bad # {} PROVE FALSE
    OBVIOUS
  <2>1. PICK n \in Bad : \A k \in Bad : n <= k
    BY Least
  <2>2. PICK t \in SUBSET s : Cardinality(t) = n /\ Partial(f)[t] # Partial(h)[t]
    BY <2>1
  <2>3. t # {}
    BY <2>2, PartialStep
  <2> DEFINE x == First(t)
  <2>4. x \in t /\ Partial(f)[t] = f[x] + Partial(f)[t \ {x}]
    BY <2>3, PartialStep
  <2>5. Partial(h)[t] = h[x] + Partial(h)[t \ {x}]
    BY <2>3, PartialStep
  <2> HIDE DEF x
  <2>6. t \ {x} \in SUBSET s /\ Cardinality(t \ {x}) = n - 1
    BY <1>1, <2>2, <2>4, OneLess
  <2>7. n - 1 \in Nat
    BY <1>1, <2>2, <2>4, OneLess
  <2>8. n - 1 \notin Bad
    BY <2>1, <2>7
  <2>9. Partial(f)[t \ {x}] = Partial(h)[t \ {x}]
    BY <2>6, <2>7, <2>8
  <2> QED
    BY <2>2, <2>4, <2>5, <2>9
<1> QED
  BY <1>1, <1>2

\* The sum of no numbers; sums are natural numbers.
LEMMA SumNat ==
  ASSUME NEW D, IsFiniteSet(D), NEW f \in [D -> Nat]
  PROVE  SumFunction(f) \in Nat /\ (D = {} => SumFunction(f) = 0)
<1>1. SumFunction(f) = Partial(f)[D]
  BY SumIsPartial
<1>2. Partial(f)[D] \in Nat
  BY PartialAny
<1>3. Partial(f)[{}] = 0
  BY PartialStep
<1> QED
  BY <1>1, <1>2, <1>3

\* A sum whose functions differ in one place.
LEMMA SumChange ==
  ASSUME NEW D, IsFiniteSet(D), NEW f \in [D -> Nat], NEW h \in [D -> Nat], NEW x \in D,
         \A y \in D : y # x => h[y] = f[y]
  PROVE  SumFunction(h) + f[x] = SumFunction(f) + h[x]
<1>1. Partial(f)[D] = f[x] + Partial(f)[D \ {x}] /\ Partial(h)[D] = h[x] + Partial(h)[D \ {x}]
  <2>1. D \in SUBSET D
    OBVIOUS
  <2>2. Partial(f)[D] = f[x] + Partial(f)[D \ {x}]
    BY <2>1, PartialTake
  <2>3. Partial(h)[D] = h[x] + Partial(h)[D \ {x}]
    BY <2>1, PartialTake
  <2> QED
    BY <2>2, <2>3
<1>2. Partial(f)[D \ {x}] = Partial(h)[D \ {x}]
  <2>1. \A y \in D \ {x} : f[y] = h[y]
    OBVIOUS
  <2> QED
    BY <2>1, PartialAgree
<1>3. Partial(f)[D \ {x}] \in Nat
  BY PartialAny
<1>4. f[x] \in Nat /\ h[x] \in Nat /\ SumFunction(f) = Partial(f)[D] /\ SumFunction(h) = Partial(h)[D]
  BY SumIsPartial
<1> QED
  BY <1>1, <1>2, <1>3, <1>4

\* The sum of two functions, added in each place.
LEMMA SumAdd ==
  ASSUME NEW D, IsFiniteSet(D), NEW f \in [D -> Nat], NEW h \in [D -> Nat]
  PROVE  SumFunction([x \in D |-> f[x] + h[x]]) = SumFunction(f) + SumFunction(h)
<1> DEFINE e == [x \in D |-> f[x] + h[x]]
           Bad == {n \in Nat : \E t \in SUBSET D :
                     Cardinality(t) = n /\ Partial(e)[t] # Partial(f)[t] + Partial(h)[t]}
<1>0. e \in [D -> Nat] /\ \A x \in D : e[x] = f[x] + h[x]
  OBVIOUS
<1> HIDE DEF e
<1>1. \A t \in SUBSET D : IsFiniteSet(t) /\ Cardinality(t) \in Nat
  BY FS_Subset, FS_CardinalityType
<1>2. Bad = {}
  <2> SUFFICES ASSUME Bad # {} PROVE FALSE
    OBVIOUS
  <2>1. PICK n \in Bad : \A k \in Bad : n <= k
    BY Least
  <2>2. PICK t \in SUBSET D : Cardinality(t) = n /\ Partial(e)[t] # Partial(f)[t] + Partial(h)[t]
    BY <2>1
  <2>3. t # {}
    <3>1. Partial(e)[{}] = 0 /\ Partial(f)[{}] = 0 /\ Partial(h)[{}] = 0
      BY <1>0, PartialStep
    <3> QED
      BY <2>2, <3>1
  <2>4. PICK x \in t : TRUE
    BY <2>3
  <2>5. /\ Partial(e)[t] = e[x] + Partial(e)[t \ {x}]
        /\ Partial(f)[t] = f[x] + Partial(f)[t \ {x}]
        /\ Partial(h)[t] = h[x] + Partial(h)[t \ {x}]
    BY <1>0, PartialAny
  <2>6. t \ {x} \in SUBSET D /\ Cardinality(t \ {x}) = n - 1 /\ n - 1 \in Nat
    BY <1>1, <2>2, OneLess
  <2>7. n - 1 \notin Bad
    BY <2>1, <2>6
  <2>8. Partial(e)[t \ {x}] = Partial(f)[t \ {x}] + Partial(h)[t \ {x}]
    BY <2>6, <2>7
  <2>9. Partial(f)[t \ {x}] \in Nat /\ Partial(h)[t \ {x}] \in Nat /\ f[x] \in Nat /\ h[x] \in Nat
    BY <2>6, PartialAny
  <2> QED
    BY <1>0, <2>2, <2>5, <2>8, <2>9
<1>3. Partial(e)[D] = Partial(f)[D] + Partial(h)[D]
  BY <1>1, <1>2
<1>4. /\ SumFunction(f) = Partial(f)[D] /\ SumFunction(h) = Partial(h)[D]
      /\ SumFunction(e) = Partial(e)[D]
  BY <1>0, SumIsPartial
<1> QED
  BY <1>3, <1>4 DEF e

\* The sum of zeros.
LEMMA SumZero ==
  ASSUME NEW D, IsFiniteSet(D), NEW f, f = [x \in D |-> 0]
  PROVE  SumFunction(f) = 0
<1>1. f \in [D -> Nat] /\ f = [x \in D |-> f[x] + f[x]]
  OBVIOUS
<1>2. SumFunction(f) \in Nat
  BY <1>1, SumNat
<1> DEFINE e == [x \in D |-> f[x] + f[x]]
<1>3. SumFunction(e) = SumFunction(f) + SumFunction(f)
  BY <1>1, SumAdd
<1>4. e = f
  BY <1>1
<1> DEFINE S == SumFunction(f)
<1>5. S \in Nat /\ S = S + S
  <2>1. SumFunction(e) = SumFunction(f)
    BY ONLY <1>4
  <2> QED
    BY <1>2, <1>3, <2>1
<1> HIDE DEF S
<1>6. S = 0
  BY <1>5
<1> QED
  BY <1>6 DEF S

\* The sum of a sequence does not depend on where its indices begin.
LEMMA SumShift ==
  ASSUME NEW n \in Nat, NEW c, c \in [1..n -> Nat]
  PROVE  SumFunction([i \in 2..(n + 1) |-> c[i - 1]]) = SumFunction(c)
<1> DEFINE e == [i \in 2..(n + 1) |-> c[i - 1]]
           Bad == {m \in Nat : m <= n /\ Partial(e)[2..(m + 1)] # Partial(c)[1..m]}
<1>0. e \in [2..(n + 1) -> Nat] /\ \A i \in 1..n : e[i + 1] = c[i]
  OBVIOUS
<1> HIDE DEF e
<1>1. IsFiniteSet(1..n) /\ IsFiniteSet(2..(n + 1))
  BY FS_Interval
<1>3. \A t \in SUBSET (1..n) : \A x \in t : Partial(c)[t] = c[x] + Partial(c)[t \ {x}]
  <2> DEFINE D == 1..n
  <2>1. IsFiniteSet(D) /\ c \in [D -> Nat]
    BY <1>1
  <2> HIDE DEF D
  <2>2. ASSUME NEW t \in SUBSET D, NEW x \in t
        PROVE  Partial(c)[t] = c[x] + Partial(c)[t \ {x}]
    BY ONLY <2>1, PartialTake
  <2> QED
    BY <2>2 DEF D
<1>2. Bad = {}
  <2> SUFFICES ASSUME Bad # {} PROVE FALSE
    OBVIOUS
  <2>1. PICK m \in Bad : \A k \in Bad : m <= k
    BY Least
  <2>2. m # 0
    <3>1. 2..(0 + 1) = {} /\ 1..0 = {}
      OBVIOUS
    <3>2. Partial(e)[{}] = 0 /\ Partial(c)[{}] = 0
      BY <1>0, <1>1, PartialStep
    <3> QED
      BY <2>1, <3>1, <3>2
  <2>3. m - 1 \in Nat /\ m - 1 \notin Bad
    BY <2>1, <2>2
  <2>4. m \in 1..n /\ m <= n
    BY <2>1, <2>2
  <2>5. Partial(e)[2..m] = Partial(c)[1..(m - 1)]
    BY <2>3, <2>4
  <2> HIDE DEF Bad
  <2>6. (2..(m + 1)) \ {m + 1} = 2..m /\ (1..m) \ {m} = 1..(m - 1)
    BY <2>4
  <2>7. Partial(e)[2..(m + 1)] = e[m + 1] + Partial(e)[(2..(m + 1)) \ {m + 1}]
    <3> DEFINE D == 2..(n + 1)
               t == 2..(m + 1)
               x == m + 1
    <3>1. IsFiniteSet(D) /\ e \in [D -> Nat] /\ t \in SUBSET D /\ x \in t
      BY <1>0, <1>1, <2>4
    <3> HIDE DEF D, t, x
    <3>2. Partial(e)[t] = e[x] + Partial(e)[t \ {x}]
      BY ONLY <3>1, PartialTake
    <3> QED
      BY <3>2 DEF t, x
  <2>8. Partial(c)[1..m] = c[m] + Partial(c)[(1..m) \ {m}]
    <3> DEFINE t == 1..m
    <3>1. t \in SUBSET (1..n) /\ m \in t
      BY <2>4
    <3> HIDE DEF t
    <3>2. Partial(c)[t] = c[m] + Partial(c)[t \ {m}]
      BY <3>1, <1>3
    <3> QED
      BY <3>2 DEF t
  <2>9. e[m + 1] = c[m]
    BY <1>0, <2>4
  <2>10. Partial(e)[2..(m + 1)] = Partial(c)[1..m]
    BY <2>5, <2>6, <2>7, <2>8, <2>9
  <2> QED
    BY <2>1, <2>10 DEF Bad
<1>5. Partial(e)[2..(n + 1)] = Partial(c)[1..n]
  BY <1>2
<1>4. SumFunction(e) = Partial(e)[2..(n + 1)] /\ SumFunction(c) = Partial(c)[1..n]
  BY <1>0, SumIsPartial
<1> QED
  BY <1>5, <1>4 DEF e

-----------------------------------------------------------------------------
(* Folds over sequences                                                      *)

\* What FoldLeft takes from the indices of a sequence: the greatest.
LEMMA PrefixSets ==
  ASSUME NEW n \in Nat, NEW D, D = 1..n, NEW t \in SUBSET D
  PROVE  /\ Cardinality(t) \in Nat /\ Cardinality(t) <= n
         /\ t # {} => /\ t \ {Max(t)} \in SUBSET D
                     /\ Cardinality(t \ {Max(t)}) < Cardinality(t)
  <1>1. IsFiniteSet(D) /\ Cardinality(D) = n
    BY FS_Interval
  <1>2. IsFiniteSet(t) /\ Cardinality(t) \in Nat /\ Cardinality(t) <= n
    BY <1>1, FS_Subset, FS_CardinalityType
  <1>3. ASSUME t # {} PROVE Cardinality(t \ {Max(t)}) < Cardinality(t)
    <2>1. t \subseteq Nat /\ \A y \in t : y <= n
      OBVIOUS
    <2> DEFINE x == Max(t)
    <2>2. x \in t
      BY <1>3, <2>1, MaxIs
    <2> HIDE DEF x
    <2>3. Cardinality(t \ {x}) < Cardinality(t)
      BY <1>2, <2>2, OneLess
    <2>. QED
      BY <2>3 DEF x
  <1>. QED
    BY <1>2, <1>3

\* The greatest of the first K.
LEMMA PrefixMax ==
  ASSUME NEW n \in Nat, NEW k \in 1..n
  PROVE  /\ 1..k \in SUBSET (1..n) /\ 1..k # {}
         /\ Max(1..k) = k /\ (1..k) \ {k} = 1..(k - 1)
  <1> DEFINE t == 1..k
  <1>1. t \subseteq Nat /\ k \in t /\ \A y \in t : y \in Nat /\ y <= k
    OBVIOUS
  <1>2. t \subseteq 1..n /\ t \ {k} = 1..(k - 1)
    OBVIOUS
  <1> HIDE DEF t
  <1>3. k \in Nat
    OBVIOUS
  <1>4. Max(t) \in t /\ \A y \in t : y <= Max(t)
    BY <1>1, <1>3, MaxIs
  <1>5. Max(t) = k
    <2> DEFINE x == Max(t)
    <2>1. x \in Nat /\ x <= k /\ k <= x
      BY <1>1, <1>4
    <2> HIDE DEF x
    <2>2. x = k
      BY <2>1, <1>3
    <2>. QED
      BY <2>2 DEF x
  <1>. QED
    BY <1>1, <1>2, <1>5 DEF t

\* A set of numbers that has 0 and with each number the next one.
LEMMA UpTo ==
  ASSUME NEW n \in Nat, NEW S, 0 \in S, \A k \in 1..n : k - 1 \in S => k \in S
  PROVE  \A k \in 0..n : k \in S
  <1> DEFINE Bad == {k \in Nat : k <= n /\ k \notin S}
  <1>1. Bad = {}
    <2> SUFFICES ASSUME Bad # {} PROVE FALSE
      OBVIOUS
    <2>1. PICK m \in Bad : \A k \in Bad : m <= k
      BY Least
    <2>2. m \in 1..n /\ m - 1 \in Nat /\ m - 1 \notin Bad
      BY <2>1
    <2>. QED
      BY <2>1, <2>2
  <1>. QED
    BY <1>1

\* FoldLeft goes from the first members of a sequence to all of them.  The recursion in its
\* definition, over the sets of indices, has a solution if the steps stay within a set X;
\* F[K] is the step of the Kth member.
IterShape(n, X, b, F) ==
  \E g \in [SUBSET (1..n) -> X] :
    /\ g[{}] = b
    /\ \A t \in SUBSET (1..n) :
         t # {} => /\ Max(t) \in 1..n /\ g[t \ {Max(t)}] \in X
                   /\ g[t] = F[Max(t)][g[t \ {Max(t)}]]

LEMMA IterExists ==
  ASSUME NEW n \in Nat, NEW X, NEW b \in X, NEW F \in [1..n -> [X -> X]]
  PROVE  IterShape(n, X, b, F)
  <1> DEFINE N == 1..n
             D == SUBSET N
             less(t) == t \ {Max(t)}
             U(g) == [t \in D |-> IF t = {} THEN b ELSE F[Max(t)][g[less(t)]]]
             Good(g, m) == \A t \in D : Cardinality(t) <= m => g[t] = U(g)[t]
             S == {m \in Nat : \E g \in [D -> X] : Good(g, m)}
  <1>1. \A t \in D : Cardinality(t) \in Nat /\ Cardinality(t) <= n
    BY PrefixSets
  <1>2. \A t \in D : t # {} => less(t) \in D /\ Cardinality(less(t)) < Cardinality(t)
    BY PrefixSets
  <1>3. \A t \in D : t # {} => Max(t) \in N
    <2>1. SUFFICES ASSUME NEW t \in D, t # {} PROVE Max(t) \in N
      OBVIOUS
    <2>2. t \subseteq Nat /\ \A y \in t : y <= n
      OBVIOUS
    <2>3. Max(t) \in t
      BY <2>1, <2>2, MaxIs
    <2>. QED
      BY <2>3
  <1> HIDE DEF less, D, N
  <1>4. ASSUME NEW g \in [D -> X] PROVE U(g) \in [D -> X]
    <2>1. ASSUME NEW t \in D, t # {} PROVE F[Max(t)][g[less(t)]] \in X
      BY <2>1, <1>2, <1>3 DEF N
    <2>. QED
      BY <2>1
  <1>5. \A g : \A t \in D : U(g)[t] = IF t = {} THEN b ELSE F[Max(t)][g[less(t)]]
    OBVIOUS
  <1> HIDE DEF U
  <1>6. 0 \in S
    <2>1. [t \in D |-> b] \in [D -> X]
      OBVIOUS
    <2>2. PICK h \in [D -> X] : h = U([t \in D |-> b])
      BY <2>1, <1>4
    <2>3. ASSUME NEW t \in D, Cardinality(t) <= 0 PROVE h[t] = U(h)[t]
      <3>1. t = {}
        <4> SUFFICES ASSUME t # {} PROVE FALSE
          OBVIOUS
        <4>1. less(t) \in D /\ Cardinality(less(t)) < Cardinality(t)
          BY <1>2
        <4>2. Cardinality(less(t)) \in Nat /\ Cardinality(t) \in Nat
          BY <4>1, <1>1
        <4> HIDE DEF Good
        <4>. QED
          BY <4>1, <4>2, <2>3
      <3>. QED
        BY <3>1, <2>2, <1>5
    <2>. QED
      BY <2>2, <2>3
  <1>7. ASSUME NEW k \in 1..n, k - 1 \in S PROVE k \in S
    <2>1. PICK g \in [D -> X] : Good(g, k - 1)
      BY <1>7
    <2>2. PICK h \in [D -> X] : h = U(g)
      BY <1>4
    <2>3. \A t \in D : Cardinality(t) <= k - 1 => h[t] = g[t]
      BY <2>1, <2>2
    <2>4. ASSUME NEW t \in D, Cardinality(t) <= k PROVE h[t] = U(h)[t]
      <3>1. CASE t = {}
        BY <3>1, <2>2, <1>5
      <3>2. CASE t # {}
        <4>1. less(t) \in D /\ Cardinality(less(t)) <= k - 1
          BY <3>2, <2>4, <1>1, <1>2
        <4>2. h[less(t)] = g[less(t)]
          BY <4>1, <2>3
        <4>. QED
          BY <4>2, <2>2, <1>5
      <3>. QED
        BY <3>1, <3>2
    <2>5. Good(h, k)
      BY <2>4
    <2>. QED
      BY <2>2, <2>5
  <1>8. n \in S
    <2> HIDE DEF S
    <2>1. \A k \in 0..n : k \in S
      BY <1>6, <1>7, UpTo
    <2>. QED
      BY <2>1
  <1>9. PICK g \in [D -> X] : Good(g, n)
    BY <1>8
  <1>10. \A t \in D : g[t] = IF t = {} THEN b ELSE F[Max(t)][g[less(t)]]
    BY <1>9, <1>1, <1>5
  <1>11. /\ {} \in D
         /\ \A t \in D : t # {} => Max(t) \in N /\ g[less(t)] \in X
    BY <1>2, <1>3 DEF D
  <1>. QED
    BY <1>10, <1>11 DEF D, N, less, IterShape

\* What is reached after each member of the sequence.
StepShape(n, X, b, F, r) ==
  \E a \in [0..n -> X] : a[0] = b /\ a[n] = r /\ \A k \in 1..n : a[k] = F[k][a[k - 1]]

LEMMA FoldSteps ==
  ASSUME NEW n \in Nat, NEW X, NEW b \in X, NEW F \in [1..n -> [X -> X]], NEW h, h[{}] = b,
         \A t \in SUBSET (1..n) :
           t # {} /\ h[t \ {Max(t)}] \in X => h[t] = F[Max(t)][h[t \ {Max(t)}]]
  PROVE  StepShape(n, X, b, F, h[1..n])
  <1> DEFINE a == [k \in 0..n |-> h[1..k]]
             S == {k \in 0..n : a[k] \in X}
  <1>1. a[0] = b /\ a[n] = h[1..n]
    <2>1. 1..0 = {}
      OBVIOUS
    <2>. QED
      BY <2>1
  <1>2. ASSUME NEW k \in 1..n, a[k - 1] \in X PROVE a[k] = F[k][a[k - 1]] /\ a[k] \in X
    <2> DEFINE t == 1..k
    <2>1. t \in SUBSET (1..n) /\ t # {} /\ Max(t) = k /\ t \ {k} = 1..(k - 1)
      BY PrefixMax
    <2>2. a[k] = h[t] /\ a[k - 1] = h[1..(k - 1)]
      OBVIOUS
    <2> HIDE DEF t, a
    <2>3. a[k] = F[k][a[k - 1]]
      BY <2>1, <2>2, <1>2
    <2>. QED
      BY <2>3, <1>2
  <1> HIDE DEF a
  <1>3. \A k \in 0..n : k \in S
    <2>1. 0 \in S
      BY <1>1
    <2>2. \A k \in 1..n : k - 1 \in S => k \in S
      BY <1>2
    <2> HIDE DEF S
    <2>. QED
      BY <2>1, <2>2, UpTo
  <1>4. a \in [0..n -> X]
    BY <1>3 DEF a
  <1>5. \A k \in 1..n : a[k] = F[k][a[k - 1]]
    BY <1>2, <1>4
  <1>. QED
    BY <1>1, <1>4, <1>5 DEF StepShape

=============================================================================
