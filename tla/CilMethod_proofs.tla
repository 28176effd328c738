-------------------------- MODULE CilMethod_proofs --------------------------
(***************************************************************************)
(* Proofs about CilMethod, for every set of instructions and every length  *)
(* of methods.                                                             *)
(*                                                                         *)
(* Every handler is composed of functions that take a state of the         *)
(* translator to the next.  Becomes says of one such function what holds   *)
(* of all: the trees that stay on the stack are expressions that name      *)
(* SAVE_EXPRs that exist, no statement is lost, none that jumps is added,  *)
(* and how high the stack is afterwards.  Jumped says the same of the      *)
(* functions that branch.  These facts compose along the calls of the      *)
(* code, and MethodInv follows for the instruction as a whole.             *)
(***************************************************************************)
EXTENDS CilMethod, TLAPS

-----------------------------------------------------------------------------
(* Sequences of anything *)

\* There is no set of all trees; a sequence is one of the elements of some set.
IsSeq(q) == \E S : q \in Seq(S)

\* The parts of a sequence.
LEMMA SeqFacts ==
  ASSUME NEW q, IsSeq(q)
  PROVE  Len(q) \in Nat /\ DOMAIN q = 1..Len(q)
  BY DEF IsSeq

\* One more element.
LEMMA AppendFacts ==
  ASSUME NEW q, IsSeq(q), NEW t
  PROVE  /\ IsSeq(Append(q, t))
         /\ Len(Append(q, t)) = Len(q) + 1
         /\ DOMAIN Append(q, t) = 1..(Len(q) + 1)
         /\ \A k \in 1..Len(q) : Append(q, t)[k] = q[k]
         /\ Append(q, t)[Len(q) + 1] = t
  <1>1. PICK S : q \in Seq(S)
    BY DEF IsSeq
  <1>2. q \in Seq(S \cup {t}) /\ t \in S \cup {t}
    BY <1>1
  <1>3. Append(q, t) \in Seq(S \cup {t})
    BY <1>2
  <1>4. /\ Len(Append(q, t)) = Len(q) + 1
        /\ \A k \in 1..Len(q) : Append(q, t)[k] = q[k]
        /\ Append(q, t)[Len(q) + 1] = t
    BY <1>2
  <1>5. DOMAIN Append(q, t) = 1..Len(Append(q, t))
    BY <1>3
  <1>. QED
    BY <1>3, <1>4, <1>5 DEF IsSeq

\* The elements from M to N.
LEMMA SubSeqFacts ==
  ASSUME NEW q, IsSeq(q), NEW m \in Nat \ {0}, NEW n \in Nat, n <= Len(q), m <= n + 1
  PROVE  /\ IsSeq(SubSeq(q, m, n))
         /\ Len(SubSeq(q, m, n)) = n - m + 1
         /\ DOMAIN SubSeq(q, m, n) = 1..(n - m + 1)
         /\ \A k \in 1..(n - m + 1) : SubSeq(q, m, n)[k] = q[m + k - 1]
  <1>1. PICK S : q \in Seq(S)
    BY DEF IsSeq
  <1>2. SubSeq(q, m, n) \in Seq(S)
    BY <1>1
  <1>3. Len(SubSeq(q, m, n)) = n - m + 1
    BY <1>1
  <1>4. \A k \in 1..(n - m + 1) : SubSeq(q, m, n)[k] = q[m + k - 1]
    BY <1>1
  <1>5. DOMAIN SubSeq(q, m, n) = 1..(n - m + 1)
    BY <1>2, <1>3
  <1>. QED
    BY <1>2, <1>3, <1>4, <1>5 DEF IsSeq

\* Two sequences, one after the other.
LEMMA ConcatFacts ==
  ASSUME NEW p, IsSeq(p), NEW q, IsSeq(q)
  PROVE  /\ IsSeq(p \o q)
         /\ Len(p \o q) = Len(p) + Len(q)
         /\ DOMAIN (p \o q) = 1..(Len(p) + Len(q))
         /\ \A k \in 1..Len(p) : (p \o q)[k] = p[k]
         /\ \A k \in 1..Len(q) : (p \o q)[Len(p) + k] = q[k]
  <1>1. PICK S : p \in Seq(S)
    BY DEF IsSeq
  <1>2. PICK T : q \in Seq(T)
    BY DEF IsSeq
  <1>3. p \in Seq(S \cup T) /\ q \in Seq(S \cup T)
    BY <1>1, <1>2
  <1>4. p \o q \in Seq(S \cup T)
    BY <1>3
  <1>5. Len(p \o q) = Len(p) + Len(q)
    BY <1>3
  <1>6. \A k \in 1..Len(p) : (p \o q)[k] = p[k]
    BY <1>3
  <1>7. \A k \in 1..Len(q) : (p \o q)[Len(p) + k] = q[k]
    BY <1>3
  <1>8. DOMAIN (p \o q) = 1..(Len(p) + Len(q))
    BY <1>4, <1>5
  <1>. QED
    BY <1>4, <1>5, <1>6, <1>7, <1>8 DEF IsSeq

\* All but the first.
LEMMA TailFacts ==
  ASSUME NEW q, IsSeq(q), Len(q) > 0
  PROVE  /\ IsSeq(Tail(q)) /\ Len(Tail(q)) = Len(q) - 1
         /\ \A k \in 1..(Len(q) - 1) : Tail(q)[k] = q[k + 1]
         /\ Head(q) = q[1]
  <1>1. PICK S : q \in Seq(S)
    BY DEF IsSeq
  <1>2. Tail(q) \in Seq(S) /\ Len(Tail(q)) = Len(q) - 1 /\ Head(q) = q[1]
    BY <1>1
  <1>3. \A k \in 1..(Len(q) - 1) : Tail(q)[k] = q[k + 1]
    BY <1>1
  <1>. QED
    BY <1>2, <1>3 DEF IsSeq

\* Sequences that are written out.
LEMMA TupleFacts ==
  /\ IsSeq(<<>>) /\ Len(<<>>) = 0 /\ DOMAIN <<>> = {}
  /\ \A a : IsSeq(<<a>>) /\ Len(<<a>>) = 1 /\ DOMAIN <<a>> = {1} /\ <<a>>[1] = a
  /\ \A a, b : /\ IsSeq(<<a, b>>) /\ Len(<<a, b>>) = 2 /\ DOMAIN <<a, b>> = {1, 2}
               /\ <<a, b>>[1] = a /\ <<a, b>>[2] = b
  <1>1. IsSeq(<<>>) /\ Len(<<>>) = 0 /\ DOMAIN <<>> = {}
    <2>1. <<>> \in Seq({})
      OBVIOUS
    <2>. QED
      BY <2>1 DEF IsSeq
  <1>2. ASSUME NEW a
        PROVE  IsSeq(<<a>>) /\ Len(<<a>>) = 1 /\ DOMAIN <<a>> = {1} /\ <<a>>[1] = a
    <2>1. <<a>> \in Seq({a})
      OBVIOUS
    <2>2. IsSeq(<<a>>)
      BY <2>1 DEF IsSeq
    <2>3. Len(<<a>>) = 1 /\ DOMAIN <<a>> = {1} /\ <<a>>[1] = a
      OBVIOUS
    <2>. QED
      BY <2>2, <2>3
  <1>3. ASSUME NEW a, NEW b
        PROVE  /\ IsSeq(<<a, b>>) /\ Len(<<a, b>>) = 2 /\ DOMAIN <<a, b>> = {1, 2}
               /\ <<a, b>>[1] = a /\ <<a, b>>[2] = b
    <2>1. <<a, b>> \in Seq({a, b})
      OBVIOUS
    <2>2. IsSeq(<<a, b>>)
      BY <2>1 DEF IsSeq
    <2>3. /\ Len(<<a, b>>) = 2 /\ DOMAIN <<a, b>> = {1, 2}
          /\ <<a, b>>[1] = a /\ <<a, b>>[2] = b
      OBVIOUS
    <2>. QED
      BY <2>2, <2>3
  <1>. QED
    BY <1>1, <1>2, <1>3

-----------------------------------------------------------------------------
(* Trees *)

\* The operands of a tree name SAVE_EXPRs that exist.
GoodKids(kids, n) == \A k \in DOMAIN kids : kids[k].ids \subseteq 1..n

\* So does a tree on the stack, which is no statement.
GoodTree(t, n) == t.ids \subseteq 1..n /\ t.op \notin Statements

\* The statements that jump.
Jumps == {"goto", "if", "unless"}

\* build makes good trees of good ones.
LEMMA TreeFacts ==
  ASSUME NEW op, NEW val, NEW kids, NEW n, GoodKids(kids, n), op = "save" => val \in 1..n
  PROVE  /\ Tree(op, val, kids).op = op /\ Tree(op, val, kids).val = val
         /\ Tree(op, val, kids).kids = kids
         /\ Tree(op, val, kids).ids \subseteq 1..n
         /\ op \notin Statements => GoodTree(Tree(op, val, kids), n)
         /\ op \in Statements => Tree(op, val, kids).effects
  <1>1. /\ Tree(op, val, kids).op = op /\ Tree(op, val, kids).val = val
        /\ Tree(op, val, kids).kids = kids
    BY DEF Tree
  <1>2. Tree(op, val, kids).ids
          = (IF op = "save" THEN {val} ELSE {}) \cup UNION {kids[k].ids : k \in DOMAIN kids}
    BY DEF Tree
  <1>3. UNION {kids[k].ids : k \in DOMAIN kids} \subseteq 1..n
    BY DEF GoodKids
  <1>4. Tree(op, val, kids).ids \subseteq 1..n
    BY <1>2, <1>3
  <1>5. op \in Statements => Tree(op, val, kids).effects
    BY DEF Tree
  <1>. QED
    BY <1>1, <1>4, <1>5 DEF GoodTree

\* Operands that are written out.
LEMMA KidsFacts ==
  /\ \A n : GoodKids(<<>>, n)
  /\ \A a, n : a.ids \subseteq 1..n => GoodKids(<<a>>, n)
  /\ \A a, b, n : a.ids \subseteq 1..n /\ b.ids \subseteq 1..n => GoodKids(<<a, b>>, n)
  /\ \A a, b, c, n : a.ids \subseteq 1..n /\ b.ids \subseteq 1..n /\ c.ids \subseteq 1..n
                       => GoodKids(<<a, b, c>>, n)
  <1>1. \A n : GoodKids(<<>>, n)
    BY DEF GoodKids
  <1>2. ASSUME NEW a, NEW n, a.ids \subseteq 1..n PROVE GoodKids(<<a>>, n)
    BY <1>2 DEF GoodKids
  <1>3. ASSUME NEW a, NEW b, NEW n, a.ids \subseteq 1..n, b.ids \subseteq 1..n
        PROVE  GoodKids(<<a, b>>, n)
    BY <1>3 DEF GoodKids
  <1>4. ASSUME NEW a, NEW b, NEW c, NEW n,
               a.ids \subseteq 1..n, b.ids \subseteq 1..n, c.ids \subseteq 1..n
        PROVE  GoodKids(<<a, b, c>>, n)
    BY <1>4 DEF GoodKids
  <1>. QED
    BY <1>1, <1>2, <1>3, <1>4

-----------------------------------------------------------------------------
(* The state of the translator *)

\* The ghost notes.
Kinds == {"reordered", "repeated", "early", "unset", "unordered", "branching"}

\* S is a state of the translator.
Good(s) ==
  /\ s = [stack |-> s.stack, body |-> s.body, saves |-> s.saves, odd |-> s.odd]
  /\ IsSeq(s.stack) /\ IsSeq(s.body)
  /\ s.saves \in Nat
  /\ s.odd \subseteq Kinds
  /\ \A k \in 1..Len(s.stack) : GoodTree(s.stack[k], s.saves)

\* From R to S no statement is lost and none is added that jumps.
Quiet(r, s) ==
  /\ r.odd \subseteq s.odd
  /\ r.saves <= s.saves
  /\ Len(r.body) <= Len(s.body)
  /\ \A k \in 1..Len(r.body) : s.body[k] = r.body[k]
  /\ \A k \in 1..Len(s.body) : k > Len(r.body) => s.body[k].op \notin Jumps

\* A part of a handler takes R to S, which has H trees on its stack.
Becomes(r, s, h) == Good(r) /\ Good(s) /\ Quiet(r, s) /\ Len(s.stack) = h

\* One part of a handler after another.
LEMMA Then ==
  ASSUME NEW r, NEW s, NEW t, NEW g, NEW h, Becomes(r, s, g), Becomes(s, t, h)
  PROVE  Becomes(r, t, h)
  <1>1. /\ Good(r) /\ Good(s) /\ Good(t) /\ Quiet(r, s) /\ Quiet(s, t)
        /\ Len(t.stack) = h
    BY DEF Becomes
  <1>2. /\ Len(r.body) \in Nat /\ Len(s.body) \in Nat /\ Len(t.body) \in Nat
        /\ r.saves \in Nat /\ s.saves \in Nat /\ t.saves \in Nat
    BY <1>1, SeqFacts DEF Good
  <1>3. /\ r.odd \subseteq t.odd /\ r.saves <= t.saves /\ Len(r.body) <= Len(t.body)
    BY <1>1, <1>2 DEF Quiet
  <1>4. \A k \in 1..Len(r.body) : t.body[k] = r.body[k]
    BY <1>1, <1>2 DEF Quiet
  <1>5. ASSUME NEW k \in 1..Len(t.body), k > Len(r.body) PROVE t.body[k].op \notin Jumps
    <2>1. CASE k > Len(s.body)
      BY <2>1, <1>1 DEF Quiet
    <2>2. CASE ~(k > Len(s.body))
      <3>1. k \in 1..Len(s.body)
        BY <2>2, <1>2
      <3>2. t.body[k] = s.body[k] /\ s.body[k].op \notin Jumps
        BY <3>1, <1>1, <1>5 DEF Quiet
      <3>. QED
        BY <3>2
    <2>. QED
      BY <2>1, <2>2
  <1>. QED
    BY <1>1, <1>3, <1>4, <1>5 DEF Quiet, Becomes

\* Nothing.
LEMMA Stays ==
  ASSUME NEW s, Good(s)
  PROVE  Becomes(s, s, Len(s.stack)) /\ Len(s.stack) \in Nat
  <1>1. Len(s.body) \in Nat /\ Len(s.stack) \in Nat
    BY SeqFacts DEF Good
  <1>. QED
    BY <1>1 DEF Becomes, Quiet, Good

\* The four parts of a state.
LEMMA Parts ==
  ASSUME NEW a, NEW b, NEW c, NEW d
  PROVE  LET s == [stack |-> a, body |-> b, saves |-> c, odd |-> d]
         IN  s.stack = a /\ s.body = b /\ s.saves = c /\ s.odd = d
  OBVIOUS

\* A state with another stack.
LEMMA NewStack ==
  ASSUME NEW s, Good(s), NEW q, IsSeq(q), \A k \in 1..Len(q) : GoodTree(q[k], s.saves),
         NEW r, r = [s EXCEPT !.stack = q]
  PROVE  /\ Becomes(s, r, Len(q)) /\ r.stack = q
         /\ r.body = s.body /\ r.saves = s.saves /\ r.odd = s.odd
  <1>1. s = [stack |-> s.stack, body |-> s.body, saves |-> s.saves, odd |-> s.odd]
    BY DEF Good
  <1>2. r = [stack |-> q, body |-> s.body, saves |-> s.saves, odd |-> s.odd]
    BY <1>1
  <1>3. r.stack = q /\ r.body = s.body /\ r.saves = s.saves /\ r.odd = s.odd
    BY <1>2, Parts
  <1>4. Good(r)
    BY <1>2, <1>3 DEF Good
  <1>5. Quiet(s, r)
    BY <1>3, Stays DEF Becomes, Quiet
  <1>. QED
    BY <1>3, <1>4, <1>5 DEF Becomes

\* stack_push.
LEMMA Pushed ==
  ASSUME NEW s, Good(s), NEW t, GoodTree(t, s.saves)
  PROVE  /\ Becomes(s, stack_push(s, t), Len(s.stack) + 1)
         /\ stack_push(s, t).stack = Append(s.stack, t)
         /\ stack_push(s, t).saves = s.saves
  <1>. DEFINE q == Append(s.stack, t)
              r == stack_push(s, t)
  <1>1. IsSeq(s.stack)
    BY DEF Good
  <1>2. /\ IsSeq(q) /\ Len(q) = Len(s.stack) + 1 /\ Len(s.stack) \in Nat
        /\ \A k \in 1..Len(s.stack) : q[k] = s.stack[k]
        /\ q[Len(s.stack) + 1] = t
    BY <1>1, AppendFacts, SeqFacts
  <1>3. r = [s EXCEPT !.stack = q]
    BY DEF stack_push
  <1>. HIDE DEF q, r
  <1>4. ASSUME NEW k \in 1..Len(q) PROVE GoodTree(q[k], s.saves)
    <2>1. CASE k = Len(s.stack) + 1
      BY <2>1, <1>2
    <2>2. CASE k # Len(s.stack) + 1
      <3>1. k \in 1..Len(s.stack)
        BY <2>2, <1>2
      <3>. QED
        BY <3>1, <1>2 DEF Good
    <2>. QED
      BY <2>1, <2>2
  <1>5. Becomes(s, r, Len(q)) /\ r.stack = q /\ r.saves = s.saves
    BY <1>2, <1>3, <1>4, NewStack
  <1>. QED
    BY <1>2, <1>5 DEF q, r

\* stack_pop, N times.
LEMMA PoppedN ==
  ASSUME NEW s, Good(s), NEW n \in Nat, n <= Len(s.stack)
  PROVE  /\ Becomes(s, Popped(s, n), Len(s.stack) - n)
         /\ \A k \in 1..(Len(s.stack) - n) : Popped(s, n).stack[k] = s.stack[k]
         /\ Popped(s, n).saves = s.saves /\ Popped(s, n).odd = s.odd
         /\ Popped(s, n).body = s.body
  <1>. DEFINE q == SubSeq(s.stack, 1, Len(s.stack) - n)
              r == Popped(s, n)
  <1>1. IsSeq(s.stack) /\ Len(s.stack) \in Nat
    BY SeqFacts DEF Good
  <1>2. Len(s.stack) - n \in Nat /\ Len(s.stack) - n <= Len(s.stack)
    BY <1>1
  <1>3. /\ IsSeq(q) /\ Len(q) = Len(s.stack) - n
        /\ \A k \in 1..(Len(s.stack) - n) : q[k] = s.stack[k]
    <2>. DEFINE m == Len(s.stack) - n
    <2>1. m \in Nat /\ m <= Len(s.stack)
      BY <1>2
    <2>. HIDE DEF m
    <2>2. /\ IsSeq(SubSeq(s.stack, 1, m)) /\ Len(SubSeq(s.stack, 1, m)) = m - 1 + 1
          /\ \A k \in 1..(m - 1 + 1) : SubSeq(s.stack, 1, m)[k] = s.stack[1 + k - 1]
      BY <1>1, <2>1, SubSeqFacts
    <2>3. /\ IsSeq(SubSeq(s.stack, 1, m)) /\ Len(SubSeq(s.stack, 1, m)) = m
          /\ \A k \in 1..m : SubSeq(s.stack, 1, m)[k] = s.stack[k]
      BY <2>1, <2>2
    <2>. QED
      BY <2>3 DEF m
  <1>4. r = [s EXCEPT !.stack = q]
    BY DEF Popped
  <1>. HIDE DEF q, r
  <1>5. \A k \in 1..Len(q) : GoodTree(q[k], s.saves)
    BY <1>1, <1>2, <1>3 DEF Good
  <1>6. /\ Becomes(s, r, Len(q)) /\ r.stack = q /\ r.saves = s.saves /\ r.odd = s.odd
        /\ r.body = s.body
    BY <1>3, <1>4, <1>5, NewStack
  <1>. QED
    BY <1>3, <1>6 DEF r

\* stack_pop, once.
LEMMA PoppedOnce ==
  ASSUME NEW s, Good(s), 1 <= Len(s.stack)
  PROVE  stack_pop(s) = Popped(s, 1)
  BY DEF stack_pop, Popped, Front

\* The trees popped.
LEMMA ArgsFacts ==
  ASSUME NEW s, Good(s), NEW n \in Nat, n <= Len(s.stack)
  PROVE  /\ IsSeq(Args(s, n)) /\ Len(Args(s, n)) = n
         /\ \A k \in 1..n : GoodTree(Args(s, n)[k], s.saves)
         /\ GoodKids(Args(s, n), s.saves)
  <1>. DEFINE l == Len(s.stack)
              m == l - n + 1
              q == SubSeq(s.stack, m, l)
  <1>1. IsSeq(s.stack) /\ l \in Nat /\ n <= l
    BY SeqFacts DEF Good
  <1>2. m \in Nat \ {0} /\ m <= l + 1 /\ l <= l /\ l - m + 1 = n
    BY <1>1
  <1>3. Args(s, n) = q
    BY DEF Args
  <1>. HIDE DEF m
  <1>4. /\ IsSeq(q) /\ Len(q) = l - m + 1 /\ DOMAIN q = 1..(l - m + 1)
        /\ \A k \in 1..(l - m + 1) : q[k] = s.stack[m + k - 1]
    BY <1>1, <1>2, SubSeqFacts
  <1>. HIDE DEF l, q
  <1>5. \A k \in 1..n : m + k - 1 \in 1..l
    BY <1>1, <1>2 DEF m
  <1>6. \A k \in 1..n : GoodTree(q[k], s.saves)
    BY <1>2, <1>4, <1>5 DEF Good, l
  <1>7. GoodKids(q, s.saves)
    BY <1>2, <1>4, <1>6 DEF GoodKids, GoodTree
  <1>. QED
    BY <1>2, <1>3, <1>4, <1>6, <1>7

\* A tree on the stack.
LEMMA ElemFacts ==
  ASSUME NEW s, Good(s), NEW n \in Nat \ {0}, n <= Len(s.stack)
  PROVE  GoodTree(stack_elem(s, n), s.saves) /\ stack_elem(s, 1) = Last(s.stack)
  <1>1. Len(s.stack) \in Nat
    BY SeqFacts DEF Good
  <1>2. Len(s.stack) + 1 - n \in 1..Len(s.stack)
    BY <1>1
  <1>3. Len(s.stack) + 1 - 1 = Len(s.stack)
    BY <1>1
  <1>. QED
    BY <1>2, <1>3 DEF Good, stack_elem, Last

\* A ghost note.
LEMMA OddFacts ==
  ASSUME NEW s, Good(s), NEW condition, NEW kind \in Kinds
  PROVE  /\ Becomes(s, Odd(s, condition, kind), Len(s.stack))
         /\ Odd(s, condition, kind).stack = s.stack
         /\ Odd(s, condition, kind).body = s.body
         /\ Odd(s, condition, kind).saves = s.saves
         /\ condition => kind \in Odd(s, condition, kind).odd
  <1>. DEFINE d == s.odd \cup IF condition THEN {kind} ELSE {}
              r == Odd(s, condition, kind)
  <1>1. s = [stack |-> s.stack, body |-> s.body, saves |-> s.saves, odd |-> s.odd]
    BY DEF Good
  <1>2. r = [s EXCEPT !.odd = d]
    BY DEF Odd
  <1>3. s.odd \subseteq d /\ d \subseteq Kinds /\ (condition => kind \in d)
    BY DEF Good
  <1>. HIDE DEF r, d
  <1>4. r = [stack |-> s.stack, body |-> s.body, saves |-> s.saves, odd |-> d]
    BY <1>1, <1>2
  <1>5. r.stack = s.stack /\ r.body = s.body /\ r.saves = s.saves /\ r.odd = d
    BY <1>4, Parts
  <1>6. Good(r)
    BY <1>3, <1>4, <1>5 DEF Good
  <1>7. Quiet(s, r)
    BY <1>3, <1>5, Stays DEF Becomes, Quiet
  <1>. QED
    BY <1>3, <1>5, <1>6, <1>7 DEF Becomes, r

-----------------------------------------------------------------------------
(* Statements, checks and calls *)

\* append_to_statement_list.
LEMMA Appended ==
  ASSUME NEW s, Good(s), NEW t
  PROVE  /\ Good(append_to_statement_list(s, t))
         /\ append_to_statement_list(s, t).stack = s.stack
         /\ append_to_statement_list(s, t).saves = s.saves
         /\ s.odd \subseteq append_to_statement_list(s, t).odd
         /\ append_to_statement_list(s, t).body = IF t.effects THEN Append(s.body, t) ELSE s.body
  <1>. DEFINE q == Append(s.body, t)
              u == [s EXCEPT !.body = q]
              c == \E i \in DOMAIN u.stack : ~Settled(u.stack[i], Saved(u))
              r == append_to_statement_list(s, t)
  <1>1. CASE t.effects
    <2>1. s = [stack |-> s.stack, body |-> s.body, saves |-> s.saves, odd |-> s.odd]
      BY DEF Good
    <2>2. IsSeq(q)
      BY AppendFacts DEF Good
    <2>3. r = Odd(u, c, "reordered")
      BY <1>1 DEF append_to_statement_list, Reordered
    <2>. HIDE DEF q
    <2>4. u = [stack |-> s.stack, body |-> q, saves |-> s.saves, odd |-> s.odd]
      BY <2>1
    <2>. HIDE DEF u
    <2>5. u.stack = s.stack /\ u.body = q /\ u.saves = s.saves /\ u.odd = s.odd
      BY <2>4, Parts
    <2>6. Good(u)
      BY <2>2, <2>4, <2>5 DEF Good
    <2>. HIDE DEF c, r
    <2>7. "reordered" \in Kinds
      BY DEF Kinds
    <2>8. Becomes(u, r, Len(u.stack)) /\ r.stack = u.stack /\ r.body = u.body /\ r.saves = u.saves
      BY <2>3, <2>6, <2>7, OddFacts
    <2>9. Good(r) /\ u.odd \subseteq r.odd
      BY <2>8 DEF Becomes, Quiet
    <2>. QED
      BY <1>1, <2>5, <2>8, <2>9 DEF q, r
  <1>2. CASE ~t.effects
    <2>1. r = s
      BY <1>2 DEF append_to_statement_list
    <2>. QED
      BY <1>2, <2>1
  <1>. QED
    BY <1>1, <1>2

\* A statement that does not jump.
LEMMA AppendedQuietly ==
  ASSUME NEW s, Good(s), NEW t, t.op \notin Jumps
  PROVE  Becomes(s, append_to_statement_list(s, t), Len(s.stack))
  <1>. DEFINE r == append_to_statement_list(s, t)
  <1>1. /\ Good(r) /\ r.stack = s.stack /\ r.saves = s.saves /\ s.odd \subseteq r.odd
        /\ r.body = IF t.effects THEN Append(s.body, t) ELSE s.body
    BY Appended
  <1>. HIDE DEF r
  <1>2. Len(s.body) \in Nat /\ IsSeq(s.body) /\ s.saves \in Nat
    BY SeqFacts DEF Good
  <1>3. CASE t.effects
    <2>1. r.body = Append(s.body, t)
      BY <1>1, <1>3
    <2>2. /\ Len(r.body) = Len(s.body) + 1 /\ r.body[Len(s.body) + 1] = t
          /\ \A k \in 1..Len(s.body) : r.body[k] = s.body[k]
      BY <1>2, <2>1, AppendFacts
    <2>3. ASSUME NEW k \in 1..Len(r.body), k > Len(s.body) PROVE r.body[k].op \notin Jumps
      <3>1. k = Len(s.body) + 1
        BY <1>2, <2>2, <2>3
      <3>. QED
        BY <3>1, <2>2
    <2>4. r.saves <= r.saves /\ Len(s.body) <= Len(r.body)
      BY <1>1, <1>2, <2>2
    <2>5. Quiet(s, r)
      BY <1>1, <2>2, <2>3, <2>4 DEF Quiet
    <2>. QED
      BY <1>1, <2>5 DEF Becomes, r
  <1>4. CASE ~t.effects
    <2>1. r.body = s.body
      BY <1>1, <1>4
    <2>2. Quiet(s, r)
      BY <1>1, <1>2, <2>1 DEF Quiet
    <2>. QED
      BY <1>1, <2>2 DEF Becomes, r
  <1>. QED
    BY <1>3, <1>4

\* A tree that is neither a statement nor a SAVE_EXPR.
LEMMA Plain ==
  ASSUME NEW op, op \notin Statements, op # "save", NEW val, NEW kids, NEW n, GoodKids(kids, n)
  PROVE  GoodTree(Tree(op, val, kids), n) /\ Tree(op, val, kids).ids \subseteq 1..n
  BY TreeFacts

\* Constants and variables.
LEMMA Leaf ==
  ASSUME NEW n, NEW v
  PROVE  /\ GoodTree(Const(v), n) /\ GoodTree(Var(v), n) /\ GoodTree(Null, n)
         /\ GoodTree(Tree("static", v, <<>>), n)
         /\ \A f : GoodTree(Call(f, <<>>), n)
  BY Plain, KidsFacts DEF Const, Var, Null, Call, Statements

\* The check of a reference.
LEMMA NullCheck ==
  ASSUME NEW n, NEW ref, ref.ids \subseteq 1..n
  PROVE  /\ GoodTree(create_null_reference_check(ref), n)
         /\ create_null_reference_check(ref).ids \subseteq 1..n
  <1>. DEFINE e == Tree("eq", 0, <<ref, Null>>)
              c == Tree("compound", 0, <<Call(NullReference, <<>>), ref>>)
  <1>1. Null.ids \subseteq 1..n /\ Call(NullReference, <<>>).ids \subseteq 1..n
    BY Leaf DEF GoodTree
  <1>2. GoodKids(<<ref, Null>>, n) /\ GoodKids(<<Call(NullReference, <<>>), ref>>, n)
    BY <1>1, KidsFacts
  <1>3. e.ids \subseteq 1..n /\ c.ids \subseteq 1..n
    BY <1>2, Plain DEF Statements
  <1>. HIDE DEF e, c
  <1>4. GoodKids(<<e, c, ref>>, n)
    BY <1>3, KidsFacts
  <1>5. GoodTree(Tree("cond", 0, <<e, c, ref>>), n)
    BY <1>4, Plain DEF Statements
  <1>. QED
    BY <1>5 DEF create_null_reference_check, e, c, GoodTree

\* The length of an array.
LEMMA LengthTree ==
  ASSUME NEW n, NEW array, array.ids \subseteq 1..n
  PROVE  GoodTree(get_array_length(array), n)
  <1>1. GoodKids(<<create_null_reference_check(array)>>, n)
    BY NullCheck, KidsFacts
  <1>. QED
    BY <1>1, Plain DEF get_array_length, Statements

\* An element of an array, with its checks.
LEMMA ElemTree ==
  ASSUME NEW n, NEW array, array.ids \subseteq 1..n, NEW index, index.ids \subseteq 1..n
  PROVE  GoodTree(create_array_elem_access(array, index), n)
  <1>. DEFINE out == Tree("compound", 0, <<Call(IndexOutOfRange, <<>>), array>>)
              len == get_array_length(array)
              ge == Tree("ge", 0, <<index, len>>)
              check == Tree("cond", 0, <<ge, out, array>>)
              lt == Tree("lt", 0, <<index, Const(0)>>)
              bounds == Tree("cond", 0, <<lt, out, check>>)
  <1>1. len.ids \subseteq 1..n /\ Call(IndexOutOfRange, <<>>).ids \subseteq 1..n
        /\ Const(0).ids \subseteq 1..n
    BY Leaf, LengthTree DEF GoodTree
  <1>. HIDE DEF len
  <1>2. GoodKids(<<Call(IndexOutOfRange, <<>>), array>>, n) /\ GoodKids(<<index, len>>, n)
        /\ GoodKids(<<index, Const(0)>>, n)
    BY <1>1, KidsFacts
  <1>3. out.ids \subseteq 1..n /\ ge.ids \subseteq 1..n /\ lt.ids \subseteq 1..n
    BY <1>2, Plain DEF Statements
  <1>. HIDE DEF out, ge, lt
  <1>4. GoodKids(<<ge, out, array>>, n)
    BY <1>3, KidsFacts
  <1>5. check.ids \subseteq 1..n
    BY <1>4, Plain DEF Statements
  <1>. HIDE DEF check
  <1>6. GoodKids(<<lt, out, check>>, n)
    BY <1>3, <1>5, KidsFacts
  <1>7. bounds.ids \subseteq 1..n
    BY <1>6, Plain DEF Statements
  <1>8. bounds = create_array_bounds_check(array, index)
    BY DEF create_array_bounds_check, lt, out, check, ge, len
  <1>. HIDE DEF bounds
  <1>9. GoodKids(<<bounds, index>>, n)
    BY <1>7, KidsFacts
  <1>10. GoodTree(Tree("elem", 0, <<bounds, index>>), n)
    BY <1>9, Plain DEF Statements
  <1>. QED
    BY <1>8, <1>10 DEF create_array_elem_access

\* The ghost notes about a check.
LEMMA CheckedFacts ==
  ASSUME NEW s, Good(s), NEW ref, NEW operands
  PROVE  /\ Becomes(s, Checked(s, ref, operands), Len(s.stack))
         /\ Checked(s, ref, operands).stack = s.stack
         /\ Checked(s, ref, operands).saves = s.saves
  <1>. DEFINE u == Repeated(s, ref)
              r == Early(u, operands)
  <1>1. Becomes(s, u, Len(s.stack)) /\ u.stack = s.stack /\ u.saves = s.saves
    BY OddFacts DEF Repeated, Kinds
  <1>. HIDE DEF u
  <1>2. Good(u)
    BY <1>1 DEF Becomes
  <1>3. Becomes(u, r, Len(u.stack)) /\ r.stack = u.stack /\ r.saves = u.saves
    BY <1>2, OddFacts DEF Early, Kinds
  <1>. HIDE DEF r
  <1>4. Becomes(s, r, Len(s.stack))
    BY <1>1, <1>3, Then
  <1>. QED
    BY <1>1, <1>3, <1>4 DEF Checked, u, r

\* The note about the order of arguments.
LEMMA UnorderedFacts ==
  ASSUME NEW s, Good(s), NEW args
  PROVE  /\ Becomes(s, Unordered(s, args), Len(s.stack)) /\ Good(Unordered(s, args))
         /\ Unordered(s, args).stack = s.stack /\ Unordered(s, args).saves = s.saves
  <1>1. /\ Becomes(s, Unordered(s, args), Len(s.stack))
        /\ Unordered(s, args).stack = s.stack /\ Unordered(s, args).saves = s.saves
    BY OddFacts DEF Unordered, Kinds
  <1>. QED
    BY <1>1 DEF Becomes

\* The note about the order of arguments and then those about a check.
LEMMA UnorderedCheckedFacts ==
  ASSUME NEW s, Good(s), NEW args, NEW ref, NEW operands
  PROVE  LET r == Checked(Unordered(s, args), ref, operands)
         IN  Becomes(s, r, Len(s.stack)) /\ r.stack = s.stack /\ r.saves = s.saves
  <1>. DEFINE u == Unordered(s, args)
              r == Checked(u, ref, operands)
  <1>1. Becomes(s, u, Len(s.stack)) /\ Good(u) /\ u.stack = s.stack /\ u.saves = s.saves
    BY UnorderedFacts
  <1>. HIDE DEF u
  <1>2. Becomes(u, r, Len(u.stack)) /\ r.stack = u.stack /\ r.saves = u.saves
    BY <1>1, CheckedFacts
  <1>. HIDE DEF r
  <1>3. Becomes(s, r, Len(s.stack))
    BY <1>1, <1>2, Then
  <1>. QED
    BY <1>1, <1>2, <1>3 DEF r, u

\* And about the checks of an element.
LEMMA CheckedElemFacts ==
  ASSUME NEW s, Good(s), NEW array, NEW index, NEW operands
  PROVE  /\ Becomes(s, CheckedElem(s, array, index, operands), Len(s.stack))
         /\ CheckedElem(s, array, index, operands).stack = s.stack
         /\ CheckedElem(s, array, index, operands).saves = s.saves
  <1>. DEFINE u == Checked(s, array, <<index>> \o operands)
              r == Unset(u, array)
  <1>1. Becomes(s, u, Len(s.stack)) /\ u.stack = s.stack /\ u.saves = s.saves
    BY CheckedFacts
  <1>. HIDE DEF u
  <1>2. Good(u)
    BY <1>1 DEF Becomes
  <1>3. Becomes(u, r, Len(u.stack)) /\ r.stack = u.stack /\ r.saves = u.saves
    BY <1>2, OddFacts DEF Unset, Kinds
  <1>. HIDE DEF r
  <1>4. Becomes(s, r, Len(s.stack))
    BY <1>1, <1>3, Then
  <1>. QED
    BY <1>1, <1>3, <1>4 DEF CheckedElem, u, r

\* One element before the others.
LEMMA ConsFacts ==
  ASSUME NEW h, NEW t, IsSeq(t)
  PROVE  /\ IsSeq(<<h>> \o t) /\ DOMAIN (<<h>> \o t) = 1..(1 + Len(t))
         /\ (<<h>> \o t)[1] = h
         /\ \A k \in 1..Len(t) : (<<h>> \o t)[1 + k] = t[k]
  <1>1. PICK S : t \in Seq(S)
    BY DEF IsSeq
  <1>2. t \in Seq(S \cup {h}) /\ <<h>> \in Seq(S \cup {h})
    BY <1>1
  <1>3. <<h>> \o t \in Seq(S \cup {h}) /\ Len(<<h>> \o t) = 1 + Len(t)
    BY <1>2
  <1>4. (<<h>> \o t)[1] = h /\ \A k \in 1..Len(t) : (<<h>> \o t)[1 + k] = t[k]
    BY <1>2
  <1>. QED
    BY <1>3, <1>4 DEF IsSeq

\* The tree of a call.
LEMMA CallTree ==
  ASSUME NEW f, NEW args, IsSeq(args), NEW n, GoodKids(args, n),
         NEW this_check \in BOOLEAN, this_check => Len(args) > 0
  PROVE  LET call == create_function_call(f, args, this_check)
         IN  /\ GoodTree(call, n) /\ call.op \notin Jumps
             /\ IsSeq(call.kids) /\ GoodKids(call.kids, n)
  <1>. DEFINE kids == IF this_check
                      THEN <<create_null_reference_check(Head(args))>> \o Tail(args) ELSE args
              call == create_function_call(f, args, this_check)
  <1>1. IsSeq(kids) /\ GoodKids(kids, n)
    <2>1. CASE ~this_check
      BY <2>1
    <2>2. CASE this_check
      <3>. DEFINE h == create_null_reference_check(Head(args))
                  p == <<h>>
                  t == Tail(args)
      <3>1. Len(args) > 0 /\ Len(args) \in Nat /\ DOMAIN args = 1..Len(args)
        BY <2>2, SeqFacts
      <3>2. /\ IsSeq(t) /\ Len(t) = Len(args) - 1 /\ Head(args) = args[1]
            /\ \A k \in 1..(Len(args) - 1) : t[k] = args[k + 1]
        BY <3>1, TailFacts
      <3>3. Head(args).ids \subseteq 1..n
        BY <3>1, <3>2 DEF GoodKids
      <3>4. h.ids \subseteq 1..n
        BY <3>3, NullCheck
      <3>. HIDE DEF h
      <3>. DEFINE q == p \o t
      <3>6. /\ IsSeq(q) /\ DOMAIN q = 1..(1 + Len(t)) /\ q[1] = h
            /\ \A k \in 1..Len(t) : q[1 + k] = t[k]
        BY <3>2, ConsFacts
      <3>. HIDE DEF q, t
      <3>7. /\ DOMAIN q = 1..Len(args) /\ q[1] = h
            /\ \A k \in 1..(Len(args) - 1) : q[1 + k] = t[k]
        BY ONLY <3>1, <3>2, <3>6
      <3>8. ASSUME NEW k \in DOMAIN q PROVE q[k].ids \subseteq 1..n
        <4>1. CASE k = 1
          BY <4>1, <3>4, <3>7
        <4>2. CASE k # 1
          <5>1. k - 1 \in 1..(Len(args) - 1) /\ 1 + (k - 1) = k
            BY <4>2, <3>1, <3>7
          <5>2. q[k] = t[k - 1] /\ t[k - 1] = args[(k - 1) + 1]
            BY <5>1, <3>2, <3>7
          <5>3. q[k] = args[k] /\ k \in DOMAIN args
            BY <5>1, <5>2, <3>1, <3>7
          <5>. QED
            BY <5>3 DEF GoodKids
        <4>. QED
          BY <4>1, <4>2
      <3>9. kids = q
        BY <2>2 DEF q, h, t
      <3>. QED
        BY <3>6, <3>8, <3>9 DEF GoodKids
    <2>. QED
      BY <2>1, <2>2
  <1>2. call = Tree("call", f, kids)
    BY DEF create_function_call, Call
  <1>. HIDE DEF kids, call
  <1>3. GoodTree(call, n) /\ call.op = "call" /\ call.kids = kids
    BY <1>1, <1>2, TreeFacts DEF Statements
  <1>. QED
    BY <1>1, <1>3 DEF Jumps, call

\* What a call leaves.
One(b) == IF b THEN 1 ELSE 0

\* A call is pushed or is a statement.
LEMMA Finished ==
  ASSUME NEW s, Good(s), NEW call, GoodTree(call, s.saves), call.op \notin Jumps,
         NEW returns \in BOOLEAN
  PROVE  Becomes(s, finish_function_call(s, call, returns), Len(s.stack) + One(returns))
  <1>1. CASE returns
    BY <1>1, Pushed DEF finish_function_call, One
  <1>2. CASE ~returns
    <2>1. Len(s.stack) + One(returns) = Len(s.stack)
      BY <1>2, Stays DEF One
    <2>. QED
      BY <1>2, <2>1, AppendedQuietly DEF finish_function_call
  <1>. QED
    BY <1>1, <1>2

-----------------------------------------------------------------------------
(* The functions that translate instructions *)

\* make_method_call takes the arguments and leaves the result.
LEMMA MethodCall ==
  ASSUME NEW s, Good(s), NEW n \in Nat, n <= Len(s.stack), NEW f,
         NEW returns \in BOOLEAN, NEW this_check \in BOOLEAN, this_check => n > 0
  PROVE  Becomes(s, make_method_call(s, f, n, returns, this_check),
                 Len(s.stack) - n + One(returns))
  <1>. DEFINE args == Args(s, n)
              u == Unordered(s, args)
              t == IF this_check THEN Checked(u, Head(args), Tail(args)) ELSE u
              p == Popped(t, n)
              call == create_function_call(f, args, this_check)
              r == finish_function_call(p, call, returns)
  <1>1. /\ IsSeq(args) /\ Len(args) = n /\ GoodKids(args, s.saves)
    BY ArgsFacts
  <1>2. Becomes(s, t, Len(s.stack)) /\ t.saves = s.saves /\ t.stack = s.stack
    <2>1. CASE this_check
      BY <2>1, UnorderedCheckedFacts
    <2>2. CASE ~this_check
      BY <2>2, UnorderedFacts
    <2>. QED
      BY <2>1, <2>2
  <1>3. GoodTree(call, s.saves) /\ call.op \notin Jumps
    <2>1. this_check => Len(args) > 0
      BY <1>1
    <2>. HIDE DEF args
    <2>. QED
      BY <1>1, <2>1, CallTree
  <1>4. r = make_method_call(s, f, n, returns, this_check)
    BY DEF make_method_call
  <1>. HIDE DEF t, call, args
  <1>5. Good(t) /\ n <= Len(t.stack)
    BY <1>2 DEF Becomes
  <1>6. Becomes(t, p, Len(t.stack) - n) /\ p.saves = t.saves
    BY <1>5, PoppedN
  <1>. HIDE DEF p
  <1>7. Becomes(s, p, Len(s.stack) - n) /\ p.saves = s.saves
    BY <1>2, <1>6, Then
  <1>8. Good(p) /\ Len(p.stack) = Len(s.stack) - n /\ GoodTree(call, p.saves)
    BY <1>3, <1>7 DEF Becomes
  <1>9. Becomes(p, r, Len(p.stack) + One(returns))
    BY <1>3, <1>8, Finished
  <1>. HIDE DEF r
  <1>10. Becomes(s, r, Len(p.stack) + One(returns))
    BY <1>7, <1>9, Then
  <1>. QED
    BY <1>4, <1>8, <1>10

\* So does make_virtual_method_call.
LEMMA VirtualMethodCall ==
  ASSUME NEW s, Good(s), NEW n \in Nat \ {0}, n <= Len(s.stack), NEW f, NEW returns \in BOOLEAN
  PROVE  Becomes(s, make_virtual_method_call(s, f, n, returns), Len(s.stack) - n + One(returns))
  <1>. DEFINE args == Args(s, n)
              t == Checked(Unordered(s, args), Head(args), Tail(args))
              p == Popped(t, n)
              call == create_function_call(f, args, TRUE)
              kids == call.kids
              ref == stack_elem(s, n)
              ptr == create_virtual_method_ptr(f, ref)
              q == <<ptr>> \o kids
              vcall == Tree("vcall", f, q)
              r == finish_function_call(p, vcall, returns)
  <1>1. /\ IsSeq(args) /\ Len(args) = n /\ GoodKids(args, s.saves)
    BY ArgsFacts
  <1>2. Becomes(s, t, Len(s.stack)) /\ t.saves = s.saves /\ t.stack = s.stack
    BY UnorderedCheckedFacts
  <1>3. IsSeq(kids) /\ GoodKids(kids, s.saves)
    <2>1. Len(args) > 0
      BY <1>1
    <2>. HIDE DEF args
    <2>. QED
      BY <1>1, <2>1, CallTree
  <1>4. r = make_virtual_method_call(s, f, n, returns)
    BY DEF make_virtual_method_call
  <1>. HIDE DEF t, kids, args
  <1>5. ref.ids \subseteq 1..s.saves
    BY ElemFacts DEF GoodTree
  <1>. HIDE DEF ref
  <1>6. GoodKids(<<ref>>, s.saves)
    BY <1>5, KidsFacts
  <1>7. ptr.ids \subseteq 1..s.saves
    BY <1>6, Plain DEF create_virtual_method_ptr, Statements
  <1>. HIDE DEF ptr
  <1>8. /\ DOMAIN q = 1..(1 + Len(kids)) /\ q[1] = ptr
        /\ \A k \in 1..Len(kids) : q[1 + k] = kids[k]
    BY <1>3, ConsFacts
  <1>. HIDE DEF q
  <1>9. Len(kids) \in Nat /\ DOMAIN kids = 1..Len(kids)
    BY <1>3, SeqFacts
  <1>10. ASSUME NEW k \in DOMAIN q PROVE q[k].ids \subseteq 1..s.saves
    <2>1. CASE k = 1
      BY <2>1, <1>7, <1>8
    <2>2. CASE k # 1
      <3>1. k - 1 \in 1..Len(kids) /\ 1 + (k - 1) = k
        BY <2>2, <1>8, <1>9
      <3>2. q[k] = kids[k - 1] /\ k - 1 \in DOMAIN kids
        BY <3>1, <1>8, <1>9
      <3>. QED
        BY <3>2, <1>3 DEF GoodKids
    <2>. QED
      BY <2>1, <2>2
  <1>11. GoodKids(q, s.saves)
    BY <1>10 DEF GoodKids
  <1>12. GoodTree(vcall, s.saves) /\ vcall.op = "vcall"
    <2>1. GoodTree(vcall, s.saves)
      BY <1>11, Plain DEF Statements
    <2>2. vcall.op = "vcall"
      BY DEF Tree
    <2>. QED
      BY <2>1, <2>2
  <1>. HIDE DEF vcall
  <1>13. Good(t) /\ n <= Len(t.stack)
    BY <1>2 DEF Becomes
  <1>14. Becomes(t, p, Len(t.stack) - n) /\ p.saves = t.saves
    BY <1>13, PoppedN
  <1>. HIDE DEF p
  <1>15. Becomes(s, p, Len(s.stack) - n) /\ p.saves = s.saves
    BY <1>2, <1>14, Then
  <1>16. Good(p) /\ Len(p.stack) = Len(s.stack) - n /\ GoodTree(vcall, p.saves)
         /\ vcall.op \notin Jumps
    BY <1>12, <1>15 DEF Becomes, Jumps
  <1>17. Becomes(p, r, Len(p.stack) + One(returns))
    BY <1>16, Finished
  <1>. HIDE DEF r
  <1>18. Becomes(s, r, Len(p.stack) + One(returns))
    BY <1>15, <1>17, Then
  <1>. QED
    BY <1>4, <1>16, <1>18

\* One more SAVE_EXPR.
LEMMA MoreSaves ==
  ASSUME NEW s, Good(s), NEW r, r = [s EXCEPT !.saves = s.saves + 1]
  PROVE  Becomes(s, r, Len(s.stack)) /\ r.stack = s.stack /\ r.saves = s.saves + 1
  <1>1. s = [stack |-> s.stack, body |-> s.body, saves |-> s.saves, odd |-> s.odd]
    BY DEF Good
  <1>. DEFINE v == s.saves + 1
  <1>2. s.saves \in Nat /\ v \in Nat /\ s.saves <= v
    BY DEF Good
  <1>3. r = [s EXCEPT !.saves = v]
    OBVIOUS
  <1>. HIDE DEF v
  <1>4. r = [stack |-> s.stack, body |-> s.body, saves |-> v, odd |-> s.odd]
    BY <1>1, <1>3
  <1>5. r.stack = s.stack /\ r.body = s.body /\ r.saves = v /\ r.odd = s.odd
    BY <1>4, Parts
  <1>6. \A k \in 1..Len(s.stack) : GoodTree(s.stack[k], v)
    BY <1>2 DEF Good, GoodTree
  <1>7. Good(r)
    BY <1>2, <1>4, <1>5, <1>6 DEF Good
  <1>8. Quiet(s, r)
    BY <1>2, <1>5, Stays DEF Becomes, Quiet
  <1>. QED
    BY <1>5, <1>7, <1>8 DEF Becomes, v

\* make_instr_dup: the tree is shared as it is, or behind a SAVE_EXPR that is new.
LEMMA Duplicate ==
  ASSUME NEW s, Good(s), 1 <= Len(s.stack)
  PROVE  Becomes(s, make_instr_dup(s), Len(s.stack) + 1)
  <1>. DEFINE top == Last(s.stack)
              t == save_expr(s, top)
              p == stack_pop(s)
              u == [p EXCEPT !.saves = IF t = top THEN @ ELSE @ + 1]
              v == stack_push(u, t)
              r == stack_push(v, t)
  <1>1. GoodTree(top, s.saves) /\ Len(s.stack) \in Nat /\ s.saves \in Nat
    BY ElemFacts, Stays DEF Good
  <1>2. Becomes(s, p, Len(s.stack) - 1) /\ p.saves = s.saves
    BY PoppedN, PoppedOnce
  <1>3. r = make_instr_dup(s)
    BY DEF make_instr_dup
  <1>. HIDE DEF p, top
  <1>4. Good(p) /\ Len(p.stack) = Len(s.stack) - 1
    BY <1>2 DEF Becomes
  <1>5. Becomes(p, u, Len(p.stack)) /\ GoodTree(t, u.saves)
    <2>1. CASE top.invariant
      <3>1. t = top
        BY <2>1 DEF save_expr
      <3>2. p = [stack |-> p.stack, body |-> p.body, saves |-> p.saves, odd |-> p.odd]
        BY <1>4 DEF Good
      <3>. HIDE DEF t
      <3>3. u = p
        BY <3>1, <3>2
      <3>. QED
        BY <1>1, <1>2, <1>4, <3>1, <3>3, Stays
    <2>2. CASE ~top.invariant
      <3>1. t = Tree("save", s.saves + 1, <<top>>)
        BY <2>2 DEF save_expr
      <3>2. t.ids = {s.saves + 1} \cup UNION {<<top>>[k].ids : k \in DOMAIN <<top>>}
        BY <3>1 DEF Tree
      <3>3. s.saves + 1 \in t.ids /\ s.saves + 1 \notin 1..s.saves
        BY <3>2, <1>1
      <3>4. t # top
        BY <3>3, <1>1 DEF GoodTree
      <3>5. GoodKids(<<top>>, s.saves + 1)
        <4>1. top.ids \subseteq 1..(s.saves + 1)
          BY <1>1 DEF GoodTree
        <4>. QED
          BY <4>1, KidsFacts
      <3>6. s.saves + 1 \in 1..(s.saves + 1) /\ "save" \notin Statements
        BY <1>1 DEF Statements
      <3>7. GoodTree(t, s.saves + 1)
        BY <3>1, <3>5, <3>6, TreeFacts
      <3>. HIDE DEF t
      <3>8. u = [p EXCEPT !.saves = p.saves + 1]
        BY <3>4
      <3>. HIDE DEF u
      <3>9. Becomes(p, u, Len(p.stack)) /\ u.saves = p.saves + 1
        BY <3>8, <1>4, MoreSaves
      <3>. QED
        BY <1>2, <3>7, <3>9
    <2>. QED
      BY <2>1, <2>2
  <1>. HIDE DEF u, t
  <1>6. Good(u) /\ Len(u.stack) = Len(s.stack) - 1
    BY <1>4, <1>5 DEF Becomes
  <1>7. Becomes(u, v, Len(u.stack) + 1) /\ v.saves = u.saves
    BY <1>5, <1>6, Pushed
  <1>. HIDE DEF v
  <1>8. Good(v) /\ Len(v.stack) = Len(s.stack) /\ GoodTree(t, v.saves)
    BY <1>1, <1>5, <1>6, <1>7 DEF Becomes
  <1>9. Becomes(v, r, Len(v.stack) + 1)
    BY <1>8, Pushed
  <1>. HIDE DEF r
  <1>10. Becomes(s, u, Len(p.stack))
    BY <1>2, <1>5, Then
  <1>11. Becomes(s, v, Len(u.stack) + 1)
    BY <1>7, <1>10, Then
  <1>12. Becomes(s, r, Len(v.stack) + 1)
    BY <1>9, <1>11, Then
  <1>. QED
    BY <1>3, <1>8, <1>12

\* make_new_object: its two calls leave one reference where the arguments were.
LEMMA NewObject ==
  ASSUME NEW s, Good(s), NEW n \in Nat, n <= Len(s.stack), NEW f
  PROVE  Becomes(s, make_new_object(s, f, n), Len(s.stack) - n + 1)
  <1>. DEFINE args == Args(s, n)
              p == Popped(s, n)
              c == make_method_call(p, NewObj, 0, TRUE, FALSE)
              d == make_instr_dup(c)
              q == d.stack \o args
              e == [d EXCEPT !.stack = q]
              r == make_method_call(e, f, n + 1, FALSE, TRUE)
              l == Len(s.stack) - n
  <1>1. /\ IsSeq(args) /\ Len(args) = n
        /\ \A k \in 1..n : GoodTree(args[k], s.saves)
    BY ArgsFacts
  <1>2. Becomes(s, p, l) /\ Len(s.stack) \in Nat
    BY PoppedN, Stays
  <1>3. r = make_new_object(s, f, n)
    BY DEF make_new_object
  <1>4. l \in Nat
    BY <1>2
  <1>. HIDE DEF args, p, l
  <1>5. Good(p) /\ 0 <= Len(p.stack) /\ Len(p.stack) = l
    BY <1>2, <1>4 DEF Becomes
  <1>6. Becomes(p, c, Len(p.stack) - 0 + One(TRUE))
    BY <1>5, MethodCall
  <1>. HIDE DEF c
  <1>61. Len(p.stack) - 0 + One(TRUE) = l + 1
    BY <1>4, <1>5 DEF One
  <1>62. Becomes(p, c, l + 1)
    BY <1>6, <1>61
  <1>7. Good(c) /\ Len(c.stack) = l + 1 /\ 1 <= Len(c.stack)
    BY <1>4, <1>62 DEF Becomes
  <1>8. Becomes(c, d, Len(c.stack) + 1)
    BY <1>7, Duplicate
  <1>. HIDE DEF d
  <1>9. Becomes(s, c, l + 1)
    BY ONLY <1>2, <1>62, Then
  <1>10. Becomes(s, d, Len(c.stack) + 1)
    BY ONLY <1>8, <1>9, Then
  <1>11. Good(d) /\ Len(d.stack) = l + 2 /\ s.saves <= d.saves /\ s.saves \in Nat /\ d.saves \in Nat
    BY <1>4, <1>7, <1>10 DEF Becomes, Good, Quiet
  <1>12. /\ IsSeq(q) /\ Len(q) = Len(d.stack) + Len(args)
         /\ \A k \in 1..Len(d.stack) : q[k] = d.stack[k]
         /\ \A k \in 1..Len(args) : q[Len(d.stack) + k] = args[k]
    <2>. DEFINE ds == d.stack
    <2>1. IsSeq(ds)
      BY <1>11 DEF Good
    <2>. HIDE DEF ds
    <2>2. /\ IsSeq(ds \o args) /\ Len(ds \o args) = Len(ds) + Len(args)
          /\ \A k \in 1..Len(ds) : (ds \o args)[k] = ds[k]
          /\ \A k \in 1..Len(args) : (ds \o args)[Len(ds) + k] = args[k]
      <3>1. IsSeq(ds \o args)
        BY ONLY <1>1, <2>1, ConcatFacts
      <3>2. Len(ds \o args) = Len(ds) + Len(args)
        BY ONLY <1>1, <2>1, ConcatFacts
      <3>3. \A k \in 1..Len(ds) : (ds \o args)[k] = ds[k]
        BY ONLY <1>1, <2>1, ConcatFacts
      <3>4. \A k \in 1..Len(args) : (ds \o args)[Len(ds) + k] = args[k]
        BY ONLY <1>1, <2>1, ConcatFacts
      <3>. QED
        BY ONLY <3>1, <3>2, <3>3, <3>4
    <2>. QED
      BY <2>2 DEF ds
  <1>. HIDE DEF q
  <1>13. ASSUME NEW k \in 1..Len(q) PROVE GoodTree(q[k], d.saves)
    <2>1. CASE k <= Len(d.stack)
      <3>1. k \in 1..Len(d.stack)
        BY <2>1, <1>4, <1>11, <1>12
      <3>. QED
        BY <3>1, <1>11, <1>12 DEF Good
    <2>2. CASE ~(k <= Len(d.stack))
      <3>. DEFINE j == k - Len(d.stack)
      <3>1. j \in 1..n /\ Len(d.stack) + j = k
        BY <2>2, <1>1, <1>4, <1>11, <1>12
      <3>. HIDE DEF j
      <3>2. q[k] = args[j] /\ GoodTree(args[j], s.saves)
        BY <3>1, <1>1, <1>12
      <3>. QED
        BY <3>2, <1>11 DEF GoodTree
    <2>. QED
      BY <2>1, <2>2
  <1>14. Becomes(d, e, Len(q))
    BY <1>11, <1>12, <1>13, NewStack
  <1>. HIDE DEF e
  <1>15. /\ Good(e) /\ n + 1 \in Nat /\ n + 1 > 0
         /\ Len(e.stack) = l + 2 + n /\ n + 1 <= Len(e.stack)
    BY <1>1, <1>4, <1>11, <1>12, <1>14 DEF Becomes
  <1>16. Becomes(e, r, Len(e.stack) - (n + 1) + One(FALSE))
    BY <1>15, MethodCall
  <1>. HIDE DEF r
  <1>17. Becomes(s, e, Len(q))
    BY <1>10, <1>14, Then
  <1>18. Len(e.stack) - (n + 1) + One(FALSE) = l + 1
    BY <1>4, <1>15 DEF One
  <1>19. Becomes(e, r, l + 1)
    BY <1>16, <1>18
  <1>20. Becomes(s, r, l + 1)
    BY ONLY <1>17, <1>19, Then
  <1>. QED
    BY <1>3, <1>20 DEF l

\* A tree is built of the operands and pushed.
LEMMA Replaced ==
  ASSUME NEW s, Good(s), NEW n \in Nat, n <= Len(s.stack), NEW t, GoodTree(t, s.saves)
  PROVE  Becomes(s, stack_push(Popped(s, n), t), Len(s.stack) - n + 1)
  <1>. DEFINE p == Popped(s, n)
              r == stack_push(p, t)
  <1>1. Becomes(s, p, Len(s.stack) - n) /\ p.saves = s.saves
    BY PoppedN
  <1>. HIDE DEF p
  <1>2. Good(p) /\ Len(p.stack) = Len(s.stack) - n /\ GoodTree(t, p.saves)
    BY <1>1 DEF Becomes
  <1>3. Becomes(p, r, Len(p.stack) + 1)
    BY <1>2, Pushed
  <1>. HIDE DEF r
  <1>4. Becomes(s, r, Len(p.stack) + 1)
    BY ONLY <1>1, <1>3, Then
  <1>. QED
    BY <1>2, <1>4 DEF p, r

\* The operands are noted down before.
LEMMA NotedReplaced ==
  ASSUME NEW s, Good(s), NEW n \in Nat, n <= Len(s.stack), NEW t, GoodTree(t, s.saves),
         NEW u, Becomes(s, u, Len(s.stack)), u.saves = s.saves
  PROVE  Becomes(s, stack_push(Popped(u, n), t), Len(s.stack) - n + 1)
  <1>. DEFINE r == stack_push(Popped(u, n), t)
  <1>1. Good(u) /\ Len(u.stack) = Len(s.stack) /\ GoodTree(t, u.saves)
    BY DEF Becomes
  <1>2. Becomes(u, r, Len(s.stack) - n + 1)
    BY <1>1, Replaced
  <1>. HIDE DEF r
  <1>3. Becomes(s, r, Len(s.stack) - n + 1)
    BY ONLY <1>2, Then, Becomes(s, u, Len(s.stack))
  <1>. QED
    BY <1>3 DEF r

\* A statement of the topmost operand.
LEMMA Consumed ==
  ASSUME NEW s, Good(s), 1 <= Len(s.stack), NEW t, t.op \notin Jumps
  PROVE  Becomes(s, append_to_statement_list(stack_pop(s), t), Len(s.stack) - 1)
  <1>. DEFINE p == stack_pop(s)
              r == append_to_statement_list(p, t)
  <1>1. Becomes(s, p, Len(s.stack) - 1)
    BY PoppedN, PoppedOnce
  <1>. HIDE DEF p
  <1>2. Good(p) /\ Len(p.stack) = Len(s.stack) - 1
    BY <1>1 DEF Becomes
  <1>3. Becomes(p, r, Len(s.stack) - 1)
    BY <1>2, AppendedQuietly
  <1>. HIDE DEF r
  <1>4. Becomes(s, r, Len(s.stack) - 1)
    BY ONLY <1>1, <1>3, Then
  <1>. QED
    BY <1>4 DEF p, r

\* make_instr_pop: the tree on top is no statement.
LEMMA Discarded ==
  ASSUME NEW s, Good(s), 1 <= Len(s.stack)
  PROVE  Becomes(s, make_instr_pop(s), Len(s.stack) - 1)
  <1>1. Last(s.stack).op \notin Jumps
    BY ElemFacts DEF GoodTree, Statements, Jumps
  <1>. QED
    BY <1>1, Consumed DEF make_instr_pop

\* make_assignment.
LEMMA Assigned ==
  ASSUME NEW s, Good(s), 1 <= Len(s.stack), NEW lvalue
  PROVE  Becomes(s, make_assignment(s, lvalue), Len(s.stack) - 1)
  <1>. DEFINE t == Tree("assign", 0, <<lvalue, Last(s.stack)>>)
  <1>1. t.op \notin Jumps
    BY DEF Tree, Jumps
  <1>2. make_assignment(s, lvalue) = append_to_statement_list(stack_pop(s), t)
    BY DEF make_assignment
  <1>. HIDE DEF t
  <1>. QED
    BY <1>1, <1>2, Consumed

\* An assignment through a reference: make_field_assignment and
\* make_array_elem_assignment.
LEMMA AssignedThrough ==
  ASSUME NEW s, Good(s), NEW n \in Nat \ {0}, n <= Len(s.stack), NEW lvalue,
         NEW u, Becomes(s, u, Len(s.stack)), u.saves = s.saves
  PROVE  Becomes(s, make_assignment(stack_push(Popped(u, n), stack_elem(s, 1)), lvalue),
                 Len(s.stack) - n)
  <1>. DEFINE v == stack_elem(s, 1)
              p == stack_push(Popped(u, n), v)
              r == make_assignment(p, lvalue)
  <1>1. GoodTree(v, s.saves) /\ Len(s.stack) \in Nat
    BY ElemFacts, Stays
  <1>. HIDE DEF v
  <1>2. Becomes(s, p, Len(s.stack) - n + 1)
    BY <1>1, NotedReplaced
  <1>. HIDE DEF p
  <1>3. Good(p) /\ Len(p.stack) = Len(s.stack) - n + 1 /\ 1 <= Len(p.stack)
    BY <1>1, <1>2 DEF Becomes
  <1>4. Becomes(p, r, Len(p.stack) - 1)
    BY <1>3, Assigned
  <1>. HIDE DEF r
  <1>5. Becomes(s, r, Len(p.stack) - 1)
    BY ONLY <1>2, <1>4, Then
  <1>6. Len(p.stack) - 1 = Len(s.stack) - n
    BY <1>1, <1>3
  <1>. QED
    BY <1>5, <1>6 DEF r, p, v

\* make_field_assignment.
LEMMA FieldAssigned ==
  ASSUME NEW s, Good(s), 2 <= Len(s.stack), NEW f
  PROVE  Becomes(s, make_field_assignment(s, f), Len(s.stack) - 2)
  <1>. DEFINE ref == stack_elem(s, 2)
              u == Checked(s, ref, <<stack_elem(s, 1)>>)
              lvalue == Tree("load", f, <<create_null_reference_check(ref)>>)
  <1>1. Becomes(s, u, Len(s.stack)) /\ u.saves = s.saves
    BY CheckedFacts
  <1>2. make_field_assignment(s, f)
          = make_assignment(stack_push(Popped(u, 2), stack_elem(s, 1)), lvalue)
    BY DEF make_field_assignment
  <1>. HIDE DEF u, lvalue
  <1>. QED
    BY <1>1, <1>2, AssignedThrough

\* make_array_elem_assignment.
LEMMA ElemAssigned ==
  ASSUME NEW s, Good(s), 3 <= Len(s.stack)
  PROVE  Becomes(s, make_array_elem_assignment(s), Len(s.stack) - 3)
  <1>. DEFINE array == stack_elem(s, 3)
              index == stack_elem(s, 2)
              u == CheckedElem(s, array, index, <<stack_elem(s, 1)>>)
              lvalue == create_array_elem_access(array, index)
  <1>1. Becomes(s, u, Len(s.stack)) /\ u.saves = s.saves
    BY CheckedElemFacts
  <1>2. make_array_elem_assignment(s)
          = make_assignment(stack_push(Popped(u, 3), stack_elem(s, 1)), lvalue)
    BY DEF make_array_elem_assignment
  <1>. HIDE DEF u, lvalue
  <1>. QED
    BY <1>1, <1>2, AssignedThrough

\* make_arithmetic_expr.
LEMMA Arithmetic ==
  ASSUME NEW s, Good(s), 2 <= Len(s.stack)
  PROVE  Becomes(s, make_arithmetic_expr(s, "minus"), Len(s.stack) - 1)
  <1>. DEFINE t == Tree("minus", 0, Args(s, 2))
  <1>1. GoodKids(Args(s, 2), s.saves) /\ Len(s.stack) \in Nat
    BY ArgsFacts, Stays
  <1>2. GoodTree(t, s.saves)
    BY <1>1, Plain DEF Statements
  <1>. HIDE DEF t
  <1>3. Becomes(s, stack_push(Popped(s, 2), t), Len(s.stack) - 2 + 1)
    BY <1>2, Replaced
  <1>4. Len(s.stack) - 2 + 1 = Len(s.stack) - 1
    BY <1>1
  <1>. QED
    BY <1>3, <1>4 DEF make_arithmetic_expr, t

\* make_return_value takes what is on the stack, if there is anything.
LEMMA Returned ==
  ASSUME NEW s, Good(s)
  PROVE  Becomes(s, make_return_value(s), IF Len(s.stack) = 0 THEN 0 ELSE Len(s.stack) - 1)
  <1>1. IsSeq(s.stack) /\ Len(s.stack) \in Nat
    BY SeqFacts DEF Good
  <1>2. s.stack = <<>> <=> Len(s.stack) = 0
    <2>1. PICK S : s.stack \in Seq(S)
      BY <1>1 DEF IsSeq
    <2>. QED
      BY <2>1
  <1>3. CASE Len(s.stack) = 0
    <2>. DEFINE t == Tree("return", 0, <<>>)
    <2>1. t.op \notin Jumps
      BY DEF Tree, Jumps
    <2>2. make_return_value(s) = append_to_statement_list(s, t)
      BY <1>2, <1>3 DEF make_return_value
    <2>. HIDE DEF t
    <2>. QED
      BY <1>3, <2>1, <2>2, AppendedQuietly
  <1>4. CASE Len(s.stack) # 0
    <2>. DEFINE t == Tree("return", 0, <<Last(s.stack)>>)
    <2>1. t.op \notin Jumps /\ 1 <= Len(s.stack)
      BY <1>1, <1>4 DEF Tree, Jumps
    <2>2. make_return_value(s) = append_to_statement_list(stack_pop(s), t)
      BY <1>2, <1>4 DEF make_return_value
    <2>. HIDE DEF t
    <2>. QED
      BY <1>4, <2>1, <2>2, Consumed
  <1>. QED
    BY <1>3, <1>4

\* make_label: the label is there if the stack is empty.
LEMMA LabelMade ==
  ASSUME Good(Here)
  PROVE  /\ Becomes(Here, Labelled, Len(stack)) /\ Labelled.stack = stack
         /\ Labelled.saves = saves
         /\ Len(stack) = 0 =>
              \E k \in 1..Len(Labelled.body) :
                Labelled.body[k].op = "label" /\ Labelled.body[k].val = Len(code) + 1
  <1>. DEFINE t == Tree("label", Len(code) + 1, <<>>)
              r == Labelled
  <1>1. Here.stack = stack /\ Here.body = body /\ Here.saves = saves
    BY DEF Here
  <1>2. IsSeq(stack) /\ IsSeq(body) /\ Len(stack) \in Nat /\ Len(body) \in Nat
    BY <1>1, SeqFacts DEF Good
  <1>3. stack = <<>> <=> Len(stack) = 0
    <2>1. PICK S : stack \in Seq(S)
      BY <1>2 DEF IsSeq
    <2>. QED
      BY <2>1
  <1>4. t.op = "label" /\ t.val = Len(code) + 1 /\ t.effects = TRUE
    BY DEF Tree, Statements
  <1>. HIDE DEF t
  <1>5. CASE Len(stack) = 0
    <2>1. r = append_to_statement_list(Here, t)
      BY <1>1, <1>3, <1>5 DEF Labelled, make_label, t
    <2>. HIDE DEF r
    <2>2. t.op \notin Jumps
      BY <1>4 DEF Jumps
    <2>3. Becomes(Here, r, Len(stack))
      BY <1>1, <2>1, <2>2, AppendedQuietly
    <2>4. r.stack = stack /\ r.saves = saves /\ r.body = Append(body, t)
      BY <1>1, <1>4, <2>1, Appended
    <2>5. Len(r.body) = Len(body) + 1 /\ r.body[Len(body) + 1] = t
      BY <1>2, <2>4, AppendFacts
    <2>6. Len(body) + 1 \in 1..Len(r.body)
      BY <1>2, <2>5
    <2>. QED
      BY <1>4, <2>3, <2>4, <2>5, <2>6 DEF r
  <1>6. CASE Len(stack) # 0
    <2>1. Labelled = Here
      BY <1>1, <1>3, <1>6 DEF Labelled, make_label
    <2>. QED
      BY <1>1, <1>6, <2>1, Stays
  <1>. QED
    BY <1>5, <1>6

-----------------------------------------------------------------------------
(* Branches *)

\* A jump to L is added, and H trees are left; if none was to be left, none is.
Jumped(r, s, l, h) ==
  /\ Good(r) /\ Good(s) /\ r.odd \subseteq s.odd /\ Len(s.stack) = h
  /\ \E t : t.op \in Jumps /\ t.val = l /\ s.body = Append(r.body, t)
  /\ "branching" \notin s.odd => h = 0

\* The end of every branch.
LEMMA JumpAdded ==
  ASSUME NEW r, NEW p, NEW h, Becomes(r, p, h), p.body = r.body, NEW t, NEW l,
         t.op \in Jumps, t.val = l, t.effects
  PROVE  Jumped(r, append_to_statement_list(Branching(p), t), l, h)
  <1>. DEFINE b == Branching(p)
              s == append_to_statement_list(b, t)
  <1>1. Good(r) /\ Good(p) /\ Len(p.stack) = h /\ r.odd \subseteq p.odd
    BY DEF Becomes, Quiet
  <1>2. /\ Becomes(p, b, Len(p.stack)) /\ b.stack = p.stack /\ b.body = p.body
        /\ p.stack # <<>> => "branching" \in b.odd
    BY <1>1, OddFacts DEF Branching, Kinds
  <1>. HIDE DEF b
  <1>3. Good(b) /\ p.odd \subseteq b.odd
    BY <1>2 DEF Becomes, Quiet
  <1>4. /\ Good(s) /\ s.stack = b.stack /\ b.odd \subseteq s.odd
        /\ s.body = Append(b.body, t)
    BY <1>3, Appended
  <1>. HIDE DEF s
  <1>5. p.stack = <<>> => h = 0
    BY <1>1
  <1>6. r.odd \subseteq s.odd /\ Len(s.stack) = h /\ s.body = Append(r.body, t)
    BY <1>1, <1>2, <1>3, <1>4
  <1>7. "branching" \notin s.odd => h = 0
    BY <1>2, <1>4, <1>5
  <1>. QED
    BY <1>1, <1>4, <1>6, <1>7 DEF Jumped, b, s

\* The statements of the branches.
LEMMA JumpTrees ==
  ASSUME NEW op \in Jumps, NEW l, NEW kids
  PROVE  Tree(op, l, kids).op \in Jumps /\ Tree(op, l, kids).val = l /\ Tree(op, l, kids).effects
  BY DEF Tree, Jumps, Statements

\* make_branch_on_true and make_branch_on_false.
LEMMA JumpOnOne ==
  ASSUME NEW s, Good(s), 1 <= Len(s.stack), NEW l
  PROVE  /\ Jumped(s, make_branch_on_true(s, l), l, Len(s.stack) - 1)
         /\ Jumped(s, make_branch_on_false(s, l), l, Len(s.stack) - 1)
  <1>. DEFINE p == stack_pop(s)
              t == Tree("if", l, <<Last(s.stack)>>)
              u == Tree("unless", l, <<Last(s.stack)>>)
  <1>1. Becomes(s, p, Len(s.stack) - 1) /\ p.body = s.body
    BY PoppedN, PoppedOnce
  <1>2. /\ t.op \in Jumps /\ t.val = l /\ t.effects
        /\ u.op \in Jumps /\ u.val = l /\ u.effects
    BY JumpTrees DEF Jumps
  <1>3. /\ make_branch_on_true(s, l) = append_to_statement_list(Branching(p), t)
        /\ make_branch_on_false(s, l) = append_to_statement_list(Branching(p), u)
    BY DEF make_branch_on_true, make_branch_on_false
  <1>. HIDE DEF p, t, u
  <1>. QED
    BY <1>1, <1>2, <1>3, JumpAdded

\* make_branch_comparison.
LEMMA JumpOnTwo ==
  ASSUME NEW s, Good(s), 2 <= Len(s.stack), NEW l
  PROVE  Jumped(s, make_branch_comparison(s, l), l, Len(s.stack) - 2)
  <1>. DEFINE p == Popped(s, 2)
              t == Tree("if", l, <<Tree("eq", 0, Args(s, 2))>>)
  <1>1. Becomes(s, p, Len(s.stack) - 2) /\ p.body = s.body
    BY PoppedN
  <1>2. t.op \in Jumps /\ t.val = l /\ t.effects
    BY JumpTrees DEF Jumps
  <1>3. make_branch_comparison(s, l) = append_to_statement_list(Branching(p), t)
    BY DEF make_branch_comparison
  <1>. HIDE DEF p, t
  <1>. QED
    BY <1>1, <1>2, <1>3, JumpAdded

\* make_branch_unconditional.
LEMMA JumpAlways ==
  ASSUME NEW s, Good(s), NEW l
  PROVE  Jumped(s, make_branch_unconditional(s, l), l, Len(s.stack))
  <1>. DEFINE t == Tree("goto", l, <<>>)
  <1>1. Becomes(s, s, Len(s.stack))
    BY Stays
  <1>2. t.op \in Jumps /\ t.val = l /\ t.effects
    BY JumpTrees DEF Jumps
  <1>3. make_branch_unconditional(s, l) = append_to_statement_list(Branching(s), t)
    BY DEF make_branch_unconditional
  <1>. HIDE DEF t
  <1>. QED
    BY <1>1, <1>2, <1>3, JumpAdded

-----------------------------------------------------------------------------
(* The invariant *)

\* Every instruction that finds the stack empty has its label in the body.
LabelsMade ==
  \A i \in 1..Len(code) : heights[i] = 0 =>
    \E k \in 1..Len(body) : body[k].op = "label" /\ body[k].val = i

\* Every jump comes from a branch, which finds its operands and no more unless
\* a value was left on the stack at some branch.
JumpsMade ==
  \A k \in 1..Len(body) : body[k].op \in Jumps =>
    \E i \in 1..Len(code) :
      /\ code[i].op \in Branches /\ code[i].arg = body[k].val
      /\ "branching" \notin odd => heights[i] = Operands(code[i])

\* The height I leaves of N.
After(i, n) ==
  IF i.op = "ret" THEN IF n = 0 THEN 0 ELSE n - 1 ELSE n - Operands(i) + Results(i)

\* The inductive invariant.
MethodInv ==
  /\ code \in Seq(Instructions) /\ Len(code) <= MaxCode
  /\ heights \in Seq(Nat) /\ Len(heights) = Len(code)
  /\ Good(Here)
  /\ compiled \in BOOLEAN
  /\ ~compiled /\ code # <<>> => Len(stack) = HeightAfter(Len(code))
  /\ LabelsMade /\ JumpsMade
  /\ compiled => Verified

\* What a handler adds to the labelled state R for instruction I.
Adds(r, s, i) ==
  /\ Good(s) /\ r.odd \subseteq s.odd
  /\ Len(r.body) <= Len(s.body)
  /\ \A k \in 1..Len(r.body) : s.body[k] = r.body[k]
  /\ \A k \in 1..Len(s.body) : k > Len(r.body) /\ s.body[k].op \in Jumps =>
       /\ i.op \in Branches /\ i.arg = s.body[k].val
       /\ "branching" \notin s.odd => Len(r.stack) = Operands(i)
  /\ Len(s.stack) = After(i, Len(r.stack))

\* A handler that adds no jump.
LEMMA AddsQuietly ==
  ASSUME NEW r, NEW s, NEW i, NEW h, Becomes(r, s, h), h = After(i, Len(r.stack))
  PROVE  Adds(r, s, i)
  BY DEF Becomes, Quiet, Adds

\* A handler that adds one.
LEMMA AddsJump ==
  ASSUME NEW r, NEW s, NEW i \in Instructions, i.op \in Branches, NEW h,
         Jumped(r, s, i.arg, h), h = Len(r.stack) - Operands(i),
         Operands(i) \in Nat, Results(i) = 0
  PROVE  Adds(r, s, i)
  <1>1. /\ Good(r) /\ Good(s) /\ r.odd \subseteq s.odd /\ Len(s.stack) = h
        /\ "branching" \notin s.odd => h = 0
    BY DEF Jumped
  <1>2. PICK t : t.op \in Jumps /\ t.val = i.arg /\ s.body = Append(r.body, t)
    BY DEF Jumped
  <1>3. IsSeq(r.body) /\ Len(r.body) \in Nat /\ Len(r.stack) \in Nat
    BY <1>1, SeqFacts DEF Good
  <1>4. /\ Len(s.body) = Len(r.body) + 1 /\ s.body[Len(r.body) + 1] = t
        /\ \A k \in 1..Len(r.body) : s.body[k] = r.body[k]
    BY <1>2, <1>3, AppendFacts
  <1>5. "branching" \notin s.odd => Len(r.stack) = Operands(i)
    BY <1>1, <1>3
  <1>6. ASSUME NEW k \in 1..Len(s.body), k > Len(r.body)
        PROVE  i.arg = s.body[k].val
    <2>1. k = Len(r.body) + 1
      BY <1>3, <1>4, <1>6
    <2>. QED
      BY <2>1, <1>2, <1>4
  <1>7. h = After(i, Len(r.stack))
    BY <1>3 DEF After, Branches
  <1>8. Len(r.body) <= Len(s.body)
    BY <1>3, <1>4
  <1>. QED
    BY <1>1, <1>4, <1>5, <1>6, <1>7, <1>8 DEF Adds

\* An instruction, given what its handler adds.
LEMMA InstructionStep ==
  ASSUME MethodInv, NEW i \in Instructions, NEW s, Parse(i, s), Adds(Labelled, s, i)
  PROVE  MethodInv'
  <1>. DEFINE n == Len(code)
              r == Labelled
  <1>1. /\ code \in Seq(Instructions) /\ n \in Nat /\ n <= MaxCode /\ MaxCode \in Nat
        /\ heights \in Seq(Nat) /\ Len(heights) = n
        /\ Good(Here) /\ compiled \in BOOLEAN
    BY MaxCodeAssumption DEF MethodInv
  <1>2. /\ ~compiled /\ n < MaxCode
        /\ code' = Append(code, i) /\ heights' = Append(heights, Len(stack))
        /\ stack' = s.stack /\ body' = s.body /\ saves' = s.saves /\ odd' = s.odd
        /\ compiled' = compiled
    BY DEF Parse
  <1>3. /\ Becomes(Here, r, Len(stack)) /\ r.stack = stack
        /\ Len(stack) = 0 =>
             \E k \in 1..Len(r.body) : r.body[k].op = "label" /\ r.body[k].val = n + 1
    BY <1>1, LabelMade
  <1>. HIDE DEF r
  <1>4. Here.stack = stack /\ Here.body = body /\ Here.odd = odd
    BY DEF Here
  <1>5. /\ Good(r) /\ odd \subseteq r.odd /\ Len(body) <= Len(r.body)
        /\ \A k \in 1..Len(body) : r.body[k] = body[k]
        /\ \A k \in 1..Len(r.body) : k > Len(body) => r.body[k].op \notin Jumps
    BY <1>3, <1>4 DEF Becomes, Quiet
  <1>6. /\ Good(s) /\ r.odd \subseteq s.odd /\ Len(r.body) <= Len(s.body)
        /\ \A k \in 1..Len(r.body) : s.body[k] = r.body[k]
        /\ \A k \in 1..Len(s.body) : k > Len(r.body) /\ s.body[k].op \in Jumps =>
             /\ i.op \in Branches /\ i.arg = s.body[k].val
             /\ "branching" \notin s.odd => Len(stack) = Operands(i)
        /\ Len(s.stack) = After(i, Len(stack))
    BY <1>3 DEF Adds, r
  <1>7. /\ Len(stack) \in Nat /\ Len(body) \in Nat /\ Len(r.body) \in Nat /\ Len(s.body) \in Nat
    BY <1>1, <1>4, <1>5, <1>6, SeqFacts DEF Good
  <1>8. /\ code' \in Seq(Instructions) /\ Len(code') = n + 1 /\ Len(code') <= MaxCode
        /\ heights' \in Seq(Nat) /\ Len(heights') = n + 1
        /\ \A k \in 1..n : code'[k] = code[k] /\ heights'[k] = heights[k]
        /\ code'[n + 1] = i /\ heights'[n + 1] = Len(stack)
    BY <1>1, <1>2, <1>7
  <1>9. Good(Here)'
    <2>1. s = [stack |-> s.stack, body |-> s.body, saves |-> s.saves, odd |-> s.odd]
      BY <1>6 DEF Good
    <2>2. Here' = s
      BY <1>2, <2>1 DEF Here
    <2>3. Good(Here')
      BY <1>6, <2>2
    <2>. QED
      BY <2>3 DEF Good
  <1>10. Len(stack') = HeightAfter(Len(code))'
    <2>1. HeightAfter(Len(code))' = After(i, Len(stack))
      BY <1>8 DEF HeightAfter, After
    <2>. QED
      BY <2>1, <1>2, <1>6
  <1>11. \A k \in 1..Len(body) : body'[k] = body[k] /\ k \in 1..Len(body')
    BY <1>2, <1>5, <1>6, <1>7
  <1>12. LabelsMade'
    <2>1. ASSUME NEW j \in 1..(n + 1), heights'[j] = 0
          PROVE  \E k \in 1..Len(body') : body'[k].op = "label" /\ body'[k].val = j
      <3>1. CASE j = n + 1
        <4>1. Len(stack) = 0
          BY <3>1, <2>1, <1>8
        <4>2. PICK k \in 1..Len(r.body) : r.body[k].op = "label" /\ r.body[k].val = n + 1
          BY <4>1, <1>3
        <4>3. k \in 1..Len(body') /\ body'[k] = r.body[k]
          BY <1>2, <1>6, <1>7
        <4>. QED
          BY <3>1, <4>2, <4>3
      <3>2. CASE j # n + 1
        <4>1. j \in 1..n /\ heights[j] = 0
          BY <3>2, <2>1, <1>1, <1>8
        <4>2. PICK k \in 1..Len(body) : body[k].op = "label" /\ body[k].val = j
          BY <4>1 DEF MethodInv, LabelsMade
        <4>. QED
          BY <4>2, <1>11
      <3>. QED
        BY <3>1, <3>2
    <2>. QED
      BY <1>8, <2>1 DEF LabelsMade
  <1>13. JumpsMade'
    <2>1. ASSUME NEW k \in 1..Len(body'), body'[k].op \in Jumps
          PROVE  \E j \in 1..(n + 1) :
                   /\ code'[j].op \in Branches /\ code'[j].arg = body'[k].val
                   /\ "branching" \notin odd' => heights'[j] = Operands(code'[j])
      <3>1. CASE k > Len(r.body)
        <4>1. /\ i.op \in Branches /\ i.arg = body'[k].val
              /\ "branching" \notin odd' => Len(stack) = Operands(i)
          BY <3>1, <2>1, <1>2, <1>6
        <4>2. n + 1 \in 1..(n + 1)
          BY <1>1
        <4>. QED
          BY <4>1, <4>2, <1>8
      <3>2. CASE ~(k > Len(r.body))
        <4>1. k \in 1..Len(r.body) /\ body'[k] = r.body[k]
          BY <3>2, <1>2, <1>6, <1>7
        <4>2. k \in 1..Len(body) /\ body'[k] = body[k]
          BY <4>1, <2>1, <1>5, <1>7
        <4>3. PICK j \in 1..n : /\ code[j].op \in Branches /\ code[j].arg = body[k].val
                                /\ "branching" \notin odd => heights[j] = Operands(code[j])
          BY <4>2, <2>1 DEF MethodInv, JumpsMade
        <4>4. j \in 1..(n + 1) /\ code'[j] = code[j] /\ heights'[j] = heights[j]
          BY <1>1, <1>8
        <4>5. odd \subseteq odd'
          BY <1>2, <1>5, <1>6
        <4>. QED
          BY <4>2, <4>3, <4>4, <4>5
      <3>. QED
        BY <3>1, <3>2
    <2>2. (1..Len(code))' = 1..(n + 1)
      BY <1>8
    <2>3. JumpsMade' <=>
            \A k \in 1..Len(body') : body'[k].op \in Jumps =>
              \E j \in 1..Len(code') :
                /\ code'[j].op \in Branches /\ code'[j].arg = body'[k].val
                /\ "branching" \notin odd' => heights'[j] = Operands(code'[j])
      BY DEF JumpsMade, Operands
    <2>. QED
      BY <2>1, <2>2, <2>3
  <1>. QED
    BY <1>1, <1>2, <1>8, <1>9, <1>10, <1>12, <1>13 DEF MethodInv

-----------------------------------------------------------------------------
(* The instructions *)

\* What the instructions take and leave.
LEMMA Effects ==
  ASSUME NEW i \in Instructions
  PROVE  /\ i.op \in {"ldloc", "ldc", "ldsfld"} => Operands(i) = 0 /\ Results(i) = 1
         /\ i.op \in {"br", "ret"} => Operands(i) = 0 /\ Results(i) = 0
         /\ i.op \in {"stloc", "stsfld", "pop", "brtrue", "brfalse"} =>
              Operands(i) = 1 /\ Results(i) = 0
         /\ i.op \in {"ldfld", "ldlen", "newarr"} => Operands(i) = 1 /\ Results(i) = 1
         /\ i.op = "dup" => Operands(i) = 1 /\ Results(i) = 2
         /\ i.op \in {"sub", "ldelem"} => Operands(i) = 2 /\ Results(i) = 1
         /\ i.op \in {"stfld", "beq"} => Operands(i) = 2 /\ Results(i) = 0
         /\ i.op = "stelem" => Operands(i) = 3 /\ Results(i) = 0
         /\ i.op \in {"call", "callinst", "callvirt"} =>
              Operands(i) = i.n /\ Results(i) = One(i.returns)
         /\ i.op = "newobj" => Operands(i) = i.n /\ Results(i) = 1
  BY DEF Operands, Results, One

\* The state an instruction starts from.
LEMMA Start ==
  ASSUME MethodInv
  PROVE  /\ Good(Labelled) /\ Labelled.stack = stack /\ Len(stack) \in Nat
         /\ Labelled.saves = saves
  <1>1. Good(Here) /\ Here.stack = stack
    BY DEF MethodInv, Here
  <1>. QED
    BY <1>1, LabelMade, Stays DEF Becomes

\* An instruction whose handler adds no jump and leaves H trees.
LEMMA QuietStep ==
  ASSUME MethodInv, NEW i \in Instructions, NEW s, Parse(i, s), i.op # "ret",
         Becomes(Labelled, s, Len(stack) - Operands(i) + Results(i))
  PROVE  MethodInv'
  <1>1. Labelled.stack = stack
    BY Start
  <1>2. Len(stack) - Operands(i) + Results(i) = After(i, Len(Labelled.stack))
    BY <1>1 DEF After
  <1>3. Adds(Labelled, s, i)
    BY <1>2, AddsQuietly
  <1>. QED
    BY <1>3, InstructionStep

\* An instruction whose handler adds a jump.
LEMMA JumpStep ==
  ASSUME MethodInv, NEW i \in Instructions, NEW s, Parse(i, s), i.op \in Branches,
         Jumped(Labelled, s, i.arg, Len(stack) - Operands(i))
  PROVE  MethodInv'
  <1>1. Labelled.stack = stack
    BY Start
  <1>2. Operands(i) \in Nat /\ Results(i) = 0
    BY Effects DEF Branches
  <1>3. Adds(Labelled, s, i)
    BY <1>1, <1>2, AddsJump
  <1>. QED
    BY <1>3, InstructionStep

\* ldloc.
LEMMA LdlocStep ==
  ASSUME MethodInv, NEW i \in Instructions, ldloc(i)
  PROVE  MethodInv'
  <1>. DEFINE r == Labelled
              s == stack_push(r, Var(i.arg))
  <1>1. i.op = "ldloc" /\ Parse(i, s) /\ Len(stack) >= Operands(i)
    BY DEF ldloc, Is
  <1>2. Good(r) /\ r.stack = stack /\ Len(stack) \in Nat /\ r.saves = saves
    BY Start
  <1>3. Operands(i) = 0 /\ Results(i) = 1
    BY <1>1, Effects
  <1>. HIDE DEF r
  <1>8. Becomes(r, s, Len(stack) + 1)
    BY <1>2, Leaf, Pushed
  <1>9. Len(stack) + 1 = Len(stack) - Operands(i) + Results(i)
    BY <1>2, <1>3
  <1>. HIDE DEF s
  <1>. QED
    BY <1>1, <1>8, <1>9, QuietStep DEF r

\* stloc.
LEMMA StlocStep ==
  ASSUME MethodInv, NEW i \in Instructions, stloc(i)
  PROVE  MethodInv'
  <1>. DEFINE r == Labelled
              s == make_assignment(r, Var(i.arg))
  <1>1. i.op = "stloc" /\ Parse(i, s) /\ Len(stack) >= Operands(i)
    BY DEF stloc, Is
  <1>2. Good(r) /\ r.stack = stack /\ Len(stack) \in Nat /\ r.saves = saves
    BY Start
  <1>3. Operands(i) = 1 /\ Results(i) = 0
    BY <1>1, Effects
  <1>. HIDE DEF r
  <1>8. Becomes(r, s, Len(stack) - 1)
    BY <1>1, <1>2, <1>3, Assigned
  <1>9. Len(stack) - 1 = Len(stack) - Operands(i) + Results(i)
    BY <1>2, <1>3
  <1>. HIDE DEF s
  <1>. QED
    BY <1>1, <1>8, <1>9, QuietStep DEF r

\* ldc.
LEMMA LdcStep ==
  ASSUME MethodInv, NEW i \in Instructions, ldc(i)
  PROVE  MethodInv'
  <1>. DEFINE r == Labelled
              s == stack_push(r, Const(i.arg))
  <1>1. i.op = "ldc" /\ Parse(i, s) /\ Len(stack) >= Operands(i)
    BY DEF ldc, Is
  <1>2. Good(r) /\ r.stack = stack /\ Len(stack) \in Nat /\ r.saves = saves
    BY Start
  <1>3. Operands(i) = 0 /\ Results(i) = 1
    BY <1>1, Effects
  <1>. HIDE DEF r
  <1>8. Becomes(r, s, Len(stack) + 1)
    BY <1>2, Leaf, Pushed
  <1>9. Len(stack) + 1 = Len(stack) - Operands(i) + Results(i)
    BY <1>2, <1>3
  <1>. HIDE DEF s
  <1>. QED
    BY <1>1, <1>8, <1>9, QuietStep DEF r

\* dup.
LEMMA DupStep ==
  ASSUME MethodInv, NEW i \in Instructions, dup(i)
  PROVE  MethodInv'
  <1>. DEFINE r == Labelled
              s == make_instr_dup(r)
  <1>1. i.op = "dup" /\ Parse(i, s) /\ Len(stack) >= Operands(i)
    BY DEF dup, Is
  <1>2. Good(r) /\ r.stack = stack /\ Len(stack) \in Nat /\ r.saves = saves
    BY Start
  <1>3. Operands(i) = 1 /\ Results(i) = 2
    BY <1>1, Effects
  <1>. HIDE DEF r
  <1>8. Becomes(r, s, Len(stack) + 1)
    BY <1>1, <1>2, <1>3, Duplicate
  <1>9. Len(stack) + 1 = Len(stack) - Operands(i) + Results(i)
    BY <1>2, <1>3
  <1>. HIDE DEF s
  <1>. QED
    BY <1>1, <1>8, <1>9, QuietStep DEF r

\* pop.
LEMMA PopStep ==
  ASSUME MethodInv, NEW i \in Instructions, pop(i)
  PROVE  MethodInv'
  <1>. DEFINE r == Labelled
              s == make_instr_pop(r)
  <1>1. i.op = "pop" /\ Parse(i, s) /\ Len(stack) >= Operands(i)
    BY DEF pop, Is
  <1>2. Good(r) /\ r.stack = stack /\ Len(stack) \in Nat /\ r.saves = saves
    BY Start
  <1>3. Operands(i) = 1 /\ Results(i) = 0
    BY <1>1, Effects
  <1>. HIDE DEF r
  <1>8. Becomes(r, s, Len(stack) - 1)
    BY <1>1, <1>2, <1>3, Discarded
  <1>9. Len(stack) - 1 = Len(stack) - Operands(i) + Results(i)
    BY <1>2, <1>3
  <1>. HIDE DEF s
  <1>. QED
    BY <1>1, <1>8, <1>9, QuietStep DEF r

\* sub, and every operator.
LEMMA ArithmeticStep ==
  ASSUME MethodInv, NEW i \in Instructions, arithmetic(i)
  PROVE  MethodInv'
  <1>. DEFINE r == Labelled
              s == make_arithmetic_expr(r, "minus")
  <1>1. i.op = "sub" /\ Parse(i, s) /\ Len(stack) >= Operands(i)
    BY DEF arithmetic, Is
  <1>2. Good(r) /\ r.stack = stack /\ Len(stack) \in Nat /\ r.saves = saves
    BY Start
  <1>3. Operands(i) = 2 /\ Results(i) = 1
    BY <1>1, Effects
  <1>. HIDE DEF r
  <1>8. Becomes(r, s, Len(stack) - 1)
    BY <1>1, <1>2, <1>3, Arithmetic
  <1>9. Len(stack) - 1 = Len(stack) - Operands(i) + Results(i)
    BY <1>2, <1>3
  <1>. HIDE DEF s
  <1>. QED
    BY <1>1, <1>8, <1>9, QuietStep DEF r

\* call.
LEMMA CallStep ==
  ASSUME MethodInv, NEW i \in Instructions, instr_call(i)
  PROVE  MethodInv'
  <1>. DEFINE r == Labelled
              s == make_method_call(r, i.arg, i.n, i.returns, FALSE)
  <1>1. i.op = "call" /\ Parse(i, s) /\ Len(stack) >= Operands(i)
    BY DEF instr_call, Is
  <1>2. Good(r) /\ r.stack = stack /\ Len(stack) \in Nat /\ r.saves = saves
    BY Start
  <1>3. Operands(i) = i.n /\ Results(i) = One(i.returns)
    BY <1>1, Effects
  <1>4. i.n \in Nat /\ i.returns \in BOOLEAN
    BY InstructionAssumption
  <1>. HIDE DEF r
  <1>8. Becomes(r, s, Len(stack) - i.n + One(i.returns))
    BY <1>1, <1>2, <1>3, <1>4, MethodCall
  <1>9. Len(stack) - i.n + One(i.returns) = Len(stack) - Operands(i) + Results(i)
    BY <1>2, <1>3, InstructionAssumption
  <1>. HIDE DEF s
  <1>. QED
    BY <1>1, <1>8, <1>9, QuietStep DEF r

\* callvirt of a method that is not virtual.
LEMMA CallInstanceStep ==
  ASSUME MethodInv, NEW i \in Instructions, instr_callvirt_static(i)
  PROVE  MethodInv'
  <1>. DEFINE r == Labelled
              s == make_method_call(r, i.arg, i.n, i.returns, TRUE)
  <1>1. i.op = "callinst" /\ Parse(i, s) /\ Len(stack) >= Operands(i)
    BY DEF instr_callvirt_static, Is
  <1>2. Good(r) /\ r.stack = stack /\ Len(stack) \in Nat /\ r.saves = saves
    BY Start
  <1>3. Operands(i) = i.n /\ Results(i) = One(i.returns)
    BY <1>1, Effects
  <1>4. i.n \in Nat \ {0} /\ i.returns \in BOOLEAN
    BY <1>1, InstructionAssumption
  <1>5. i.n \in Nat /\ i.n > 0 /\ i.n <= Len(r.stack) /\ TRUE \in BOOLEAN
    BY <1>1, <1>2, <1>3, <1>4
  <1>. HIDE DEF r
  <1>8. Becomes(r, s, Len(stack) - i.n + One(i.returns))
    BY ONLY <1>2, <1>4, <1>5, MethodCall
  <1>9. Len(stack) - i.n + One(i.returns) = Len(stack) - Operands(i) + Results(i)
    BY <1>2, <1>3, InstructionAssumption
  <1>. HIDE DEF s
  <1>. QED
    BY <1>1, <1>8, <1>9, QuietStep DEF r

\* callvirt of one that is.
LEMMA CallVirtualStep ==
  ASSUME MethodInv, NEW i \in Instructions, instr_callvirt(i)
  PROVE  MethodInv'
  <1>. DEFINE r == Labelled
              s == make_virtual_method_call(r, i.arg, i.n, i.returns)
  <1>1. i.op = "callvirt" /\ Parse(i, s) /\ Len(stack) >= Operands(i)
    BY DEF instr_callvirt, Is
  <1>2. Good(r) /\ r.stack = stack /\ Len(stack) \in Nat /\ r.saves = saves
    BY Start
  <1>3. Operands(i) = i.n /\ Results(i) = One(i.returns)
    BY <1>1, Effects
  <1>4. i.n \in Nat \ {0} /\ i.returns \in BOOLEAN
    BY <1>1, InstructionAssumption
  <1>. HIDE DEF r
  <1>8. Becomes(r, s, Len(stack) - i.n + One(i.returns))
    BY <1>1, <1>2, <1>3, <1>4, VirtualMethodCall
  <1>9. Len(stack) - i.n + One(i.returns) = Len(stack) - Operands(i) + Results(i)
    BY <1>2, <1>3, InstructionAssumption
  <1>. HIDE DEF s
  <1>. QED
    BY <1>1, <1>8, <1>9, QuietStep DEF r

\* newobj.
LEMMA NewobjStep ==
  ASSUME MethodInv, NEW i \in Instructions, instr_newobj(i)
  PROVE  MethodInv'
  <1>. DEFINE r == Labelled
              s == make_new_object(r, i.arg, i.n)
  <1>1. i.op = "newobj" /\ Parse(i, s) /\ Len(stack) >= Operands(i)
    BY DEF instr_newobj, Is
  <1>2. Good(r) /\ r.stack = stack /\ Len(stack) \in Nat /\ r.saves = saves
    BY Start
  <1>3. Operands(i) = i.n /\ Results(i) = 1
    BY <1>1, Effects
  <1>4. i.n \in Nat /\ i.returns \in BOOLEAN
    BY InstructionAssumption
  <1>. HIDE DEF r
  <1>8. Becomes(r, s, Len(stack) - i.n + 1)
    BY <1>1, <1>2, <1>3, <1>4, NewObject
  <1>9. Len(stack) - i.n + 1 = Len(stack) - Operands(i) + Results(i)
    BY <1>2, <1>3, InstructionAssumption
  <1>. HIDE DEF s
  <1>. QED
    BY <1>1, <1>8, <1>9, QuietStep DEF r

\* newarr.
LEMMA NewarrStep ==
  ASSUME MethodInv, NEW i \in Instructions, instr_newarr(i)
  PROVE  MethodInv'
  <1>. DEFINE r == Labelled
              s == make_new_array(r)
  <1>1. i.op = "newarr" /\ Parse(i, s) /\ Len(stack) >= Operands(i)
    BY DEF instr_newarr, Is
  <1>2. Good(r) /\ r.stack = stack /\ Len(stack) \in Nat /\ r.saves = saves
    BY Start
  <1>3. Operands(i) = 1 /\ Results(i) = 1
    BY <1>1, Effects
  <1>. HIDE DEF r
  <1>8. Becomes(r, s, Len(stack) - 1 + 1)
    BY <1>1, <1>2, <1>3, MethodCall DEF make_new_array, One
  <1>9. Len(stack) - 1 + 1 = Len(stack) - Operands(i) + Results(i)
    BY <1>2, <1>3
  <1>. HIDE DEF s
  <1>. QED
    BY <1>1, <1>8, <1>9, QuietStep DEF r

\* ldfld.
LEMMA LdfldStep ==
  ASSUME MethodInv, NEW i \in Instructions, instr_ldfld(i)
  PROVE  MethodInv'
  <1>. DEFINE r == Labelled
              s == stack_push(stack_pop(Checked(r, Last(stack), <<>>)),
                              Tree("load", i.arg, <<create_null_reference_check(Last(stack))>>))
  <1>1. i.op = "ldfld" /\ Parse(i, s) /\ Len(stack) >= Operands(i)
    BY DEF instr_ldfld, Is
  <1>2. Good(r) /\ r.stack = stack /\ Len(stack) \in Nat /\ r.saves = saves
    BY Start
  <1>3. Operands(i) = 1 /\ Results(i) = 1
    BY <1>1, Effects
  <1>4. Last(stack).ids \subseteq 1..r.saves
    BY <1>1, <1>2, <1>3, ElemFacts DEF GoodTree
  <1>. HIDE DEF r
  <1>. DEFINE u == Checked(r, Last(stack), <<>>)
              t == Tree("load", i.arg, <<create_null_reference_check(Last(stack))>>)
  <1>5. Becomes(r, u, Len(r.stack)) /\ u.saves = r.saves
    BY <1>2, CheckedFacts
  <1>6. GoodTree(t, r.saves)
    BY <1>4, NullCheck, KidsFacts, Plain DEF Statements
  <1>. HIDE DEF t, u
  <1>7. s = stack_push(Popped(u, 1), t)
    <2>1. Good(u) /\ 1 <= Len(u.stack)
      BY <1>1, <1>2, <1>3, <1>5 DEF Becomes
    <2>2. stack_pop(u) = Popped(u, 1)
      BY <2>1, PoppedOnce
    <2>. QED
      BY <2>2 DEF t, u
  <1>. HIDE DEF s
  <1>8. Becomes(r, s, Len(stack) - 1 + 1)
    BY <1>2, <1>3, <1>1, <1>5, <1>6, <1>7, NotedReplaced, PoppedOnce
  <1>9. Len(stack) - 1 + 1 = Len(stack) - Operands(i) + Results(i)
    BY <1>2, <1>3
  <1>. HIDE DEF s
  <1>. QED
    BY <1>1, <1>8, <1>9, QuietStep DEF r

\* stfld.
LEMMA StfldStep ==
  ASSUME MethodInv, NEW i \in Instructions, instr_stfld(i)
  PROVE  MethodInv'
  <1>. DEFINE r == Labelled
              s == make_field_assignment(r, i.arg)
  <1>1. i.op = "stfld" /\ Parse(i, s) /\ Len(stack) >= Operands(i)
    BY DEF instr_stfld, Is
  <1>2. Good(r) /\ r.stack = stack /\ Len(stack) \in Nat /\ r.saves = saves
    BY Start
  <1>3. Operands(i) = 2 /\ Results(i) = 0
    BY <1>1, Effects
  <1>. HIDE DEF r
  <1>8. Becomes(r, s, Len(stack) - 2)
    BY <1>1, <1>2, <1>3, FieldAssigned
  <1>9. Len(stack) - 2 = Len(stack) - Operands(i) + Results(i)
    BY <1>2, <1>3
  <1>. HIDE DEF s
  <1>. QED
    BY <1>1, <1>8, <1>9, QuietStep DEF r

\* ldsfld.
LEMMA LdsfldStep ==
  ASSUME MethodInv, NEW i \in Instructions, instr_ldsfld(i)
  PROVE  MethodInv'
  <1>. DEFINE r == Labelled
              s == stack_push(r, Tree("static", i.arg, <<>>))
  <1>1. i.op = "ldsfld" /\ Parse(i, s) /\ Len(stack) >= Operands(i)
    BY DEF instr_ldsfld, Is
  <1>2. Good(r) /\ r.stack = stack /\ Len(stack) \in Nat /\ r.saves = saves
    BY Start
  <1>3. Operands(i) = 0 /\ Results(i) = 1
    BY <1>1, Effects
  <1>. HIDE DEF r
  <1>8. Becomes(r, s, Len(stack) + 1)
    BY <1>2, Leaf, Pushed
  <1>9. Len(stack) + 1 = Len(stack) - Operands(i) + Results(i)
    BY <1>2, <1>3
  <1>. HIDE DEF s
  <1>. QED
    BY <1>1, <1>8, <1>9, QuietStep DEF r

\* stsfld.
LEMMA StsfldStep ==
  ASSUME MethodInv, NEW i \in Instructions, instr_stsfld(i)
  PROVE  MethodInv'
  <1>. DEFINE r == Labelled
              s == make_static_field_assignment(r, i.arg)
  <1>1. i.op = "stsfld" /\ Parse(i, s) /\ Len(stack) >= Operands(i)
    BY DEF instr_stsfld, Is
  <1>2. Good(r) /\ r.stack = stack /\ Len(stack) \in Nat /\ r.saves = saves
    BY Start
  <1>3. Operands(i) = 1 /\ Results(i) = 0
    BY <1>1, Effects
  <1>. HIDE DEF r
  <1>8. Becomes(r, s, Len(stack) - 1)
    BY <1>1, <1>2, <1>3, Assigned DEF make_static_field_assignment
  <1>9. Len(stack) - 1 = Len(stack) - Operands(i) + Results(i)
    BY <1>2, <1>3
  <1>. HIDE DEF s
  <1>. QED
    BY <1>1, <1>8, <1>9, QuietStep DEF r

\* ldelem.
LEMMA LdelemStep ==
  ASSUME MethodInv, NEW i \in Instructions, ldelem(i)
  PROVE  MethodInv'
  <1>. DEFINE r == Labelled
              s == stack_push(Popped(CheckedElem(r, stack_elem(Here, 2), stack_elem(Here, 1), <<>>), 2),
                              create_array_elem_access(stack_elem(Here, 2), stack_elem(Here, 1)))
  <1>1. i.op = "ldelem" /\ Parse(i, s) /\ Len(stack) >= Operands(i)
    BY DEF ldelem, Is
  <1>2. Good(r) /\ r.stack = stack /\ Len(stack) \in Nat /\ r.saves = saves
    BY Start
  <1>3. Operands(i) = 2 /\ Results(i) = 1
    BY <1>1, Effects
  <1>. HIDE DEF r
  <1>. DEFINE array == stack_elem(Here, 2)
              index == stack_elem(Here, 1)
              u == CheckedElem(r, array, index, <<>>)
              t == create_array_elem_access(array, index)
  <1>4. array.ids \subseteq 1..r.saves /\ index.ids \subseteq 1..r.saves
    <2>1. array = stack_elem(r, 2) /\ index = stack_elem(r, 1)
      BY <1>2 DEF stack_elem, Here
    <2>2. GoodTree(stack_elem(r, 2), r.saves) /\ GoodTree(stack_elem(r, 1), r.saves)
      BY <1>1, <1>2, <1>3, ElemFacts
    <2>. QED
      BY <2>1, <2>2 DEF GoodTree
  <1>5. Becomes(r, u, Len(r.stack)) /\ u.saves = r.saves
    BY <1>2, CheckedElemFacts
  <1>6. GoodTree(t, r.saves)
    BY <1>4, ElemTree
  <1>7. s = stack_push(Popped(u, 2), t)
    OBVIOUS
  <1>. HIDE DEF s, t, u
  <1>8. Becomes(r, s, Len(stack) - 2 + 1)
    BY <1>1, <1>2, <1>3, <1>5, <1>6, <1>7, NotedReplaced
  <1>9. Len(stack) - 2 + 1 = Len(stack) - Operands(i) + Results(i)
    BY <1>2, <1>3
  <1>. HIDE DEF s
  <1>. QED
    BY <1>1, <1>8, <1>9, QuietStep DEF r

\* stelem.
LEMMA StelemStep ==
  ASSUME MethodInv, NEW i \in Instructions, stelem(i)
  PROVE  MethodInv'
  <1>. DEFINE r == Labelled
              s == make_array_elem_assignment(r)
  <1>1. i.op = "stelem" /\ Parse(i, s) /\ Len(stack) >= Operands(i)
    BY DEF stelem, Is
  <1>2. Good(r) /\ r.stack = stack /\ Len(stack) \in Nat /\ r.saves = saves
    BY Start
  <1>3. Operands(i) = 3 /\ Results(i) = 0
    BY <1>1, Effects
  <1>. HIDE DEF r
  <1>8. Becomes(r, s, Len(stack) - 3)
    BY <1>1, <1>2, <1>3, ElemAssigned
  <1>9. Len(stack) - 3 = Len(stack) - Operands(i) + Results(i)
    BY <1>2, <1>3
  <1>. HIDE DEF s
  <1>. QED
    BY <1>1, <1>8, <1>9, QuietStep DEF r

\* ldlen.
LEMMA LdlenStep ==
  ASSUME MethodInv, NEW i \in Instructions, make_instr_ldlen(i)
  PROVE  MethodInv'
  <1>. DEFINE r == Labelled
              s == stack_push(stack_pop(Checked(r, Last(stack), <<>>)), get_array_length(Last(stack)))
  <1>1. i.op = "ldlen" /\ Parse(i, s) /\ Len(stack) >= Operands(i)
    BY DEF make_instr_ldlen, Is
  <1>2. Good(r) /\ r.stack = stack /\ Len(stack) \in Nat /\ r.saves = saves
    BY Start
  <1>3. Operands(i) = 1 /\ Results(i) = 1
    BY <1>1, Effects
  <1>4. Last(stack).ids \subseteq 1..r.saves
    BY <1>1, <1>2, <1>3, ElemFacts DEF GoodTree
  <1>. HIDE DEF r
  <1>. DEFINE u == Checked(r, Last(stack), <<>>)
              t == get_array_length(Last(stack))
  <1>5. Becomes(r, u, Len(r.stack)) /\ u.saves = r.saves
    BY <1>2, CheckedFacts
  <1>6. GoodTree(t, r.saves)
    BY <1>4, LengthTree
  <1>. HIDE DEF t, u
  <1>7. s = stack_push(Popped(u, 1), t)
    <2>1. Good(u) /\ 1 <= Len(u.stack)
      BY <1>1, <1>2, <1>3, <1>5 DEF Becomes
    <2>2. stack_pop(u) = Popped(u, 1)
      BY <2>1, PoppedOnce
    <2>. QED
      BY <2>2 DEF t, u
  <1>. HIDE DEF s
  <1>8. Becomes(r, s, Len(stack) - 1 + 1)
    BY <1>2, <1>3, <1>1, <1>5, <1>6, <1>7, NotedReplaced, PoppedOnce
  <1>9. Len(stack) - 1 + 1 = Len(stack) - Operands(i) + Results(i)
    BY <1>2, <1>3
  <1>. HIDE DEF s
  <1>. QED
    BY <1>1, <1>8, <1>9, QuietStep DEF r

\* brtrue.
LEMMA BrtrueStep ==
  ASSUME MethodInv, NEW i \in Instructions, brtrue(i)
  PROVE  MethodInv'
  <1>. DEFINE r == Labelled
              s == make_branch_on_true(r, i.arg)
  <1>1. i.op = "brtrue" /\ Parse(i, s) /\ Len(stack) >= Operands(i)
    BY DEF brtrue, Is
  <1>2. Good(r) /\ r.stack = stack /\ Len(stack) \in Nat /\ r.saves = saves
    BY Start
  <1>3. Operands(i) = 1 /\ Results(i) = 0
    BY <1>1, Effects
  <1>. HIDE DEF r
  <1>8. Jumped(r, s, i.arg, Len(stack) - Operands(i))
    BY <1>1, <1>2, <1>3, JumpOnOne
  <1>9. i.op \in Branches
    BY <1>1 DEF Branches
  <1>. HIDE DEF s
  <1>. QED
    BY <1>1, <1>8, <1>9, JumpStep DEF r

\* brfalse.
LEMMA BrfalseStep ==
  ASSUME MethodInv, NEW i \in Instructions, brfalse(i)
  PROVE  MethodInv'
  <1>. DEFINE r == Labelled
              s == make_branch_on_false(r, i.arg)
  <1>1. i.op = "brfalse" /\ Parse(i, s) /\ Len(stack) >= Operands(i)
    BY DEF brfalse, Is
  <1>2. Good(r) /\ r.stack = stack /\ Len(stack) \in Nat /\ r.saves = saves
    BY Start
  <1>3. Operands(i) = 1 /\ Results(i) = 0
    BY <1>1, Effects
  <1>. HIDE DEF r
  <1>8. Jumped(r, s, i.arg, Len(stack) - Operands(i))
    BY <1>1, <1>2, <1>3, JumpOnOne
  <1>9. i.op \in Branches
    BY <1>1 DEF Branches
  <1>. HIDE DEF s
  <1>. QED
    BY <1>1, <1>8, <1>9, JumpStep DEF r

\* beq.
LEMMA BeqStep ==
  ASSUME MethodInv, NEW i \in Instructions, beq(i)
  PROVE  MethodInv'
  <1>. DEFINE r == Labelled
              s == make_branch_comparison(r, i.arg)
  <1>1. i.op = "beq" /\ Parse(i, s) /\ Len(stack) >= Operands(i)
    BY DEF beq, Is
  <1>2. Good(r) /\ r.stack = stack /\ Len(stack) \in Nat /\ r.saves = saves
    BY Start
  <1>3. Operands(i) = 2 /\ Results(i) = 0
    BY <1>1, Effects
  <1>. HIDE DEF r
  <1>8. Jumped(r, s, i.arg, Len(stack) - Operands(i))
    BY <1>1, <1>2, <1>3, JumpOnTwo
  <1>9. i.op \in Branches
    BY <1>1 DEF Branches
  <1>. HIDE DEF s
  <1>. QED
    BY <1>1, <1>8, <1>9, JumpStep DEF r

\* br.
LEMMA BrStep ==
  ASSUME MethodInv, NEW i \in Instructions, br(i)
  PROVE  MethodInv'
  <1>. DEFINE r == Labelled
              s == make_branch_unconditional(r, i.arg)
  <1>1. i.op = "br" /\ Parse(i, s) /\ Len(stack) >= Operands(i)
    BY DEF br, Is
  <1>2. Good(r) /\ r.stack = stack /\ Len(stack) \in Nat /\ r.saves = saves
    BY Start
  <1>3. Operands(i) = 0 /\ Results(i) = 0
    BY <1>1, Effects
  <1>4. Len(stack) - Operands(i) = Len(stack)
    BY <1>2, <1>3
  <1>. HIDE DEF r
  <1>8. Jumped(r, s, i.arg, Len(stack) - Operands(i))
    BY <1>1, <1>2, <1>3, <1>4, JumpAlways
  <1>9. i.op \in Branches
    BY <1>1 DEF Branches
  <1>. HIDE DEF s
  <1>. QED
    BY <1>1, <1>8, <1>9, JumpStep DEF r

\* ret.
LEMMA RetStep ==
  ASSUME MethodInv, NEW i \in Instructions, ret(i)
  PROVE  MethodInv'
  <1>. DEFINE r == Labelled
              s == make_return_value(r)
              h == IF Len(r.stack) = 0 THEN 0 ELSE Len(r.stack) - 1
  <1>1. i.op = "ret" /\ Parse(i, s)
    BY DEF ret, Is
  <1>2. Good(r)
    BY Start
  <1>. HIDE DEF r
  <1>3. Becomes(r, s, h)
    BY <1>2, Returned
  <1>4. h = After(i, Len(r.stack))
    BY <1>1 DEF After
  <1>. HIDE DEF s, h
  <1>5. Adds(r, s, i)
    BY <1>3, <1>4, AddsQuietly
  <1>. QED
    BY <1>1, <1>5, InstructionStep DEF r

\* compile_function: the code has been verified.
LEMMA CompileStep ==
  ASSUME MethodInv, compile_function
  PROVE  MethodInv'
  <1>1. /\ compiled' = TRUE /\ stack' = <<>> /\ Verified
        /\ code' = code /\ heights' = heights /\ body' = body /\ saves' = saves /\ odd' = odd
    BY DEF compile_function
  <1>2. Verified' /\ LabelsMade' /\ JumpsMade'
    <2>1. Verified'
      BY <1>1 DEF Verified, Operands
    <2>2. LabelsMade'
      BY <1>1 DEF MethodInv, LabelsMade
    <2>3. JumpsMade'
      BY <1>1 DEF MethodInv, JumpsMade, Operands
    <2>. QED
      BY <2>1, <2>2, <2>3
  <1>3. Good(Here)'
    <2>1. Good(Here)
      BY DEF MethodInv
    <2>2. Here' = [Here EXCEPT !.stack = <<>>]
      BY <1>1 DEF Here
    <2>3. IsSeq(<<>>) /\ \A k \in 1..Len(<<>>) : GoodTree(<<>>[k], Here.saves)
      BY TupleFacts
    <2>4. Good(Here')
      BY <2>1, <2>2, <2>3, NewStack DEF Becomes
    <2>. QED
      BY <2>4 DEF Good
  <1>. QED
    BY <1>1, <1>2, <1>3 DEF MethodInv

\* MethodInv is an invariant of the translation.
THEOREM MethodInvariance == Spec => []MethodInv
  <1>1. Init => MethodInv
    <2>. SUFFICES ASSUME Init PROVE MethodInv
      OBVIOUS
    <2>1. /\ code = <<>> /\ heights = <<>> /\ stack = <<>> /\ body = <<>>
          /\ saves = 0 /\ odd = {} /\ compiled = FALSE
      BY DEF Init
    <2>2. Here = [stack |-> <<>>, body |-> <<>>, saves |-> 0, odd |-> {}]
      BY <2>1 DEF Here
    <2>3. Good(Here)
      BY <2>2, TupleFacts DEF Good
    <2>4. LabelsMade /\ JumpsMade
      BY <2>1 DEF LabelsMade, JumpsMade
    <2>5. /\ code \in Seq(Instructions) /\ heights \in Seq(Nat)
          /\ Len(code) = 0 /\ Len(heights) = 0 /\ 0 <= MaxCode
      BY <2>1, MaxCodeAssumption
    <2>6. compiled \in BOOLEAN /\ ~compiled /\ ~(code # <<>>)
      BY <2>1
    <2>. QED
      BY <2>3, <2>4, <2>5, <2>6 DEF MethodInv
  <1>2. MethodInv /\ [Next]_vars => MethodInv'
    <2>. SUFFICES ASSUME MethodInv, [Next]_vars PROVE MethodInv'
      OBVIOUS
    <2>1. ASSUME NEW i \in Instructions, ldloc(i) PROVE MethodInv'
      BY <2>1, LdlocStep
    <2>2. ASSUME NEW i \in Instructions, stloc(i) PROVE MethodInv'
      BY <2>2, StlocStep
    <2>3. ASSUME NEW i \in Instructions, ldc(i) PROVE MethodInv'
      BY <2>3, LdcStep
    <2>4. ASSUME NEW i \in Instructions, dup(i) PROVE MethodInv'
      BY <2>4, DupStep
    <2>5. ASSUME NEW i \in Instructions, pop(i) PROVE MethodInv'
      BY <2>5, PopStep
    <2>6. ASSUME NEW i \in Instructions, arithmetic(i) PROVE MethodInv'
      BY <2>6, ArithmeticStep
    <2>7. ASSUME NEW i \in Instructions, instr_call(i) PROVE MethodInv'
      BY <2>7, CallStep
    <2>8. ASSUME NEW i \in Instructions, instr_callvirt_static(i) PROVE MethodInv'
      BY <2>8, CallInstanceStep
    <2>9. ASSUME NEW i \in Instructions, instr_callvirt(i) PROVE MethodInv'
      BY <2>9, CallVirtualStep
    <2>10. ASSUME NEW i \in Instructions, instr_newobj(i) PROVE MethodInv'
      BY <2>10, NewobjStep
    <2>11. ASSUME NEW i \in Instructions, instr_newarr(i) PROVE MethodInv'
      BY <2>11, NewarrStep
    <2>12. ASSUME NEW i \in Instructions, instr_ldfld(i) PROVE MethodInv'
      BY <2>12, LdfldStep
    <2>13. ASSUME NEW i \in Instructions, instr_stfld(i) PROVE MethodInv'
      BY <2>13, StfldStep
    <2>14. ASSUME NEW i \in Instructions, instr_ldsfld(i) PROVE MethodInv'
      BY <2>14, LdsfldStep
    <2>15. ASSUME NEW i \in Instructions, instr_stsfld(i) PROVE MethodInv'
      BY <2>15, StsfldStep
    <2>16. ASSUME NEW i \in Instructions, ldelem(i) PROVE MethodInv'
      BY <2>16, LdelemStep
    <2>17. ASSUME NEW i \in Instructions, stelem(i) PROVE MethodInv'
      BY <2>17, StelemStep
    <2>18. ASSUME NEW i \in Instructions, make_instr_ldlen(i) PROVE MethodInv'
      BY <2>18, LdlenStep
    <2>19. ASSUME NEW i \in Instructions, brtrue(i) PROVE MethodInv'
      BY <2>19, BrtrueStep
    <2>20. ASSUME NEW i \in Instructions, brfalse(i) PROVE MethodInv'
      BY <2>20, BrfalseStep
    <2>21. ASSUME NEW i \in Instructions, beq(i) PROVE MethodInv'
      BY <2>21, BeqStep
    <2>22. ASSUME NEW i \in Instructions, br(i) PROVE MethodInv'
      BY <2>22, BrStep
    <2>23. ASSUME NEW i \in Instructions, ret(i) PROVE MethodInv'
      BY <2>23, RetStep
    <2>24. CASE compile_function
      BY <2>24, CompileStep
    <2>25. CASE UNCHANGED vars
      <3>1. Good(Here)' <=> Good(Here)
        BY <2>25 DEF vars, Good, Here
      <3>2. /\ HeightAfter(Len(code))' = HeightAfter(Len(code)) /\ Verified' = Verified
            /\ LabelsMade' = LabelsMade /\ JumpsMade' = JumpsMade
        BY <2>25 DEF vars, HeightAfter, Operands, Results, Verified, LabelsMade, JumpsMade
      <3>. QED
        BY <2>25, <3>1, <3>2 DEF vars, MethodInv
    <2>. QED
      BY <2>1, <2>2, <2>3, <2>4, <2>5, <2>6, <2>7, <2>8, <2>9, <2>10, <2>11, <2>12, <2>13, <2>14, <2>15, <2>16, <2>17, <2>18, <2>19, <2>20, <2>21, <2>22, <2>23, <2>24, <2>25 DEF Next, Instruction
  <1>. QED
    BY <1>1, <1>2, PTL DEF Spec

\* TypeOK in every method: the stack of trees is exactly as high as CIL's and
\* holds no statement, and its trees name SAVE_EXPRs that exist, so stack_pop
\* never meets an empty stack.
THEOREM TypeCorrect == Spec => []TypeOK
  <1>1. MethodInv => TypeOK
    <2>. SUFFICES ASSUME MethodInv PROVE TypeOK
      OBVIOUS
    <2>1. Good(Here) /\ Here.stack = stack /\ Here.saves = saves /\ Here.odd = odd
      BY DEF MethodInv, Here
    <2>2. /\ saves \in Nat /\ odd \subseteq Kinds /\ DOMAIN stack = 1..Len(stack)
          /\ \A k \in 1..Len(stack) : GoodTree(stack[k], saves)
      BY <2>1, SeqFacts DEF Good
    <2>. QED
      BY <2>2 DEF MethodInv, TypeOK, GoodTree, Kinds
  <1>. QED
    BY <1>1, MethodInvariance, PTL

\* BranchesHaveLabels in every method: where no value stays on the stack at a
\* branch, make_label has made every label that a branch names.
THEOREM LabelsPresent == Spec => []BranchesHaveLabels
  <1>1. MethodInv => BranchesHaveLabels
    <2>. SUFFICES ASSUME MethodInv, compiled, "branching" \notin odd, NEW k \in DOMAIN body,
                         body[k].op \in Jumps
                  PROVE  LabelAt(body[k].val) # {}
      BY DEF BranchesHaveLabels, Jumps
    <2>1. Good(Here) /\ Here.body = body
      BY DEF MethodInv, Here
    <2>2. DOMAIN body = 1..Len(body)
      BY <2>1, SeqFacts DEF Good
    <2>3. PICK i \in 1..Len(code) :
            code[i].op \in Branches /\ code[i].arg = body[k].val /\ heights[i] = Operands(code[i])
      BY <2>2 DEF MethodInv, JumpsMade
    <2>4. code[i] \in Instructions
      BY DEF MethodInv
    <2>5. code[i].arg \in Nat \ {0} /\ Operands(code[i]) \in Nat
      BY <2>3, <2>4, InstructionAssumption, Effects DEF Branches
    <2>6. code[i].arg <= Len(code) /\ heights[code[i].arg] = heights[i] - Operands(code[i])
      BY <2>3 DEF MethodInv, Verified
    <2>7. code[i].arg \in 1..Len(code) /\ heights[code[i].arg] = 0
      BY <2>3, <2>5, <2>6 DEF MethodInv
    <2>8. PICK j \in 1..Len(body) : body[j].op = "label" /\ body[j].val = code[i].arg
      BY <2>7 DEF MethodInv, LabelsMade
    <2>. QED
      BY <2>2, <2>3, <2>8 DEF LabelAt
  <1>. QED
    BY <1>1, MethodInvariance, PTL

=============================================================================
