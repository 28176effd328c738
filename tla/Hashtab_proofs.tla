-------------------------- MODULE Hashtab_proofs --------------------------
(***************************************************************************)
(* For every set of elements, every hash function and every table of       *)
(* sizes: a hash table of libiberty implements a set of elements.          *)
(*                                                                         *)
(* The heart of the invariant is Reachable: no empty entry lies on the     *)
(* way of a search to an element that is in the table.  That deleting      *)
(* leaves a mark, that an insertion takes the first mark only after the    *)
(* whole search, and that rebuilding inserts every element anew, are what  *)
(* keeps it.                                                               *)
(*                                                                         *)
(* The second half is about the counts: Counting says that they bound what *)
(* the arrays hold and leave a slot free.  Since the sizes are prime, a    *)
(* search looks at every slot, so that it meets the free one and ends.     *)
(***************************************************************************)
EXTENDS Hashtab, NaturalLemmas, TLAPS

-----------------------------------------------------------------------------
(* The inductive invariant *)

\* A search for an element that is in the table finds it.
Reachable ==
  \A x \in Elements, s \in 0..(htab_size - 1) :
    entries[s] = x =>
      \E i \in 0..(htab_size - 1) :
        /\ Slot(x, i, htab_size) = s
        /\ \A j \in 0..(i - 1) : entries[Slot(x, j, htab_size)] # HTAB_EMPTY_ENTRY

\* No element is in two slots of the array, nor of the array copied from.
Once ==
  \A s, t \in DOMAIN entries :
    entries[s] = entries[t] /\ entries[s] \in Elements => s = t
OnceOld ==
  \A s, t \in DOMAIN oentries :
    oentries[s] = oentries[t] /\ oentries[s] \in Elements => s = t

\* What is still to be moved is not yet in the new array.
Disjoint ==
  \A s \in DOMAIN entries, t \in DOMAIN oentries :
    t >= p /\ oentries[t] \in Elements => entries[s] # oentries[t]

\* The old array is empty unless the table is being rebuilt.
Rebuilding ==
  /\ caller = "none" => oentries = NoEntries
  /\ caller = "insert" => element \in Elements

\* The part of the type invariant that the argument needs.
Shape ==
  /\ prime \in DOMAIN Primes
  /\ entries \in [0..(htab_size - 1) -> Entries]
  /\ oentries \in [DOMAIN oentries -> Entries] /\ DOMAIN oentries \subseteq Nat
  /\ p \in Nat
  /\ caller \in {"none", "insert", "traverse"}

IInv == Shape /\ Reachable /\ Once /\ OnceOld /\ Disjoint /\ Rebuilding

-----------------------------------------------------------------------------
(* Lemmas *)

\* A slot is a slot of the table.
LEMMA SlotInTable ==
  ASSUME NEW x \in Elements, NEW i \in Nat, NEW k \in DOMAIN Primes
  PROVE  Slot(x, i, Primes[k]) \in 0..(Primes[k] - 1)
<1> DEFINE n == Primes[k]
<1>1. n \in Nat /\ n > 2
  BY TableAssumption
<1>2. htab_mod(x, n) \in Nat
  BY <1>1, TableAssumption DEF htab_mod
<1>3. htab_mod_m2(x, n) \in Nat
  <2>1. n - 2 \in Nat /\ n - 2 > 0
    BY <1>1
  <2>2. Hash[x] \in Nat
    BY TableAssumption
  <2>3. Hash[x] % (n - 2) \in Nat
    BY <2>1, <2>2
  <2> QED
    BY <2>3 DEF htab_mod_m2
<1>4. i * htab_mod_m2(x, n) \in Nat
  BY <1>3
<1> HIDE DEF n
<1>5. Slot(x, i, n) \in 0..(n - 1)
  <2> DEFINE m == htab_mod(x, n) + i * htab_mod_m2(x, n)
  <2>1. m \in Nat
    BY <1>2, <1>4
  <2> HIDE DEF m
  <2>2. m % n \in 0..(n - 1)
    BY <2>1, <1>1
  <2> QED
    BY <2>2 DEF Slot, m
<1> QED
  BY <1>5 DEF n

\* Where the search for X ends tells whether X is in the table.
LEMMA SearchTells ==
  ASSUME IInv, NEW x \in Elements, NEW i, EndsAt(x, i)
  PROVE  /\ i \in 0..(htab_size - 1)
         /\ Slot(x, i, htab_size) \in DOMAIN entries
         /\ x \in Live(entries) <=> entries[Slot(x, i, htab_size)] = x
         /\ \A j \in 0..(i - 1) : entries[Slot(x, j, htab_size)] # HTAB_EMPTY_ENTRY
<1>1. htab_size \in Nat
  BY TableAssumption DEF IInv, Shape, htab_size
<1>2. i \in 0..(htab_size - 1)
  BY DEF EndsAt
<1>3. Slot(x, i, htab_size) \in DOMAIN entries
  BY <1>1, <1>2, SlotInTable DEF htab_size, IInv, Shape
<1>4. ASSUME x \in Live(entries) PROVE entries[Slot(x, i, htab_size)] = x
  <2>1. PICK s \in 0..(htab_size - 1) : entries[s] = x
    BY <1>4 DEF Live, IInv, Shape
  <2>2. PICK k \in 0..(htab_size - 1) :
          /\ Slot(x, k, htab_size) = s
          /\ \A j \in 0..(k - 1) : entries[Slot(x, j, htab_size)] # HTAB_EMPTY_ENTRY
    BY <2>1 DEF IInv, Reachable
  <2>3. Ends(x, k)
    BY <2>1, <2>2 DEF Ends
  <2>4. ~(k < i)
    BY <2>3, <1>1, <1>2 DEF EndsAt
  <2>5. CASE k = i
    BY <2>1, <2>2, <2>5
  <2>6. CASE i < k
    <3>1. entries[Slot(x, i, htab_size)] # HTAB_EMPTY_ENTRY
      BY <2>2, <2>6, <1>1, <1>2
    <3> QED
      BY <3>1 DEF EndsAt, Ends
  <2> QED
    BY <2>4, <2>5, <2>6, <1>1, <1>2
<1>5. ASSUME entries[Slot(x, i, htab_size)] = x PROVE x \in Live(entries)
  BY <1>3, <1>5 DEF Live
<1>6. \A j \in 0..(i - 1) : entries[Slot(x, j, htab_size)] # HTAB_EMPTY_ENTRY
  BY DEF EndsAt, Ends
<1> QED
  BY <1>2, <1>3, <1>4, <1>5, <1>6

\* Storing X where no empty entry precedes it on its search.
LEMMA Stored ==
  ASSUME IInv, NEW x \in Elements, NEW i \in 0..(htab_size - 1),
         entries[Slot(x, i, htab_size)] \notin Elements,
         \A j \in 0..(i - 1) : entries[Slot(x, j, htab_size)] # HTAB_EMPTY_ENTRY,
         x \notin Live(entries),
         entries' = [entries EXCEPT ![Slot(x, i, htab_size)] = x],
         prime' = prime
  PROVE  /\ entries' \in [0..(htab_size' - 1) -> Entries]
         /\ Reachable' /\ Once'
         /\ Live(entries') = Live(entries) \cup {x}
<1> DEFINE n == htab_size
           s0 == Slot(x, i, n)
<1>1. n \in Nat /\ n' = n
  BY TableAssumption DEF IInv, Shape, htab_size
<1>2. s0 \in 0..(n - 1)
  BY <1>1, SlotInTable DEF htab_size, IInv, Shape
<1>3. entries \in [0..(n - 1) -> Entries]
  BY DEF IInv, Shape
<1>4. entries' = [entries EXCEPT ![s0] = x]
  OBVIOUS
<1>5. entries[s0] \notin Elements
  OBVIOUS
<1>6. \A s \in 0..(n - 1) : entries[s] # x
  BY <1>3 DEF Live
<1>7. x # HTAB_EMPTY_ENTRY
  BY TableAssumption
<1>8. entries' \in [0..(n - 1) -> Entries]
  BY <1>3, <1>4 DEF Entries
<1>9. \A s \in 0..(n - 1) : entries'[s] = HTAB_EMPTY_ENTRY => entries[s] = HTAB_EMPTY_ENTRY
  BY <1>2, <1>3, <1>4, <1>7
<1>10. \A y \in Elements, j \in 0..(n - 1) : Slot(y, j, n) \in 0..(n - 1)
  BY <1>1, SlotInTable DEF htab_size, IInv, Shape
<1> HIDE DEF n
<1>11. ASSUME NEW y \in Elements, NEW s \in 0..(n - 1), entries'[s] = y
       PROVE  \E k \in 0..(n - 1) :
                /\ Slot(y, k, n) = s
                /\ \A j \in 0..(k - 1) : entries'[Slot(y, j, n)] # HTAB_EMPTY_ENTRY
  <2>1. CASE s = s0
    <3>1. y = x
      BY <2>1, <1>2, <1>3, <1>4, <1>11
    <3>2. \A j \in 0..(i - 1) : j \in 0..(n - 1) /\ entries[Slot(x, j, n)] # HTAB_EMPTY_ENTRY
      BY <1>1 DEF n
    <3>3. \A j \in 0..(i - 1) : entries'[Slot(x, j, n)] # HTAB_EMPTY_ENTRY
      BY <3>2, <1>9, <1>10
    <3>4. i \in 0..(n - 1)
      BY DEF n
    <3> QED
      BY <2>1, <3>1, <3>3, <3>4
  <2>2. CASE s # s0
    <3>1. entries[s] = y
      BY <2>2, <1>2, <1>3, <1>4, <1>11
    <3>2. PICK k \in 0..(n - 1) :
            /\ Slot(y, k, n) = s
            /\ \A j \in 0..(k - 1) : entries[Slot(y, j, n)] # HTAB_EMPTY_ENTRY
      BY <3>1 DEF IInv, Reachable, n
    <3>3. \A j \in 0..(k - 1) : j \in 0..(n - 1)
      BY <1>1
    <3>4. \A j \in 0..(k - 1) : entries'[Slot(y, j, n)] # HTAB_EMPTY_ENTRY
      BY <3>2, <3>3, <1>9, <1>10
    <3> QED
      BY <3>2, <3>4
  <2> QED
    BY <2>1, <2>2
<1>12. Reachable'
  BY <1>1, <1>11 DEF Reachable, n
<1>13. Once'
  <2> SUFFICES ASSUME NEW s \in 0..(n - 1), NEW t \in 0..(n - 1),
                      entries'[s] = entries'[t], entries'[s] \in Elements
               PROVE  s = t
    BY <1>8 DEF Once
  <2>1. CASE s = s0 \/ t = s0
    BY <2>1, <1>2, <1>3, <1>4, <1>6
  <2>2. CASE s # s0 /\ t # s0
    BY <2>2, <1>2, <1>3, <1>4 DEF IInv, Once
  <2> QED
    BY <2>1, <2>2
<1>14. Live(entries') = Live(entries) \cup {x}
  <2>1. \A y \in Elements :
          (\E s \in 0..(n - 1) : entries'[s] = y)
            <=> ((\E s \in 0..(n - 1) : entries[s] = y) \/ y = x)
    BY <1>2, <1>3, <1>4, <1>5
  <2>2. \A y : y \in Live(entries') <=> y \in Elements /\ \E s \in 0..(n - 1) : entries'[s] = y
    BY <1>8 DEF Live
  <2>3. \A y : y \in Live(entries) <=> y \in Elements /\ \E s \in 0..(n - 1) : entries[s] = y
    BY <1>3 DEF Live
  <2> QED
    BY <2>1, <2>2, <2>3
<1> QED
  BY <1>1, <1>8, <1>12, <1>13, <1>14 DEF n

\* When no array is copied from, the set is what the table holds.
LEMMA SetWhenIdle ==
  ASSUME \A q \in DOMAIN oentries : q >= p => oentries[q] \notin Elements
  PROVE  Set = Live(entries)
BY DEF Set

\* The states in which nothing is being rebuilt.
LEMMA IdleFacts ==
  ASSUME IInv, caller = "none"
  PROVE  Set = Live(entries) /\ oentries = NoEntries
<1>1. oentries = NoEntries
  BY DEF IInv, Rebuilding
<1>2. DOMAIN oentries = {}
  BY <1>1 DEF NoEntries
<1> QED
  BY <1>1, <1>2, SetWhenIdle

\* The same in the next state.
LEMMA BackToIdle ==
  ASSUME oentries' = NoEntries
  PROVE  /\ Set' = Live(entries')
         /\ OnceOld' /\ Disjoint'
         /\ oentries' \in [DOMAIN oentries' -> Entries] /\ DOMAIN oentries' \subseteq Nat
<1>1. DOMAIN NoEntries = {}
  BY DEF NoEntries
<1>2. NoEntries \in [{} -> Entries]
  BY DEF NoEntries
<1> QED
  BY <1>1, <1>2 DEF Set, OnceOld, Disjoint

-----------------------------------------------------------------------------
(* The initial states and the steps *)

\* An empty array satisfies every part of the invariant that is about it.
LEMMA BlankArray ==
  ASSUME NEW k \in DOMAIN Primes
  PROVE  /\ Blank(Primes[k]) \in [0..(Primes[k] - 1) -> Entries]
         /\ \A s \in 0..(Primes[k] - 1) : Blank(Primes[k])[s] \notin Elements
         /\ Live(Blank(Primes[k])) = {}
<1>1. Blank(Primes[k]) \in [0..(Primes[k] - 1) -> Entries]
  BY DEF Blank, Entries
<1>2. \A s \in 0..(Primes[k] - 1) : Blank(Primes[k])[s] \notin Elements
  BY TableAssumption DEF Blank
<1> QED
  BY <1>1, <1>2 DEF Live

\* The invariant holds of a new table, which is the empty set.
LEMMA InitIInv == Init => IInv /\ Abstract!Init
<1> SUFFICES ASSUME Init PROVE IInv /\ Abstract!Init
  OBVIOUS
<1>1. prime \in DOMAIN Primes /\ entries = Blank(Primes[prime])
  BY TableAssumption DEF Init, htab_size
<1>2. entries \in [0..(htab_size - 1) -> Entries]
      /\ \A s \in 0..(htab_size - 1) : entries[s] \notin Elements
  BY <1>1, BlankArray DEF htab_size
<1>3. oentries = NoEntries /\ DOMAIN oentries = {} /\ oentries \in [{} -> Entries]
  BY DEF Init, NoEntries
<1>4. Reachable /\ Once /\ OnceOld /\ Disjoint
  BY <1>2, <1>3 DEF Reachable, Once, OnceOld, Disjoint
<1>5. IInv
  BY <1>1, <1>2, <1>3, <1>4 DEF Init, IInv, Shape, Rebuilding
<1>6. Set = {}
  BY <1>1, <1>3, BlankArray, SetWhenIdle
<1> QED
  BY <1>5, <1>6 DEF Init, Abstract!Init, Reply, Abstract!Reply

\* A step that changes neither array nor their sizes keeps the invariant.
LEMMA SameArrays ==
  ASSUME IInv, UNCHANGED <<entries, prime, oentries, p, caller, element>>
  PROVE  IInv' /\ Set' = Set
<1>1. htab_size' = htab_size
  BY DEF htab_size
<1> QED
  BY <1>1 DEF IInv, Shape, Reachable, Once, OnceOld, Disjoint, Rebuilding, Set, Live

\* A step that does not hang is one of the set, or none.
SetStep == status' = "hung" \/ [Abstract!Next]_<<Set, reply, status>>

LEMMA HangStep ==
  ASSUME IInv, Hang
  PROVE  IInv' /\ SetStep
BY SameArrays DEF Hang, expandVars, SetStep

\* A call of the set.
LEMMA SetCall ==
  ASSUME NEW S, NEW op, NEW x, NEW v, status = "ok", Set' = S,
         reply' = Reply(op, x, v), UNCHANGED status
  PROVE  Abstract!Call(S, op, x, v)
BY DEF Abstract!Call, Reply, Abstract!Reply

LEMMA FindStep ==
  ASSUME IInv, NEW x \in Elements, htab_find(x)
  PROVE  IInv' /\ SetStep
<1>1. CASE Hang
  BY <1>1, HangStep
<1>2. ASSUME NEW i \in 0..(htab_size - 1), EndsAt(x, i),
             reply' = Reply("find", {x}, entries[Slot(x, i, htab_size)] = x),
             UNCHANGED <<entries, prime, countVars, expandVars, empties, status>>
      PROVE  IInv' /\ Abstract!Find(x)
  <2>1. IInv' /\ Set' = Set
    BY <1>2, SameArrays DEF expandVars
  <2>2. caller = "none" /\ status = "ok"
    BY DEF htab_find, Idle
  <2>3. (x \in Set) <=> (entries[Slot(x, i, htab_size)] = x)
    BY <1>2, <2>2, SearchTells, IdleFacts
  <2>4. (x \in Set) = (entries[Slot(x, i, htab_size)] = x)
    BY <2>3
  <2> QED
    BY <1>2, <2>1, <2>2, <2>4, SetCall DEF Abstract!Find
<1> QED
  BY <1>1, <1>2 DEF htab_find, Abstract!Next, SetStep

\* The store of an insertion.
LEMMA FindSlotStores ==
  ASSUME IInv, NEW x \in Elements, find_slot(x), prime' = prime
  PROVE  /\ entries' \in [0..(htab_size' - 1) -> Entries]
         /\ Reachable' /\ Once'
         /\ Live(entries') = Live(entries) \cup {x}
<1>1. PICK i \in 0..(htab_size - 1) :
        /\ EndsAt(x, i)
        /\ \/ /\ entries[Slot(x, i, htab_size)] = x
              /\ UNCHANGED <<entries, countVars>>
           \/ /\ entries[Slot(x, i, htab_size)] = HTAB_EMPTY_ENTRY
              /\ \/ \E d \in 0..(i - 1) :
                      /\ DeletedBefore(x, i, d)
                      /\ entries' = [entries EXCEPT ![Slot(x, d, htab_size)] = x]
                 \/ entries' = [entries EXCEPT ![Slot(x, i, htab_size)] = x]
  BY DEF find_slot
<1>2. /\ x \in Live(entries) <=> entries[Slot(x, i, htab_size)] = x
      /\ \A j \in 0..(i - 1) : entries[Slot(x, j, htab_size)] # HTAB_EMPTY_ENTRY
  BY <1>1, SearchTells
<1>3. htab_size \in Nat /\ htab_size' = htab_size
  BY TableAssumption DEF IInv, Shape, htab_size
<1>4. CASE entries[Slot(x, i, htab_size)] = x /\ UNCHANGED <<entries, countVars>>
  BY <1>2, <1>3, <1>4 DEF IInv, Shape, Reachable, Once, Live
<1>5. ASSUME entries[Slot(x, i, htab_size)] = HTAB_EMPTY_ENTRY,
             NEW d \in 0..(i - 1), DeletedBefore(x, i, d),
             entries' = [entries EXCEPT ![Slot(x, d, htab_size)] = x]
      PROVE  /\ entries' \in [0..(htab_size' - 1) -> Entries]
             /\ Reachable' /\ Once'
             /\ Live(entries') = Live(entries) \cup {x}
  <2>1. x \notin Live(entries)
    BY <1>2, <1>5, TableAssumption
  <2>2. entries[Slot(x, d, htab_size)] \notin Elements
    BY <1>5, TableAssumption DEF DeletedBefore
  <2>3. d \in 0..(htab_size - 1)
        /\ \A j \in 0..(d - 1) : entries[Slot(x, j, htab_size)] # HTAB_EMPTY_ENTRY
    BY <1>2, <1>3
  <2> QED
    BY <1>5, <2>1, <2>2, <2>3, Stored
<1>6. CASE /\ entries[Slot(x, i, htab_size)] = HTAB_EMPTY_ENTRY
           /\ entries' = [entries EXCEPT ![Slot(x, i, htab_size)] = x]
  <2>1. x \notin Live(entries) /\ entries[Slot(x, i, htab_size)] \notin Elements
    BY <1>2, <1>6, TableAssumption
  <2> QED
    BY <1>2, <1>6, <2>1, Stored
<1> QED
  BY <1>1, <1>4, <1>5, <1>6

\* Insertion into a table with room, at once or after the table was rebuilt.
LEMMA InsertStep ==
  ASSUME IInv, NEW x \in Elements, Insert(x), Set = Live(entries), status = "ok"
  PROVE  IInv' /\ SetStep
<1>1. CASE Hang
  BY <1>1, HangStep
<1>2. CASE /\ find_slot(x)
           /\ reply' = Reply("insert", {x}, TRUE)
           /\ oentries' = NoEntries /\ p' = 0 /\ caller' = "none" /\ element' = Nobody
           /\ UNCHANGED <<prime, empties, status>>
  <2>1. /\ entries' \in [0..(htab_size' - 1) -> Entries]
        /\ Reachable' /\ Once'
        /\ Live(entries') = Live(entries) \cup {x}
    BY <1>2, FindSlotStores
  <2>2. /\ Set' = Live(entries')
        /\ OnceOld' /\ Disjoint'
        /\ oentries' \in [DOMAIN oentries' -> Entries] /\ DOMAIN oentries' \subseteq Nat
    BY <1>2, BackToIdle
  <2>3. Shape' /\ Rebuilding'
    BY <1>2, <2>1, <2>2 DEF IInv, Shape, Rebuilding
  <2>4. Abstract!Insert(x)
    BY <1>2, <2>1, <2>2, SetCall DEF Abstract!Insert
  <2> QED
    BY <2>1, <2>2, <2>3, <2>4 DEF IInv, Abstract!Next, SetStep
<1> QED
  BY <1>1, <1>2 DEF Insert

\* The beginning of htab_expand: everything is still to be moved.
LEMMA ExpandStep ==
  ASSUME IInv, caller = "none", NEW c \in {"insert", "traverse"}, NEW x,
         c = "insert" => x \in Elements, htab_expand(c, x)
  PROVE  IInv' /\ UNCHANGED <<Set, reply, status>>
<1>1. PICK i \in DOMAIN Primes :
        /\ prime' = i /\ entries' = Blank(Primes[i])
        /\ oentries' = entries /\ p' = 0 /\ caller' = c /\ element' = x
        /\ UNCHANGED <<reply, status>>
  BY DEF htab_expand
<1>2. htab_size' = Primes[i]
  BY <1>1 DEF htab_size
<1>3. entries' \in [0..(htab_size' - 1) -> Entries]
      /\ \A s \in 0..(htab_size' - 1) : entries'[s] \notin Elements
  BY <1>1, <1>2, BlankArray
<1>4. DOMAIN entries = 0..(htab_size - 1) /\ htab_size \in Nat
  BY TableAssumption DEF IInv, Shape, htab_size
<1>5. Shape'
  BY <1>1, <1>3, <1>4 DEF IInv, Shape
<1>6. Reachable' /\ Once' /\ Disjoint'
  BY <1>1, <1>3 DEF Reachable, Once, Disjoint
<1>7. OnceOld' /\ Rebuilding'
  BY <1>1 DEF IInv, Once, OnceOld, Rebuilding
<1>8. Set' = Set
  <2>1. Live(entries') = {}
    BY <1>1, BlankArray
  <2>2. Set' = Live(entries)
    BY <1>1, <1>4, <2>1 DEF Set, Live
  <2> QED
    BY <2>2, IdleFacts
<1> QED
  BY <1>1, <1>5, <1>6, <1>7, <1>8 DEF IInv

\* Moving one element from the old array to the new one.
LEMMA MoveStep ==
  ASSUME IInv, move_entry
  PROVE  IInv' /\ SetStep
<1>1. CASE Hang
  BY <1>1, HangStep
<1>2. ASSUME NEW q \in DOMAIN oentries, NextElement(q),
             NEW s \in DOMAIN entries, find_empty_slot_for_expand(oentries[q], s),
             entries' = [entries EXCEPT ![s] = oentries[q]],
             p' = q + 1,
             UNCHANGED <<prime, countVars, oentries, caller, element,
                         empties, reply, status>>
      PROVE  IInv' /\ UNCHANGED <<Set, reply, status>>
  <2> DEFINE x == oentries[q]
  <2>1. x \in Elements /\ q >= p /\ q \in Nat /\ p \in Nat
        /\ \A j \in p..(q - 1) : oentries[j] \notin Elements
    BY <1>2 DEF NextElement, IInv, Shape
  <2>2. x \notin Live(entries)
    BY <2>1 DEF IInv, Disjoint, Live
  <2>3. PICK i \in 0..(htab_size - 1) :
          EmptyAt(x, i) /\ s = Slot(x, i, htab_size)
    BY <1>2 DEF find_empty_slot_for_expand
  <2>4. /\ entries[s] \notin Elements
        /\ \A j \in 0..(i - 1) : entries[Slot(x, j, htab_size)] # HTAB_EMPTY_ENTRY
    BY <2>3, TableAssumption DEF EmptyAt
  <2> HIDE DEF x
  <2>5. entries' = [entries EXCEPT ![s] = x]
    BY <1>2 DEF x
  <2>6. /\ entries' \in [0..(htab_size' - 1) -> Entries]
        /\ Reachable' /\ Once'
        /\ Live(entries') = Live(entries) \cup {x}
    BY <1>2, <2>1, <2>2, <2>3, <2>4, <2>5, Stored
  <2>7. Shape' /\ Rebuilding' /\ OnceOld'
    BY <1>2, <2>1, <2>6 DEF IInv, Shape, Rebuilding, OnceOld
  <2>8. entries \in [0..(htab_size - 1) -> Entries] /\ s \in 0..(htab_size - 1)
    BY DEF IInv, Shape
  <2>9. Disjoint'
    <3> SUFFICES ASSUME NEW u \in DOMAIN entries', NEW t \in DOMAIN oentries,
                        t >= q + 1, oentries[t] \in Elements
                 PROVE  entries'[u] # oentries[t]
      BY <1>2 DEF Disjoint
    <3>1. t \in Nat /\ t # q /\ t >= p
      BY <2>1 DEF IInv, Shape
    <3>2. oentries[t] # x
      BY <3>1 DEF IInv, OnceOld, x
    <3>3. u \in DOMAIN entries /\ entries[u] # oentries[t]
      BY <3>1, <2>5 DEF IInv, Disjoint
    <3> QED
      BY <3>2, <3>3, <2>5, <2>8
  <2>10. Set' = Set
    <3>1. \A y : y \in Set <=>
            \/ y \in Live(entries)
            \/ y \in Elements /\ \E t \in DOMAIN oentries : t >= p /\ oentries[t] = y
      BY DEF Set
    <3>2. \A y : y \in Set' <=>
            \/ y \in Live(entries')
            \/ y \in Elements /\ \E t \in DOMAIN oentries : t >= q + 1 /\ oentries[t] = y
      BY <1>2 DEF Set
    <3>3. ASSUME NEW y \in Elements, NEW t \in DOMAIN oentries, t >= p, oentries[t] = y
          PROVE  y = x \/ t >= q + 1
      <4>1. t \in Nat
        BY DEF IInv, Shape
      <4>2. CASE t < q
        BY <4>1, <4>2, <2>1, <3>3
      <4>3. CASE t = q
        BY <4>3, <3>3 DEF x
      <4> QED
        BY <4>1, <4>2, <4>3, <2>1
    <3>4. x \in Elements /\ oentries[q] = x
      BY <2>1 DEF x
    <3>5. \A t \in DOMAIN oentries : t >= q + 1 => t >= p
      BY <2>1 DEF IInv, Shape
    <3> QED
      BY <3>1, <3>2, <3>3, <3>4, <3>5, <2>1, <2>6
  <2> QED
    BY <1>2, <2>6, <2>7, <2>9, <2>10 DEF IInv
<1> QED
  BY <1>1, <1>2 DEF move_entry, SetStep

LEMMA FindSlotStep ==
  ASSUME IInv, NEW x \in Elements, htab_find_slot(x)
  PROVE  IInv' /\ SetStep
<1>1. caller = "none" /\ Set = Live(entries) /\ status = "ok"
  BY IdleFacts DEF htab_find_slot, Idle
<1>2. CASE Insert(x)
  BY <1>1, <1>2, InsertStep
<1>3. CASE htab_expand("insert", x)
  BY <1>1, <1>3, ExpandStep DEF SetStep
<1>4. CASE /\ reply' = Reply("insert", {x}, FALSE)
           /\ UNCHANGED <<entries, prime, countVars, expandVars, empties, status>>
  <2>1. IInv' /\ Set' = Set
    BY <1>4, SameArrays DEF expandVars
  <2>2. Abstract!Insert(x)
    BY <1>1, <1>4, <2>1, SetCall DEF Abstract!Insert
  <2> QED
    BY <2>1, <2>2 DEF Abstract!Next, SetStep
<1> QED
  BY <1>2, <1>3, <1>4 DEF htab_find_slot

LEMMA InsertAfterExpandStep ==
  ASSUME IInv, insert_after_expand
  PROVE  IInv' /\ SetStep
<1>1. Set = Live(entries) /\ status = "ok"
  BY SetWhenIdle DEF insert_after_expand, Moved
<1>2. element \in Elements
  BY DEF insert_after_expand, IInv, Rebuilding
<1> QED
  BY <1>1, <1>2, InsertStep DEF insert_after_expand

LEMMA ClearStep ==
  ASSUME IInv, Idle, NEW x \in Elements, NEW i \in 0..(htab_size - 1),
         EndsAt(x, i), entries[Slot(x, i, htab_size)] = x, Clear(x, i)
  PROVE  IInv' /\ Abstract!Remove(x)
<1> DEFINE n == htab_size
           s0 == Slot(x, i, n)
<1>1. n \in Nat /\ n' = n
  BY TableAssumption DEF IInv, Shape, htab_size, Clear
<1>2. entries \in [0..(n - 1) -> Entries] /\ s0 \in 0..(n - 1)
  BY SearchTells DEF IInv, Shape
<1>3. entries' = [entries EXCEPT ![s0] = HTAB_DELETED_ENTRY]
      /\ prime' = prime /\ UNCHANGED <<oentries, p, caller, element>>
      /\ reply' = Reply("remove", {x}, TRUE)
      /\ caller = "none" /\ status = "ok" /\ status' = status
  BY DEF Clear, expandVars, Idle
<1>4. HTAB_DELETED_ENTRY \notin Elements /\ HTAB_DELETED_ENTRY # HTAB_EMPTY_ENTRY
  BY TableAssumption
<1>5. entries[s0] = x
  OBVIOUS
<1>6. \A y \in Elements, j \in 0..(n - 1) : Slot(y, j, n) \in 0..(n - 1)
  BY <1>1, SlotInTable DEF htab_size, IInv, Shape
<1> HIDE DEF n
<1>7. entries' \in [0..(n - 1) -> Entries]
  BY <1>2, <1>3 DEF Entries
<1>8. \A s \in 0..(n - 1) : entries'[s] = HTAB_EMPTY_ENTRY => entries[s] = HTAB_EMPTY_ENTRY
  BY <1>2, <1>3, <1>4
<1>9. \A s \in 0..(n - 1) : entries'[s] \in Elements => s # s0 /\ entries[s] = entries'[s]
  BY <1>2, <1>3, <1>4
<1>10. Reachable'
  <2> SUFFICES ASSUME NEW y \in Elements, NEW s \in 0..(n - 1), entries'[s] = y
               PROVE  \E k \in 0..(n - 1) :
                        /\ Slot(y, k, n) = s
                        /\ \A j \in 0..(k - 1) : entries'[Slot(y, j, n)] # HTAB_EMPTY_ENTRY
    BY <1>1 DEF Reachable, n
  <2>1. entries[s] = y
    BY <1>9
  <2>2. PICK k \in 0..(n - 1) :
          /\ Slot(y, k, n) = s
          /\ \A j \in 0..(k - 1) : entries[Slot(y, j, n)] # HTAB_EMPTY_ENTRY
    BY <2>1 DEF IInv, Reachable, n
  <2>3. \A j \in 0..(k - 1) : j \in 0..(n - 1)
    BY <1>1
  <2>4. \A j \in 0..(k - 1) : entries'[Slot(y, j, n)] # HTAB_EMPTY_ENTRY
    BY <2>2, <2>3, <1>6, <1>8
  <2> QED
    BY <2>2, <2>4
<1>11. Once'
  BY <1>2, <1>7, <1>9 DEF Once, IInv
<1>12. Shape' /\ OnceOld' /\ Rebuilding'
  BY <1>1, <1>3, <1>7 DEF IInv, Shape, OnceOld, Rebuilding, n
<1>13. oentries = NoEntries /\ Set = Live(entries)
  BY <1>3, IdleFacts
<1>14. Disjoint' /\ Set' = Live(entries')
  BY <1>3, <1>13, BackToIdle
<1>15. Live(entries') = Live(entries) \ {x}
  <2>1. \A y : y \in Live(entries') <=> y \in Elements /\ \E s \in 0..(n - 1) : entries'[s] = y
    BY <1>7 DEF Live
  <2>2. \A y : y \in Live(entries) <=> y \in Elements /\ \E s \in 0..(n - 1) : entries[s] = y
    BY <1>2 DEF Live
  <2>3. \A s \in 0..(n - 1) : entries[s] = x => s = s0
    BY <1>2, <1>5 DEF IInv, Once
  <2>4. \A y \in Elements :
          (\E s \in 0..(n - 1) : entries'[s] = y)
            <=> ((\E s \in 0..(n - 1) : entries[s] = y) /\ y # x)
    BY <1>2, <1>3, <1>4, <1>5, <2>3
  <2> QED
    BY <2>1, <2>2, <2>4
<1>16. x \in Set
  BY <1>2, <1>5, <1>13 DEF Live
<1>17. Abstract!Remove(x)
  BY <1>3, <1>13, <1>14, <1>15, <1>16, SetCall DEF Abstract!Remove
<1> QED
  BY <1>10, <1>11, <1>12, <1>14, <1>17 DEF IInv

LEMMA RemoveStep ==
  ASSUME IInv, NEW x \in Elements, htab_remove_elt(x)
  PROVE  IInv' /\ SetStep
<1>1. Idle /\ caller = "none" /\ status = "ok"
  BY DEF htab_remove_elt, Idle
<1>2. CASE Hang
  BY <1>2, HangStep
<1>3. ASSUME NEW i \in 0..(htab_size - 1), EndsAt(x, i),
             entries[Slot(x, i, htab_size)] = x, Clear(x, i)
      PROVE  IInv' /\ Abstract!Next
  BY <1>1, <1>3, ClearStep DEF Abstract!Next
<1>4. ASSUME NEW i \in 0..(htab_size - 1), EndsAt(x, i),
             entries[Slot(x, i, htab_size)] # x, status' = "crashed",
             UNCHANGED <<entries, prime, countVars, expandVars, empties, reply>>
      PROVE  IInv' /\ Abstract!Next
  <2>1. IInv' /\ Set' = Set
    BY <1>4, SameArrays DEF expandVars
  <2>2. x \notin Set
    BY <1>1, <1>4, SearchTells, IdleFacts
  <2>3. Abstract!RemoveAbsent(x)
    BY <1>1, <1>4, <2>1, <2>2 DEF Abstract!RemoveAbsent
  <2> QED
    BY <2>1, <2>3 DEF Abstract!Next
<1> QED
  BY <1>2, <1>3, <1>4 DEF htab_remove_elt, SetStep

LEMMA EmptyStep ==
  ASSUME IInv, htab_empty
  PROVE  IInv' /\ SetStep
<1>1. caller = "none" /\ oentries' = NoEntries /\ htab_size' = htab_size
      /\ prime' = prime /\ prime \in DOMAIN Primes
      /\ entries' = Blank(Primes[prime]) /\ UNCHANGED <<p, caller, element>>
      /\ reply' = Reply("empty", {}, TRUE) /\ status = "ok" /\ status' = status
  BY IdleFacts DEF htab_empty, Idle, expandVars, htab_size, IInv, Shape
<1>2. entries' \in [0..(htab_size' - 1) -> Entries] /\ Live(entries') = {}
      /\ \A s \in 0..(htab_size' - 1) : entries'[s] \notin Elements
  BY <1>1, BlankArray DEF htab_size
<1>3. /\ Set' = Live(entries') /\ OnceOld' /\ Disjoint'
      /\ oentries' \in [DOMAIN oentries' -> Entries] /\ DOMAIN oentries' \subseteq Nat
  BY <1>1, BackToIdle
<1>4. Reachable' /\ Once'
  BY <1>2 DEF Reachable, Once
<1>5. Shape' /\ Rebuilding'
  BY <1>1, <1>2, <1>3 DEF IInv, Shape, Rebuilding
<1>6. Abstract!Empty
  BY <1>1, <1>2, <1>3, SetCall DEF Abstract!Empty
<1> QED
  BY <1>3, <1>4, <1>5, <1>6 DEF IInv, Abstract!Next, SetStep

LEMMA TraverseNoresizeStep ==
  ASSUME IInv, Set = Live(entries), status = "ok", htab_traverse_noresize
  PROVE  IInv' /\ SetStep
<1>1. oentries' = NoEntries /\ p' = 0 /\ caller' = "none" /\ entries' = entries
      /\ prime' = prime /\ htab_size' = htab_size
      /\ reply' = Reply("traverse", Live(entries), TRUE) /\ status' = status
  BY DEF htab_traverse_noresize, htab_size
<1>2. /\ Set' = Live(entries') /\ OnceOld' /\ Disjoint'
      /\ oentries' \in [DOMAIN oentries' -> Entries] /\ DOMAIN oentries' \subseteq Nat
  BY <1>1, BackToIdle
<1>3. Reachable' /\ Once'
  BY <1>1 DEF IInv, Reachable, Once
<1>4. Shape' /\ Rebuilding'
  BY <1>1, <1>2 DEF IInv, Shape, Rebuilding
<1>5. Abstract!Traverse
  BY <1>1, <1>2, SetCall DEF Abstract!Traverse
<1> QED
  BY <1>2, <1>3, <1>4, <1>5 DEF IInv, Abstract!Next, SetStep

LEMMA TraverseStep ==
  ASSUME IInv, htab_traverse \/ traverse_after_expand
  PROVE  IInv' /\ SetStep
<1>1. CASE htab_traverse
  <2>1. caller = "none" /\ Set = Live(entries) /\ status = "ok"
    BY <1>1, IdleFacts DEF htab_traverse, Idle
  <2>2. CASE htab_expand("traverse", Nobody)
    BY <2>1, <2>2, ExpandStep DEF SetStep
  <2>3. CASE htab_traverse_noresize
    BY <2>1, <2>3, TraverseNoresizeStep
  <2> QED
    BY <1>1, <2>2, <2>3 DEF htab_traverse
<1>2. CASE traverse_after_expand
  <2>1. Set = Live(entries) /\ status = "ok"
    BY <1>2, SetWhenIdle DEF traverse_after_expand, Moved
  <2> QED
    BY <1>2, <2>1, TraverseNoresizeStep DEF traverse_after_expand
<1> QED
  BY <1>1, <1>2

\* Every step keeps the invariant and is a step of the set, or none, or hangs.
LEMMA NextStep ==
  ASSUME IInv, [Next]_vars
  PROVE  IInv' /\ SetStep
<1>1. ASSUME NEW x \in Elements, htab_find(x) \/ htab_find_slot(x) \/ htab_remove_elt(x)
      PROVE  IInv' /\ SetStep
  BY <1>1, FindStep, FindSlotStep, RemoveStep
<1>2. CASE move_entry
  BY <1>2, MoveStep
<1>3. CASE insert_after_expand
  BY <1>3, InsertAfterExpandStep
<1>4. CASE htab_empty
  BY <1>4, EmptyStep
<1>5. CASE htab_traverse \/ traverse_after_expand
  BY <1>5, TraverseStep
<1>6. CASE UNCHANGED vars
  BY <1>6, SameArrays DEF vars, SetStep
<1> QED
  BY <1>1, <1>2, <1>3, <1>4, <1>5, <1>6 DEF Next

-----------------------------------------------------------------------------
(* Theorems *)

\* The invariant holds in every reachable state: no empty entry lies on the way
\* to an element, and no element is in the table twice.
THEOREM Invariance == Spec => []IInv
<1>1. Init => IInv
  BY InitIInv
<1>2. IInv /\ [Next]_vars => IInv'
  BY NextStep
<1> QED
  BY <1>1, <1>2, PTL DEF Spec

-----------------------------------------------------------------------------
(* The counts *)

LiveSlots(t) == {s \in DOMAIN t : t[s] \in Elements}
DeletedSlots == {s \in DOMAIN entries : entries[s] = HTAB_DELETED_ENTRY}
\* The entries of the old array that htab_expand has still to move.
ToMove == {q \in DOMAIN oentries : q >= p /\ oentries[q] \in Elements}

\* The counts bound what the arrays hold, and are exact if htab_empty was never
\* called; a slot of the table is always free, half of them while it is rebuilt.
Counting ==
  /\ n_elements \in Nat /\ n_deleted \in Nat
  /\ IsFiniteSet(DOMAIN oentries)
  /\ n_deleted >= Cardinality(DeletedSlots)
  /\ n_elements - n_deleted >= Cardinality(LiveSlots(entries)) + Cardinality(ToMove)
  /\ empties = 0 =>
       /\ n_deleted = Cardinality(DeletedSlots)
       /\ n_elements - n_deleted = Cardinality(LiveSlots(entries)) + Cardinality(ToMove)
  /\ n_elements < htab_size
  /\ caller # "none" => n_deleted = 0 /\ n_elements * 2 <= htab_size

\* What the sizes in prime_tab are.
LEMMA SizeFacts ==
  ASSUME NEW k \in DOMAIN Primes
  PROVE  /\ Primes[k] \in Nat /\ Primes[k] > 3
         /\ \A d \in 2..(Primes[k] - 1) : Primes[k] % d # 0
BY TableAssumption

\* The first SIZE probes of a search look at different slots: the step of the
\* second hash is not zero, and SIZE is prime.
LEMMA SlotInjective ==
  ASSUME NEW x \in Elements, NEW k \in DOMAIN Primes,
         NEW i \in 0..(Primes[k] - 1), NEW j \in 0..(Primes[k] - 1), i < j
  PROVE  Slot(x, i, Primes[k]) # Slot(x, j, Primes[k])
<1> DEFINE n == Primes[k]
           h == htab_mod(x, n)
           m == htab_mod_m2(x, n)
<1>1. n \in Nat /\ n > 3 /\ \A d \in 2..(n - 1) : n % d # 0
  BY SizeFacts
<1>2. Hash[x] \in Nat
  BY TableAssumption
<1>3. h \in Nat
  BY <1>1, <1>2 DEF htab_mod
<1>4. m \in 1..(n - 1)
  <2> DEFINE e == n - 2
  <2>1. e \in Nat /\ e > 0 /\ n = e + 2
    BY <1>1
  <2> HIDE DEF e
  <2>2. Hash[x] % e \in 0..(e - 1)
    BY <1>2, <2>1
  <2>3. m = 1 + (Hash[x] % e)
    BY DEF htab_mod_m2, e
  <2> HIDE DEF m, n
  <2> QED
    BY <2>1, <2>2, <2>3
<1>5. j - i \in 1..(n - 1)
  BY <1>1
<1> DEFINE a == h + i * m
           b == h + j * m
<1>6. Slot(x, i, n) = a % n /\ Slot(x, j, n) = b % n
  BY DEF Slot
<1> HIDE DEF n, h, m
<1>7. a \in Int /\ b \in Int /\ b - a = (j - i) * m
  BY <1>3, <1>4, <1>5
<1>8. ((j - i) * m) % n # 0
  <2> DEFINE e == j - i
  <2> HIDE DEF e
  <2>1. e \in 1..(n - 1)
    BY <1>5 DEF e
  <2>2. n > 1
    BY <1>1
  <2>3. (e * m) % n # 0
    BY <1>1, <1>4, <2>1, <2>2, PrimeDividesNoProduct
  <2> QED
    BY <2>3 DEF e
<1> HIDE DEF a, b
<1>9. a % n # b % n
  <2>1. n > 0 /\ (b - a) % n # 0
    BY <1>1, <1>7, <1>8
  <2> QED
    BY <1>1, <1>7, <2>1, SameRemainder
<1> QED
  BY <1>6, <1>9 DEF n

\* They look at every slot.
LEMMA SlotOnto ==
  ASSUME NEW x \in Elements, NEW k \in DOMAIN Primes, NEW s \in 0..(Primes[k] - 1)
  PROVE  \E i \in 0..(Primes[k] - 1) : Slot(x, i, Primes[k]) = s
<1> DEFINE n == Primes[k]
           D == 0..(n - 1)
           f == [i \in D |-> Slot(x, i, n)]
<1>1. n \in Nat
  BY SizeFacts
<1>2. \A i \in D : Slot(x, i, n) \in D
  BY SlotInTable
<1>3. ASSUME NEW i \in D, NEW j \in D, i # j
      PROVE  Slot(x, i, n) # Slot(x, j, n)
  <2>1. i < j \/ j < i
    BY <1>1, <1>3
  <2> QED
    BY <2>1, SlotInjective
<1>4. IsFiniteSet(D)
  <2>1. 0 \in Int /\ n - 1 \in Int
    BY <1>1
  <2> QED
    BY <2>1, FS_Interval
<1> HIDE DEF n, D
<1>5. f \in Injection(D, D)
  BY <1>2, <1>3 DEF Injection, IsInjective
<1> HIDE DEF f
<1>6. f \in Surjection(D, D)
  BY <1>4, <1>5, FS_Injection
<1>7. \E i \in D : f[i] = s
  BY <1>6 DEF Surjection, D, n
<1> QED
  BY <1>7 DEF f, D, n

\* The sets that are counted are finite.
LEMMA CountsFinite ==
  ASSUME Shape, Counting
  PROVE  /\ htab_size \in Nat /\ htab_size > 3
         /\ IsFiniteSet(DOMAIN entries) /\ Cardinality(DOMAIN entries) = htab_size
         /\ IsFiniteSet(LiveSlots(entries)) /\ Cardinality(LiveSlots(entries)) \in Nat
         /\ IsFiniteSet(DeletedSlots) /\ Cardinality(DeletedSlots) \in Nat
         /\ IsFiniteSet(ToMove) /\ Cardinality(ToMove) \in Nat
<1>1. htab_size \in Nat /\ htab_size > 3
  BY SizeFacts DEF Shape, htab_size
<1>2. DOMAIN entries = 0..(htab_size - 1)
  BY DEF Shape
<1>3. IsFiniteSet(DOMAIN entries) /\ Cardinality(DOMAIN entries) = htab_size
  <2> DEFINE n == htab_size
  <2>1. 0 \in Int /\ n - 1 \in Int /\ ~(0 > n - 1) /\ (n - 1) - 0 + 1 = n
    BY <1>1
  <2> HIDE DEF n
  <2>2. IsFiniteSet(0..(n - 1)) /\ Cardinality(0..(n - 1)) = n
    BY <2>1, FS_Interval
  <2> QED
    BY <2>2, <1>2 DEF n
<1>4. /\ LiveSlots(entries) \in SUBSET DOMAIN entries
      /\ DeletedSlots \in SUBSET DOMAIN entries
      /\ ToMove \in SUBSET DOMAIN oentries
  BY DEF LiveSlots, DeletedSlots, ToMove
<1>5. IsFiniteSet(DOMAIN oentries)
  BY DEF Counting
<1>6. IsFiniteSet(LiveSlots(entries)) /\ IsFiniteSet(DeletedSlots) /\ IsFiniteSet(ToMove)
  BY <1>3, <1>4, <1>5, FS_Subset
<1> QED
  BY <1>1, <1>3, <1>6, FS_CardinalityType

\* The slots in use are those of elements and those of deleted entries.
LEMMA UsedSlots ==
  ASSUME Shape, Counting
  PROVE  Used = Cardinality(LiveSlots(entries)) + Cardinality(DeletedSlots)
<1>1. {s \in DOMAIN entries : entries[s] # HTAB_EMPTY_ENTRY} = LiveSlots(entries) \cup DeletedSlots
  BY TableAssumption DEF LiveSlots, DeletedSlots, Shape, Entries
<1>2. LiveSlots(entries) \cap DeletedSlots = {}
  BY TableAssumption DEF LiveSlots, DeletedSlots
<1>3. Cardinality({}) = 0
  BY FS_EmptySet
<1>4. Cardinality(LiveSlots(entries) \cup DeletedSlots) =
        Cardinality(LiveSlots(entries)) + Cardinality(DeletedSlots) - Cardinality({})
  BY <1>2, CountsFinite, FS_Union
<1>5. Cardinality(LiveSlots(entries) \cup DeletedSlots) =
        Cardinality(LiveSlots(entries)) + Cardinality(DeletedSlots)
  BY <1>3, <1>4, CountsFinite
<1> QED
  BY <1>1, <1>5 DEF Used

\* A slot of the table is empty.
LEMMA RoomLeft ==
  ASSUME Shape, Counting
  PROVE  \E s \in 0..(htab_size - 1) : entries[s] = HTAB_EMPTY_ENTRY
<1> SUFFICES ASSUME \A s \in DOMAIN entries : entries[s] # HTAB_EMPTY_ENTRY PROVE FALSE
  BY DEF Shape
<1>1. {s \in DOMAIN entries : entries[s] # HTAB_EMPTY_ENTRY} = DOMAIN entries
  OBVIOUS
<1>2. Used = htab_size
  BY <1>1, CountsFinite DEF Used
<1>3. Used <= n_elements
  BY UsedSlots, CountsFinite DEF Counting
<1> QED
  BY <1>2, <1>3, CountsFinite DEF Counting

\* The loops of htab_find_with_hash, htab_find_slot_with_hash and
\* find_empty_slot_for_expand end.
LEMMA SearchEnds ==
  ASSUME Shape, Counting, NEW x \in Elements
  PROVE  /\ ~Endless(x)
         /\ \E s \in DOMAIN entries : find_empty_slot_for_expand(x, s)
<1> DEFINE T == {i \in 0..(htab_size - 1) : entries[Slot(x, i, htab_size)] = HTAB_EMPTY_ENTRY}
<1>1. prime \in DOMAIN Primes /\ htab_size = Primes[prime] /\ htab_size \in Nat
      /\ DOMAIN entries = 0..(htab_size - 1)
  BY SizeFacts DEF Shape, htab_size
<1>2. PICK s \in 0..(htab_size - 1) : entries[s] = HTAB_EMPTY_ENTRY
  BY RoomLeft
<1>3. PICK i \in 0..(htab_size - 1) : Slot(x, i, htab_size) = s
  BY <1>1, <1>2, SlotOnto
<1>4. T # {} /\ T \subseteq Nat
  BY <1>1, <1>2, <1>3
<1>5. ~Endless(x)
  BY <1>2, <1>3 DEF Endless, Ends
<1>6. PICK f \in T : \A j \in T : f <= j
  BY <1>4, Least
<1>7. EmptyAt(x, f)
  BY <1>1, <1>6 DEF EmptyAt
<1>8. Slot(x, f, htab_size) \in DOMAIN entries
  BY <1>1, <1>6, SlotInTable
<1> QED
  BY <1>5, <1>7, <1>8 DEF find_empty_slot_for_expand

-----------------------------------------------------------------------------
(* How the steps change what is counted *)

\* The types that Shape and Counting leave out.  No state is hung.
Rest ==
  /\ element \in Elements \cup {Nobody}
  /\ empties \in 0..MaxEmpties
  /\ status \in {"ok", "crashed"}

CInv == IInv /\ Counting /\ Rest

\* An element stored over an entry that is not one.
LEMMA StoreCounts ==
  ASSUME Shape, Counting, NEW s \in DOMAIN entries, entries[s] \notin Elements,
         NEW x \in Elements, entries' = [entries EXCEPT ![s] = x]
  PROVE  /\ Cardinality(LiveSlots(entries')) = Cardinality(LiveSlots(entries)) + 1
         /\ entries[s] = HTAB_DELETED_ENTRY =>
              Cardinality(DeletedSlots') = Cardinality(DeletedSlots) - 1
         /\ entries[s] # HTAB_DELETED_ENTRY => DeletedSlots' = DeletedSlots
<1>1. LiveSlots(entries') = LiveSlots(entries) \cup {s} /\ s \notin LiveSlots(entries)
  BY DEF LiveSlots
<1>2. DeletedSlots' = DeletedSlots \ {s}
  BY TableAssumption DEF DeletedSlots
<1>3. s \in DeletedSlots <=> entries[s] = HTAB_DELETED_ENTRY
  BY DEF DeletedSlots
<1>4. Cardinality(LiveSlots(entries')) = Cardinality(LiveSlots(entries)) + 1
  BY <1>1, CountsFinite, FS_AddElement
<1>5. s \in DeletedSlots => Cardinality(DeletedSlots \ {s}) = Cardinality(DeletedSlots) - 1
  BY CountsFinite, FS_RemoveElement
<1> QED
  BY <1>2, <1>3, <1>4, <1>5

\* An element replaced by a deleted entry.
LEMMA ClearCounts ==
  ASSUME Shape, Counting, NEW s \in DOMAIN entries, entries[s] \in Elements,
         entries' = [entries EXCEPT ![s] = HTAB_DELETED_ENTRY]
  PROVE  /\ Cardinality(LiveSlots(entries')) = Cardinality(LiveSlots(entries)) - 1
         /\ Cardinality(DeletedSlots') = Cardinality(DeletedSlots) + 1
<1>1. LiveSlots(entries') = LiveSlots(entries) \ {s} /\ s \in LiveSlots(entries)
  BY TableAssumption DEF LiveSlots
<1>2. DeletedSlots' = DeletedSlots \cup {s} /\ s \notin DeletedSlots
  BY TableAssumption DEF DeletedSlots
<1>3. Cardinality(LiveSlots(entries) \ {s}) = Cardinality(LiveSlots(entries)) - 1
  BY <1>1, CountsFinite, FS_RemoveElement
<1>4. Cardinality(DeletedSlots \cup {s}) = Cardinality(DeletedSlots) + 1
  BY <1>2, CountsFinite, FS_AddElement
<1> QED
  BY <1>1, <1>2, <1>3, <1>4

\* An empty array.
LEMMA BlankCounts ==
  ASSUME NEW k \in DOMAIN Primes
  PROVE  /\ LiveSlots(Blank(Primes[k])) = {}
         /\ {s \in DOMAIN Blank(Primes[k]) : Blank(Primes[k])[s] = HTAB_DELETED_ENTRY} = {}
         /\ Cardinality({}) = 0
<1>1. \A s \in DOMAIN Blank(Primes[k]) : Blank(Primes[k])[s] = HTAB_EMPTY_ENTRY
  BY DEF Blank
<1>2. Cardinality({}) = 0
  BY FS_EmptySet
<1> QED
  BY <1>1, <1>2, TableAssumption DEF LiveSlots

\* No old array: nothing is to be moved.
LEMMA NothingToMove ==
  ASSUME oentries = NoEntries
  PROVE  ToMove = {} /\ Cardinality(ToMove) = 0 /\ IsFiniteSet(DOMAIN oentries)
<1>1. DOMAIN NoEntries = {}
  BY DEF NoEntries
<1>2. IsFiniteSet({}) /\ Cardinality({}) = 0
  BY FS_EmptySet
<1> QED
  BY <1>1, <1>2 DEF ToMove

LEMMA NothingToMoveNext ==
  ASSUME oentries' = NoEntries
  PROVE  Cardinality(ToMove') = 0 /\ IsFiniteSet(DOMAIN oentries')
<1>1. DOMAIN NoEntries = {}
  BY DEF NoEntries
<1>2. IsFiniteSet({}) /\ Cardinality({}) = 0
  BY FS_EmptySet
<1> QED
  BY <1>1, <1>2 DEF ToMove

LEMMA InitCounting == Init => Counting /\ Rest
<1> SUFFICES ASSUME Init PROVE Counting /\ Rest
  OBVIOUS
<1>1. prime \in DOMAIN Primes /\ entries = Blank(Primes[prime]) /\ htab_size = Primes[prime]
  BY TableAssumption DEF Init, htab_size
<1>2. Cardinality(LiveSlots(entries)) = 0 /\ Cardinality(DeletedSlots) = 0
  BY <1>1, BlankCounts DEF DeletedSlots
<1>3. Cardinality(ToMove) = 0 /\ IsFiniteSet(DOMAIN oentries)
  BY NothingToMove DEF Init
<1>4. htab_size \in Nat /\ htab_size > 3
  BY <1>1, SizeFacts
<1>5. n_elements = 0 /\ n_deleted = 0 /\ caller = "none"
  BY DEF Init
<1>6. Counting
  BY <1>2, <1>3, <1>4, <1>5 DEF Counting
<1>7. Rest
  BY TableAssumption DEF Init, Rest
<1> QED
  BY <1>6, <1>7

\* A step that changes neither the arrays nor the counts.
LEMMA SameCounts ==
  ASSUME Counting, UNCHANGED <<entries, prime, n_elements, n_deleted, oentries, p, caller, empties>>
  PROVE  Counting'
<1>1. /\ htab_size' = htab_size /\ DeletedSlots' = DeletedSlots
      /\ LiveSlots(entries') = LiveSlots(entries) /\ ToMove' = ToMove
  BY DEF htab_size, DeletedSlots, LiveSlots, ToMove
<1> QED
  BY <1>1 DEF Counting

\* The store of an insertion: there was room for it.
LEMMA FindSlotCounts ==
  ASSUME IInv, Counting, NEW x \in Elements, find_slot(x), ToMove = {},
         caller = "none" => ~TooFull,
         oentries' = NoEntries, caller' = "none", UNCHANGED <<prime, empties>>
  PROVE  Counting'
<1> DEFINE L == Cardinality(LiveSlots(entries))
           D == Cardinality(DeletedSlots)
           L1 == Cardinality(LiveSlots(entries'))
           D1 == Cardinality(DeletedSlots')
<1>1. Shape
  BY DEF IInv
<1>2. /\ htab_size \in Nat /\ htab_size > 3 /\ htab_size' = htab_size
      /\ L \in Nat /\ D \in Nat
  BY <1>1, CountsFinite DEF htab_size
<1>3. Cardinality(ToMove) = 0 /\ Cardinality(ToMove') = 0 /\ IsFiniteSet(DOMAIN oentries')
  BY FS_EmptySet, NothingToMoveNext
<1>4. /\ n_elements \in Nat /\ n_deleted \in Nat
      /\ n_deleted >= D /\ n_elements - n_deleted >= L
      /\ empties = 0 => n_deleted = D /\ n_elements - n_deleted = L
      /\ n_elements < htab_size
  BY <1>2, <1>3 DEF Counting
<1>5. n_elements + 1 < htab_size
  <2>1. CASE caller = "none"
    BY <2>1, <1>2, <1>4 DEF TooFull
  <2>2. CASE caller # "none"
    BY <2>2, <1>2, <1>4 DEF Counting
  <2> QED
    BY <2>1, <2>2
<1> SUFFICES /\ n_elements' \in Nat /\ n_deleted' \in Nat
             /\ n_deleted' >= D1 /\ n_elements' - n_deleted' >= L1
             /\ empties = 0 => n_deleted' = D1 /\ n_elements' - n_deleted' = L1
             /\ n_elements' < htab_size
             /\ L1 \in Nat
  BY <1>2, <1>3 DEF Counting
<1>6. PICK i \in 0..(htab_size - 1) :
        /\ EndsAt(x, i)
        /\ \/ /\ entries[Slot(x, i, htab_size)] = x
              /\ UNCHANGED <<entries, countVars>>
           \/ /\ entries[Slot(x, i, htab_size)] = HTAB_EMPTY_ENTRY
              /\ \/ \E d \in 0..(i - 1) :
                      /\ DeletedBefore(x, i, d)
                      /\ entries' = [entries EXCEPT ![Slot(x, d, htab_size)] = x]
                      /\ n_deleted' = n_deleted - 1
                      /\ UNCHANGED n_elements
                 \/ /\ entries' = [entries EXCEPT ![Slot(x, i, htab_size)] = x]
                    /\ n_elements' = n_elements + 1
                    /\ UNCHANGED n_deleted
  BY DEF find_slot
<1>7. CASE UNCHANGED <<entries, countVars>>
  <2>1. L1 = L /\ D1 = D
    BY <1>7 DEF DeletedSlots
  <2> QED
    BY <1>2, <1>4, <1>7, <2>1 DEF countVars
<1>8. ASSUME NEW d \in 0..(i - 1), DeletedBefore(x, i, d),
             entries' = [entries EXCEPT ![Slot(x, d, htab_size)] = x],
             n_deleted' = n_deleted - 1, UNCHANGED n_elements
      PROVE  /\ n_elements' \in Nat /\ n_deleted' \in Nat
             /\ n_deleted' >= D1 /\ n_elements' - n_deleted' >= L1
             /\ empties = 0 => n_deleted' = D1 /\ n_elements' - n_deleted' = L1
             /\ n_elements' < htab_size
             /\ L1 \in Nat
  <2> DEFINE s == Slot(x, d, htab_size)
  <2>1. s \in DOMAIN entries
    BY <1>1, <1>2, SlotInTable DEF Shape, htab_size
  <2>2. entries[s] = HTAB_DELETED_ENTRY /\ entries[s] \notin Elements
    BY <1>8, TableAssumption DEF DeletedBefore
  <2>3. s \in DeletedSlots
    BY <2>1, <2>2 DEF DeletedSlots
  <2>4. D # 0
    BY <2>3, <1>1, CountsFinite, FS_EmptySet
  <2> HIDE DEF s
  <2>5. entries' = [entries EXCEPT ![s] = x]
    BY <1>8 DEF s
  <2>6. L1 = L + 1 /\ D1 = D - 1
    BY <1>1, <2>1, <2>2, <2>5, StoreCounts
  <2> HIDE DEF L, D, L1, D1
  <2> QED
    BY <1>2, <1>4, <1>8, <2>4, <2>6
<1>9. CASE /\ entries[Slot(x, i, htab_size)] = HTAB_EMPTY_ENTRY
           /\ entries' = [entries EXCEPT ![Slot(x, i, htab_size)] = x]
           /\ n_elements' = n_elements + 1
           /\ UNCHANGED n_deleted
  <2> DEFINE s == Slot(x, i, htab_size)
  <2>1. s \in DOMAIN entries
    BY <1>1, <1>2, SlotInTable DEF Shape, htab_size
  <2>2. entries[s] # HTAB_DELETED_ENTRY /\ entries[s] \notin Elements
    BY <1>9, TableAssumption
  <2> HIDE DEF s
  <2>3. entries' = [entries EXCEPT ![s] = x]
    BY <1>9 DEF s
  <2>4. L1 = L + 1 /\ D1 = D
    BY <1>1, <2>1, <2>2, <2>3, StoreCounts
  <2> HIDE DEF L, D, L1, D1
  <2> QED
    BY <1>2, <1>4, <1>5, <1>9, <2>4
<1> QED
  BY <1>6, <1>7, <1>8, <1>9

\* The beginning of htab_expand: the new table is at most half full.
LEMMA ExpandCounts ==
  ASSUME IInv, Counting, caller = "none", NEW c \in {"insert", "traverse"}, NEW x,
         htab_expand(c, x)
  PROVE  Counting'
<1> DEFINE L == Cardinality(LiveSlots(entries))
<1>1. PICK i \in DOMAIN Primes :
        /\ NewSize(i) /\ prime' = i /\ entries' = Blank(Primes[i])
        /\ n_elements' = n_elements - n_deleted /\ n_deleted' = 0
        /\ oentries' = entries /\ p' = 0 /\ caller' = c
        /\ UNCHANGED empties
  BY DEF htab_expand
<1>2. Shape /\ oentries = NoEntries
  BY DEF IInv, Rebuilding
<1>3. htab_size \in Nat /\ IsFiniteSet(DOMAIN entries) /\ L \in Nat
  BY <1>2, CountsFinite
<1>4. htab_size' = Primes[i] /\ Primes[i] \in Nat /\ Primes[i] > 3
  BY <1>1, SizeFacts DEF htab_size
<1>5. Cardinality(ToMove) = 0
  BY <1>2, NothingToMove
<1>6. /\ htab_elements \in Nat /\ htab_elements >= L
      /\ empties = 0 => htab_elements = L
  BY <1>3, <1>5 DEF Counting, htab_elements
<1>7. htab_elements * 2 <= Primes[i]
  <2>1. CASE higher_prime_index(htab_elements * 2, i)
    BY <2>1 DEF higher_prime_index
  <2>2. CASE ~(htab_elements * 2 > htab_size) /\ i = prime
    BY <2>2, <1>3, <1>6 DEF htab_size
  <2> QED
    BY <1>1, <2>1, <2>2 DEF NewSize
<1>8. LiveSlots(entries') = {} /\ DeletedSlots' = {} /\ Cardinality({}) = 0
  BY <1>1, BlankCounts DEF DeletedSlots
<1>9. ToMove' = LiveSlots(entries)
  <2>1. \A s \in DOMAIN entries : s >= 0
    BY <1>2, <1>3 DEF Shape
  <2> QED
    BY <1>1, <2>1 DEF ToMove, LiveSlots
<1>10. n_elements' = htab_elements /\ n_deleted' = 0 /\ IsFiniteSet(DOMAIN oentries')
  BY <1>1, <1>3 DEF htab_elements
<1>11. Cardinality(LiveSlots(entries')) = 0 /\ Cardinality(DeletedSlots') = 0
       /\ Cardinality(ToMove') = L
  BY <1>8, <1>9
<1> HIDE DEF L
<1>12. htab_elements < Primes[i]
  BY <1>4, <1>6, <1>7
<1>13. htab_elements - 0 >= 0 + L /\ (empties = 0 => htab_elements - 0 = 0 + L)
  BY <1>3, <1>6
<1> QED
  BY <1>1, <1>4, <1>6, <1>7, <1>10, <1>11, <1>12, <1>13 DEF Counting

\* One element is moved: the sum does not change.
LEMMA MoveCounts ==
  ASSUME IInv, Counting, NEW q \in DOMAIN oentries, NextElement(q),
         NEW s \in DOMAIN entries, find_empty_slot_for_expand(oentries[q], s),
         entries' = [entries EXCEPT ![s] = oentries[q]],
         p' = q + 1,
         UNCHANGED <<prime, countVars, oentries, caller, empties>>
  PROVE  Counting'
<1> DEFINE x == oentries[q]
           L == Cardinality(LiveSlots(entries))
           M == Cardinality(ToMove)
<1>1. Shape
  BY DEF IInv
<1>2. x \in Elements /\ q >= p /\ q \in Nat /\ p \in Nat
      /\ \A j \in p..(q - 1) : oentries[j] \notin Elements
  BY <1>1 DEF NextElement, Shape
<1>3. entries[s] # HTAB_DELETED_ENTRY /\ entries[s] \notin Elements
  BY TableAssumption DEF find_empty_slot_for_expand, EmptyAt
<1>4. Cardinality(LiveSlots(entries')) = L + 1 /\ DeletedSlots' = DeletedSlots
  <2> HIDE DEF x
  <2>1. entries' = [entries EXCEPT ![s] = x]
    BY DEF x
  <2> QED
    BY <1>1, <1>2, <1>3, <2>1, StoreCounts
<1>5. ToMove' = ToMove \ {q} /\ q \in ToMove
  <2>1. ASSUME NEW t \in DOMAIN oentries, t >= p, oentries[t] \in Elements, t # q
        PROVE  t >= q + 1
    <3>1. t \in Nat
      BY <1>1 DEF Shape
    <3> QED
      BY <1>2, <2>1, <3>1
  <2>2. \A t \in DOMAIN oentries : t >= q + 1 => t >= p /\ t # q
    BY <1>1, <1>2 DEF Shape
  <2> QED
    BY <1>2, <2>1, <2>2 DEF ToMove
<1>6. L \in Nat /\ M \in Nat /\ IsFiniteSet(ToMove)
  BY <1>1, CountsFinite
<1>7. Cardinality(ToMove') = M - 1
  BY <1>5, <1>6, FS_RemoveElement
<1>8. htab_size' = htab_size
  BY DEF htab_size
<1>9. Cardinality(LiveSlots(entries')) + Cardinality(ToMove') = L + M
  <2> HIDE DEF L, M
  <2> QED
    BY <1>4, <1>6, <1>7
<1> QED
  BY <1>4, <1>8, <1>9 DEF Counting, countVars

\* A removal: one element less, one deleted entry more.
LEMMA ClearStepCounts ==
  ASSUME IInv, Counting, caller = "none", NEW x \in Elements, NEW i \in 0..(htab_size - 1),
         EndsAt(x, i), entries[Slot(x, i, htab_size)] = x, Clear(x, i)
  PROVE  Counting'
<1> DEFINE s == Slot(x, i, htab_size)
           L == Cardinality(LiveSlots(entries))
           D == Cardinality(DeletedSlots)
<1>1. Shape /\ oentries = NoEntries
  BY DEF IInv, Rebuilding
<1>2. s \in DOMAIN entries
  BY SearchTells
<1>3. /\ entries' = [entries EXCEPT ![s] = HTAB_DELETED_ENTRY]
      /\ n_deleted' = n_deleted + 1
      /\ UNCHANGED <<prime, n_elements, oentries, p, caller, empties>>
  BY DEF Clear, expandVars
<1>4. entries[s] \in Elements
  OBVIOUS
<1> HIDE DEF s
<1>5. Cardinality(LiveSlots(entries')) = L - 1 /\ Cardinality(DeletedSlots') = D + 1
  BY <1>1, <1>2, <1>3, <1>4, ClearCounts
<1>6. L \in Nat /\ D \in Nat
  BY <1>1, CountsFinite
<1>7. Cardinality(ToMove) = 0 /\ Cardinality(ToMove') = 0 /\ htab_size' = htab_size
  BY <1>1, <1>3, NothingToMove, NothingToMoveNext DEF htab_size
<1> HIDE DEF L, D
<1>8. /\ n_elements \in Nat /\ n_deleted \in Nat
      /\ n_deleted >= D /\ n_elements - n_deleted >= L
      /\ empties = 0 => n_deleted = D /\ n_elements - n_deleted = L
  BY <1>6, <1>7 DEF Counting, L, D
<1>9. /\ n_deleted' \in Nat /\ n_deleted' >= D + 1 /\ n_elements - n_deleted' >= (L - 1) + 0
      /\ empties = 0 => n_deleted' = D + 1 /\ n_elements - n_deleted' = (L - 1) + 0
  BY <1>3, <1>6, <1>8
<1> QED
  BY <1>3, <1>5, <1>7, <1>9 DEF Counting

\* htab_empty: the counts are now too large.
LEMMA EmptyCounts ==
  ASSUME IInv, Counting, Rest, htab_empty
  PROVE  Counting'
<1>1. Shape /\ caller = "none" /\ oentries = NoEntries
  BY DEF IInv, Rebuilding, htab_empty, Idle
<1>2. /\ entries' = Blank(Primes[prime]) /\ prime \in DOMAIN Primes
      /\ empties' = empties + 1
      /\ UNCHANGED <<prime, n_elements, n_deleted, oentries, p, caller>>
  BY <1>1 DEF htab_empty, htab_size, expandVars, countVars, Shape
<1>3. Cardinality(LiveSlots(entries')) = 0 /\ Cardinality(DeletedSlots') = 0
  BY <1>2, BlankCounts DEF DeletedSlots
<1>4. Cardinality(ToMove) = 0 /\ Cardinality(ToMove') = 0 /\ htab_size' = htab_size
  BY <1>1, <1>2, NothingToMove, NothingToMoveNext DEF htab_size
<1>5. empties' # 0
  BY <1>2 DEF Rest
<1>6. /\ Cardinality(LiveSlots(entries)) \in Nat /\ Cardinality(DeletedSlots) \in Nat
  BY <1>1, CountsFinite
<1>7. n_deleted >= 0 /\ n_elements - n_deleted >= 0 + 0
  BY <1>4, <1>6 DEF Counting
<1> QED
  BY <1>2, <1>3, <1>4, <1>5, <1>7 DEF Counting

\* A traversal forgets the old array, of which nothing is left to move.
LEMMA TraverseCounts ==
  ASSUME IInv, Counting, ToMove = {}, htab_traverse_noresize
  PROVE  Counting'
<1>1. oentries' = NoEntries /\ caller' = "none"
      /\ UNCHANGED <<entries, prime, n_elements, n_deleted, empties>>
  BY DEF htab_traverse_noresize, countVars
<1>2. Cardinality(ToMove) = 0 /\ Cardinality(ToMove') = 0 /\ IsFiniteSet(DOMAIN oentries')
  BY <1>1, FS_EmptySet, NothingToMoveNext
<1>3. htab_size' = htab_size /\ LiveSlots(entries') = LiveSlots(entries)
      /\ DeletedSlots' = DeletedSlots
  BY <1>1 DEF htab_size, LiveSlots, DeletedSlots
<1> QED
  BY <1>1, <1>2, <1>3 DEF Counting

\* Every step keeps the counts right, and no search hangs.
LEMMA NextCounts ==
  ASSUME CInv, [Next]_vars
  PROVE  Counting' /\ Rest'
<1>1. IInv /\ Counting /\ Rest /\ Shape
  BY DEF CInv, IInv
<1>2. caller = "none" => ToMove = {} /\ oentries = NoEntries
  BY <1>1, NothingToMove DEF IInv, Rebuilding
<1>3. Moved => ToMove = {}
  BY DEF Moved, ToMove
<1>4. \A y \in Elements : ~Endless(y)
  BY <1>1, SearchEnds
<1>5. ASSUME NEW x \in Elements, htab_find(x)
      PROVE  Counting' /\ Rest'
  <2>1. UNCHANGED <<entries, prime, countVars, expandVars, empties, status>>
    BY <1>4, <1>5 DEF htab_find
  <2> QED
    BY <1>1, <2>1, SameCounts DEF Rest, countVars, expandVars
<1>6. ASSUME NEW x \in Elements, Insert(x), ToMove = {}, caller = "none" => ~TooFull
      PROVE  Counting' /\ Rest'
  <2>1. /\ find_slot(x) /\ oentries' = NoEntries /\ caller' = "none" /\ element' = Nobody
        /\ UNCHANGED <<prime, empties, status>>
    BY <1>4, <1>6 DEF Insert
  <2>2. Counting'
    BY <1>1, <1>6, <2>1, FindSlotCounts
  <2> QED
    BY <1>1, <2>1, <2>2 DEF Rest
<1>7. ASSUME caller = "none", NEW c \in {"insert", "traverse"},
             NEW x \in Elements \cup {Nobody}, htab_expand(c, x)
      PROVE  Counting' /\ Rest'
  <2>1. element' = x /\ UNCHANGED <<empties, status>>
    BY <1>7 DEF htab_expand
  <2>2. Counting'
    BY <1>1, <1>7, ExpandCounts
  <2> QED
    BY <1>1, <2>1, <2>2 DEF Rest
<1>8. ASSUME NEW x \in Elements, htab_find_slot(x)
      PROVE  Counting' /\ Rest'
  <2>1. caller = "none"
    BY <1>8 DEF htab_find_slot, Idle
  <2>2. CASE ~TooFull /\ Insert(x)
    BY <1>2, <1>6, <2>1, <2>2
  <2>3. CASE htab_expand("insert", x)
    BY <1>7, <2>1, <2>3
  <2>4. CASE UNCHANGED <<entries, prime, countVars, expandVars, empties, status>>
    BY <1>1, <2>4, SameCounts DEF Rest, countVars, expandVars
  <2> QED
    BY <1>8, <2>2, <2>3, <2>4 DEF htab_find_slot
<1>9. ASSUME NEW x \in Elements, htab_remove_elt(x)
      PROVE  Counting' /\ Rest'
  <2>1. caller = "none"
    BY <1>9 DEF htab_remove_elt, Idle
  <2>2. ASSUME NEW i \in 0..(htab_size - 1), EndsAt(x, i),
               entries[Slot(x, i, htab_size)] = x, Clear(x, i)
        PROVE  Counting' /\ Rest'
    <3>1. Counting'
      BY <1>1, <2>1, <2>2, ClearStepCounts
    <3>2. UNCHANGED <<element, empties, status>>
      BY <2>2 DEF Clear, expandVars
    <3> QED
      BY <1>1, <3>1, <3>2 DEF Rest
  <2>3. CASE /\ status' = "crashed"
             /\ UNCHANGED <<entries, prime, countVars, expandVars, empties, reply>>
    BY <1>1, <2>3, SameCounts DEF Rest, countVars, expandVars
  <2> QED
    BY <1>4, <1>9, <2>2, <2>3 DEF htab_remove_elt
<1>10. CASE move_entry
  <2>1. PICK q \in DOMAIN oentries :
          /\ NextElement(q)
          /\ \/ /\ \E s \in DOMAIN entries :
                    /\ find_empty_slot_for_expand(oentries[q], s)
                    /\ entries' = [entries EXCEPT ![s] = oentries[q]]
                /\ p' = q + 1
                /\ UNCHANGED <<prime, countVars, oentries, caller, element,
                               empties, reply, status>>
             \/ \A s \in DOMAIN entries : ~find_empty_slot_for_expand(oentries[q], s)
    BY <1>10 DEF move_entry
  <2>2. oentries[q] \in Elements
    BY <2>1 DEF NextElement
  <2>3. \E s \in DOMAIN entries : find_empty_slot_for_expand(oentries[q], s)
    BY <1>1, <2>2, SearchEnds
  <2>4. PICK s \in DOMAIN entries :
          /\ find_empty_slot_for_expand(oentries[q], s)
          /\ entries' = [entries EXCEPT ![s] = oentries[q]]
          /\ p' = q + 1
          /\ UNCHANGED <<prime, countVars, oentries, caller, element,
                         empties, reply, status>>
    BY <2>1, <2>3
  <2>5. Counting'
    BY <1>1, <2>1, <2>4, MoveCounts
  <2> QED
    BY <1>1, <2>4, <2>5 DEF Rest
<1>11. CASE insert_after_expand
  <2>1. element \in Elements /\ caller # "none" /\ Insert(element) /\ Moved
    BY <1>1, <1>11 DEF insert_after_expand, IInv, Rebuilding
  <2> QED
    BY <1>3, <1>6, <2>1
<1>12. ASSUME htab_traverse_noresize, ToMove = {}
       PROVE  Counting' /\ Rest'
  <2>1. Counting'
    BY <1>1, <1>12, TraverseCounts
  <2>2. element' = Nobody /\ UNCHANGED <<empties, status>>
    BY <1>12 DEF htab_traverse_noresize
  <2> QED
    BY <1>1, <2>1, <2>2 DEF Rest
<1>13. CASE traverse_after_expand
  BY <1>3, <1>12, <1>13 DEF traverse_after_expand
<1>14. CASE htab_empty
  <2>1. Counting'
    BY <1>1, <1>14, EmptyCounts
  <2>2. empties' \in 0..MaxEmpties /\ UNCHANGED <<element, status>>
    BY <1>1, <1>14, TableAssumption DEF htab_empty, Rest, expandVars
  <2> QED
    BY <1>1, <2>1, <2>2 DEF Rest
<1>15. CASE htab_traverse
  <2>1. caller = "none"
    BY <1>15 DEF htab_traverse, Idle
  <2>2. CASE htab_expand("traverse", Nobody)
    BY <1>7, <2>1, <2>2
  <2>3. CASE htab_traverse_noresize
    BY <1>2, <1>12, <2>1, <2>3
  <2> QED
    BY <1>15, <2>2, <2>3 DEF htab_traverse
<1>16. CASE UNCHANGED vars
  BY <1>1, <1>16, SameCounts DEF vars, Rest
<1> QED
  BY <1>5, <1>8, <1>9, <1>10, <1>11, <1>13, <1>14, <1>15, <1>16 DEF Next

\* In every reachable state the counts bound what the table holds, and a slot is
\* free.
THEOREM CountInvariance == Spec => []CInv
<1>1. Init => CInv
  BY InitIInv, InitCounting DEF CInv
<1>2. CInv /\ [Next]_vars => CInv'
  BY NextStep, NextCounts DEF CInv
<1> QED
  BY <1>1, <1>2, PTL DEF Spec

\* Type correctness: after every sequence of calls the array has the size that
\* size_prime_index gives, and n_elements and n_deleted have not wrapped below 0.
THEOREM TypeCorrect == Spec => []TypeOK
<1>1. CInv => TypeOK
  BY DEF CInv, IInv, Shape, Counting, Rest, TypeOK
<1> QED
  BY <1>1, CountInvariance, PTL

\* The unbounded loops of htab_find_with_hash, htab_find_slot_with_hash and
\* find_empty_slot_for_expand always end, for every hash function: no state is
\* hung, and every search that could be started would end.
THEOREM EverySearchEnds == Spec => []SearchesEnd
<1>1. CInv => SearchesEnd
  BY SearchEnds DEF CInv, IInv, Rest, SearchesEnd
<1> QED
  BY <1>1, CountInvariance, PTL

\* hashtab.c implements a set: for every hash function, along every sequence of
\* calls, htab_find, htab_find_slot, htab_remove_elt, htab_empty and
\* htab_traverse return, and return what they would return for a set, rebuilding
\* the table is not visible, and no call stops the program but the removal of an
\* element that is not in the set.
THEOREM TableIsASet == Spec => ImplementsSet
<1>1. Init => Abstract!Init
  BY InitIInv
<1>2. IInv /\ [Next]_vars => SetStep
  BY NextStep
<1>3. SearchesEnd' => status' # "hung"
  BY DEF SearchesEnd
<1>4. IInv /\ SearchesEnd' /\ [Next]_vars => [Abstract!Next]_(Abstract!vars)
  BY <1>2, <1>3 DEF SetStep, Abstract!vars
<1> QED
  BY <1>1, <1>4, Invariance, EverySearchEnds, PTL DEF Spec, ImplementsSet, Abstract!Spec

\* n_elements and n_deleted are those of the array, and no element is in two
\* slots; after htab_empty, which does not reset them, they are upper bounds.
THEOREM CountsAreRight == Spec => []CountsRight
<1>1. ASSUME CInv, caller = "none" PROVE CountsRight
  <2>1. IInv /\ Counting /\ Rest /\ Shape /\ Once /\ oentries = NoEntries
    BY <1>1 DEF CInv, IInv, Rebuilding
  <2>2. ASSUME NEW x \in Elements PROVE Count(entries, x) <= 1
    <3> DEFINE C == {s \in DOMAIN entries : entries[s] = x}
    <3>1. CASE C = {}
      <4>1. Cardinality({}) = 0
        BY FS_EmptySet
      <4> QED
        BY <3>1, <4>1 DEF Count
    <3>2. CASE C # {}
      <4>1. PICK s \in DOMAIN entries : entries[s] = x
        BY <3>2
      <4>2. C = {s}
        BY <2>1, <4>1 DEF Once
      <4>3. Cardinality({s}) = 1
        BY FS_Singleton
      <4> QED
        BY <4>2, <4>3 DEF Count
    <3> QED
      BY <3>1, <3>2
  <2>3. Count(entries, HTAB_DELETED_ENTRY) = Cardinality(DeletedSlots)
    BY DEF Count, DeletedSlots
  <2>4. /\ Cardinality(LiveSlots(entries)) \in Nat /\ Cardinality(DeletedSlots) \in Nat
        /\ IsFiniteSet(LiveSlots(entries))
    BY <2>1, CountsFinite
  <2>5. Used = Cardinality(LiveSlots(entries)) + Cardinality(DeletedSlots)
    BY <2>1, UsedSlots
  <2>6. Cardinality(ToMove) = 0
    BY <2>1, NothingToMove
  <2>7. /\ IsFiniteSet(Live(entries))
        /\ Cardinality(Live(entries)) <= Cardinality(LiveSlots(entries))
    <3> DEFINE f == [s \in LiveSlots(entries) |-> entries[s]]
    <3>1. f \in Surjection(LiveSlots(entries), Live(entries))
      BY DEF Surjection, LiveSlots, Live
    <3> HIDE DEF f
    <3> QED
      BY <2>4, <3>1, FS_Surjection
  <2>8. Cardinality(Live(entries)) \in Nat
    BY <2>7, FS_CardinalityType
  <2>9. empties = 0 => n_elements = Used /\ n_deleted = Cardinality(DeletedSlots)
    BY <2>1, <2>4, <2>5, <2>6 DEF Counting
  <2>10. /\ n_elements >= Used
         /\ n_deleted >= Cardinality(DeletedSlots)
         /\ n_elements - n_deleted >= Cardinality(Live(entries))
    BY <2>1, <2>4, <2>5, <2>6, <2>7, <2>8 DEF Counting
  <2> QED
    BY <2>2, <2>3, <2>9, <2>10 DEF CountsRight
<1>2. CInv => CountsRight
  BY <1>1 DEF CountsRight
<1> QED
  BY <1>2, CountInvariance, PTL

=============================================================================
