------------------------------ MODULE Hashtab ------------------------------
(***************************************************************************)
(* The hash tables of libiberty (hashtab.c): open addressing with double   *)
(* hashing, deleted entries that stay in the probe sequences until the     *)
(* table is rebuilt, and rebuilding to a larger, an equal or a smaller     *)
(* prime size.                                                             *)
(*                                                                         *)
(* An element is its own key: eq_f is equality, hash_f is Hash.  The loop  *)
(* in which htab_expand moves the elements to the new array takes one step *)
(* per element; nothing else happens to the table in between.              *)
(***************************************************************************)
EXTENDS Naturals, FiniteSets

CONSTANTS
  Elements,
  Hash,          \* hash_f
  Primes,        \* prime_tab, ascending
  Sizes,         \* the indices htab_create is called with
  AllocFails,    \* TRUE: alloc_f may return NULL, as with htab_try_create
  MaxEmpties,    \* how often htab_empty is called
  HTAB_EMPTY_ENTRY,
  HTAB_DELETED_ENTRY,
  Nobody         \* no element

ASSUME TableAssumption ==
  /\ Hash \in [Elements -> Nat]
  /\ Primes \in [DOMAIN Primes -> Nat \ 0..3]
  /\ \A i \in DOMAIN Primes : \A d \in 2..(Primes[i] - 1) : Primes[i] % d # 0
  /\ DOMAIN Primes \subseteq Nat
  /\ Sizes \subseteq DOMAIN Primes
  /\ AllocFails \in BOOLEAN
  /\ MaxEmpties \in Nat
  /\ HTAB_EMPTY_ENTRY \notin Elements
  /\ HTAB_DELETED_ENTRY \notin Elements
  /\ HTAB_EMPTY_ENTRY # HTAB_DELETED_ENTRY
  /\ Nobody \notin Elements

VARIABLES
  entries,     \* the array: [0..size-1 -> elements, empty or deleted entries]
  prime,       \* size_prime_index
  n_elements,  \* elements and deleted entries
  n_deleted,
  oentries,    \* the array htab_expand copies from
  p,           \* the entries it has still to look at, as a number
  caller,      \* who called htab_expand: "none", "insert" or "traverse"
  element,     \* the element to be inserted after it
  empties,     \* ghost: how often htab_empty was called
  reply,       \* what the last call returned
  status       \* ok; hung in a search without end; crashed by a removal

vars == <<entries, prime, n_elements, n_deleted, oentries, p, caller, element,
          empties, reply, status>>
countVars == <<n_elements, n_deleted>>
expandVars == <<oentries, p, caller, element>>

Entries == Elements \cup {HTAB_EMPTY_ENTRY, HTAB_DELETED_ENTRY}
htab_size == Primes[prime]
htab_elements == n_elements - n_deleted
Live(t) == {t[s] : s \in DOMAIN t} \cap Elements

\* The abstract set: during htab_expand what is not yet moved belongs to it.
Set == Live(entries)
         \cup ({oentries[s] : s \in {q \in DOMAIN oentries : q >= p}} \cap Elements)

Reply(op, x, value) == [op |-> op, arg |-> x, value |-> value]
Blank(n) == [s \in 0..(n - 1) |-> HTAB_EMPTY_ENTRY]
NoEntries == [s \in {} |-> HTAB_EMPTY_ENTRY]

\* State types.
TypeOK ==
  /\ prime \in DOMAIN Primes
  /\ entries \in [0..(htab_size - 1) -> Entries]
  /\ n_elements \in Nat /\ n_deleted \in Nat
  /\ oentries \in [DOMAIN oentries -> Entries] /\ DOMAIN oentries \subseteq Nat
  /\ p \in Nat
  /\ caller \in {"none", "insert", "traverse"}
  /\ element \in Elements \cup {Nobody}
  /\ empties \in 0..MaxEmpties
  /\ status \in {"ok", "hung", "crashed"}

Init ==
  /\ prime \in Sizes
  /\ entries = Blank(htab_size)
  /\ n_elements = 0 /\ n_deleted = 0
  /\ oentries = NoEntries /\ p = 0 /\ caller = "none" /\ element = Nobody
  /\ empties = 0
  /\ reply = Reply("create", {}, TRUE)
  /\ status = "ok"

-----------------------------------------------------------------------------
(* Searching *)

htab_mod(x, size) == Hash[x] % size
\* Faulty form, for mutation: a step of zero.
htab_mod_m2_Zero(x, size) == Hash[x] % (size - 2)

htab_mod_m2(x, size) == 1 + (Hash[x] % (size - 2))

\* The I-th slot a search for X looks at.
Slot(x, i, size) == (htab_mod(x, size) + i * htab_mod_m2(x, size)) % size

\* The probe that ends the search for X: the first to meet X or an empty entry.
\* After SIZE probes a search has seen every slot it will ever see.
Ends(x, i) == entries[Slot(x, i, htab_size)] \in {x, HTAB_EMPTY_ENTRY}
EndsAt(x, i) ==
  i \in 0..(htab_size - 1) /\ Ends(x, i) /\ \A j \in 0..(i - 1) : ~Ends(x, j)
Endless(x) == \A i \in 0..(htab_size - 1) : ~Ends(x, i)

\* The first deleted entry on the way to probe I.
DeletedBefore(x, i, d) ==
  /\ d \in 0..(i - 1)
  /\ entries[Slot(x, d, htab_size)] = HTAB_DELETED_ENTRY
  /\ \A j \in 0..(d - 1) : entries[Slot(x, j, htab_size)] # HTAB_DELETED_ENTRY

Idle == status = "ok" /\ caller = "none"

Hang == status' = "hung" /\ UNCHANGED <<entries, prime, countVars, expandVars, empties, reply>>

htab_find(x) ==
  /\ Idle
  /\ \/ Endless(x) /\ Hang
     \/ \E i \in 0..(htab_size - 1) :
          /\ EndsAt(x, i)
          /\ reply' = Reply("find", {x}, entries[Slot(x, i, htab_size)] = x)
          /\ UNCHANGED <<entries, prime, countVars, expandVars, empties, status>>

-----------------------------------------------------------------------------
(* Insertion and rebuilding *)

\* Three quarters of the table are in use.
TooFull == htab_size * 3 <= n_elements * 4

\* Faulty form, for mutation: the search ends at the first deleted entry.
find_slot_FirstDeleted(x) ==
  \E i \in 0..(htab_size - 1) :
    LET s == Slot(x, i, htab_size) IN
    /\ entries[s] \in {x, HTAB_EMPTY_ENTRY, HTAB_DELETED_ENTRY}
    /\ \A j \in 0..(i - 1) :
         entries[Slot(x, j, htab_size)] \notin {x, HTAB_EMPTY_ENTRY, HTAB_DELETED_ENTRY}
    /\ entries' = [entries EXCEPT ![s] = x]
    /\ n_elements' = IF entries[s] = HTAB_EMPTY_ENTRY THEN n_elements + 1 ELSE n_elements
    /\ n_deleted' = IF entries[s] = HTAB_DELETED_ENTRY THEN n_deleted - 1 ELSE n_deleted

\* htab_find_slot_with_hash (INSERT) after it has made room, and the caller's
\* store of X into the slot: that of X, else the first deleted entry met, else
\* the empty one.
find_slot(x) ==
  \E i \in 0..(htab_size - 1) :
    /\ EndsAt(x, i)
    /\ \/ /\ entries[Slot(x, i, htab_size)] = x
          /\ UNCHANGED <<entries, countVars>>
       \/ /\ entries[Slot(x, i, htab_size)] = HTAB_EMPTY_ENTRY
          /\ \/ \E d \in 0..(i - 1) :
                  /\ DeletedBefore(x, i, d)
                  /\ entries' = [entries EXCEPT ![Slot(x, d, htab_size)] = x]
                  /\ n_deleted' = n_deleted - 1
                  /\ UNCHANGED n_elements
             \/ /\ ~\E d \in 0..(i - 1) : DeletedBefore(x, i, d)
                /\ entries' = [entries EXCEPT ![Slot(x, i, htab_size)] = x]
                /\ n_elements' = n_elements + 1
                /\ UNCHANGED n_deleted

\* The rest of htab_find_slot (X, INSERT), with room.
Insert(x) ==
  \/ Endless(x) /\ Hang
  \/ /\ find_slot(x)
     /\ reply' = Reply("insert", {x}, TRUE)
     /\ oentries' = NoEntries /\ p' = 0 /\ caller' = "none" /\ element' = Nobody
     /\ UNCHANGED <<prime, empties, status>>

\* The size htab_expand chooses: smaller or larger only if the elements fill
\* more than half or less than an eighth of the table.
higher_prime_index(n, i) ==
  /\ i \in DOMAIN Primes /\ n <= Primes[i]
  /\ \A j \in DOMAIN Primes : j < i => n > Primes[j]
NewSize(i) ==
  IF \/ htab_elements * 2 > htab_size
     \/ htab_elements * 8 < htab_size /\ htab_size > 32
  THEN higher_prime_index(htab_elements * 2, i)
  ELSE i = prime

\* Faulty form, for mutation: the new array has the old size.
htab_expand_OldSize(c, x) ==
  \E i \in DOMAIN Primes :
    /\ NewSize(i)
    /\ prime' = i
    /\ entries' = Blank(htab_size)
    /\ n_elements' = n_elements - n_deleted
    /\ n_deleted' = 0
    /\ oentries' = entries /\ p' = 0 /\ caller' = c /\ element' = x
    /\ UNCHANGED <<empties, reply, status>>

\* htab_expand up to its loop.
htab_expand(c, x) ==
  \E i \in DOMAIN Primes :
    /\ NewSize(i)
    /\ prime' = i
    /\ entries' = Blank(Primes[i])
    /\ n_elements' = n_elements - n_deleted
    /\ n_deleted' = 0
    /\ oentries' = entries /\ p' = 0 /\ caller' = c /\ element' = x
    /\ UNCHANGED <<empties, reply, status>>

\* The first empty slot for X.
EmptyAt(x, i) ==
  /\ i \in 0..(htab_size - 1)
  /\ entries[Slot(x, i, htab_size)] = HTAB_EMPTY_ENTRY
  /\ \A j \in 0..(i - 1) : entries[Slot(x, j, htab_size)] # HTAB_EMPTY_ENTRY

\* Faulty form, for mutation: elements keep the slot they had in the old array.
find_empty_slot_for_expand_Same(x, s) ==
  \E q \in DOMAIN oentries : oentries[q] = x /\ s = q % htab_size

find_empty_slot_for_expand(x, s) ==
  \E i \in 0..(htab_size - 1) : EmptyAt(x, i) /\ s = Slot(x, i, htab_size)

\* Entry Q is the next element to be moved.
NextElement(q) ==
  /\ q \in DOMAIN oentries /\ q >= p /\ oentries[q] \in Elements
  /\ \A j \in p..(q - 1) : oentries[j] \notin Elements

\* The rounds of the loop up to and with the one that moves an element.
move_entry ==
  /\ status = "ok" /\ caller # "none"
  /\ \E q \in DOMAIN oentries :
       /\ NextElement(q)
       /\ \/ /\ \E s \in DOMAIN entries :
                 /\ find_empty_slot_for_expand(oentries[q], s)
                 /\ entries' = [entries EXCEPT ![s] = oentries[q]]
             /\ p' = q + 1
             /\ UNCHANGED <<prime, countVars, oentries, caller, element,
                            empties, reply, status>>
          \/ /\ \A s \in DOMAIN entries : ~find_empty_slot_for_expand(oentries[q], s)
             /\ Hang

Moved ==
  status = "ok" /\ \A q \in DOMAIN oentries : q >= p => oentries[q] \notin Elements

\* htab_find_slot (X, INSERT) and the store into the slot it returns.
htab_find_slot(x) ==
  /\ Idle
  /\ \/ ~TooFull /\ Insert(x)
     \/ TooFull /\ htab_expand("insert", x)
     \/ /\ TooFull /\ AllocFails
        /\ reply' = Reply("insert", {x}, FALSE)
        /\ UNCHANGED <<entries, prime, countVars, expandVars, empties, status>>

insert_after_expand == Moved /\ caller = "insert" /\ Insert(element)

-----------------------------------------------------------------------------
(* Removal and traversal *)

\* htab_clear_slot, and the end of htab_remove_elt: the slot of the I-th probe.
Clear(x, i) ==
  /\ entries' = [entries EXCEPT ![Slot(x, i, htab_size)] = HTAB_DELETED_ENTRY]
  /\ n_deleted' = n_deleted + 1
  /\ reply' = Reply("remove", {x}, TRUE)
  /\ UNCHANGED <<prime, n_elements, expandVars, empties, status>>

\* htab_remove_elt: htab_find_slot (NO_INSERT) returns NULL for an element that
\* is not there, and its content is read all the same.
htab_remove_elt(x) ==
  /\ Idle
  /\ \/ Endless(x) /\ Hang
     \/ \E i \in 0..(htab_size - 1) :
          /\ EndsAt(x, i)
          /\ \/ entries[Slot(x, i, htab_size)] = x /\ Clear(x, i)
             \/ /\ entries[Slot(x, i, htab_size)] # x
                /\ status' = "crashed"
                /\ UNCHANGED <<entries, prime, countVars, expandVars, empties, reply>>

\* htab_empty: the entries are cleared, the counts are not.
htab_empty ==
  /\ Idle /\ empties < MaxEmpties
  /\ entries' = Blank(htab_size)
  /\ empties' = empties + 1
  /\ reply' = Reply("empty", {}, TRUE)
  /\ UNCHANGED <<prime, countVars, expandVars, status>>

\* htab_traverse_noresize with a callback that returns true.
htab_traverse_noresize ==
  /\ reply' = Reply("traverse", Live(entries), TRUE)
  /\ oentries' = NoEntries /\ p' = 0 /\ caller' = "none" /\ element' = Nobody
  /\ UNCHANGED <<entries, prime, countVars, empties, status>>

\* htab_traverse rebuilds a table that is too empty, and goes on if it cannot.
htab_traverse ==
  /\ Idle
  /\ \/ htab_elements * 8 < htab_size /\ htab_expand("traverse", Nobody)
     \/ (htab_elements * 8 >= htab_size \/ AllocFails) /\ htab_traverse_noresize

traverse_after_expand == Moved /\ caller = "traverse" /\ htab_traverse_noresize

Next ==
  \/ \E x \in Elements : htab_find(x) \/ htab_find_slot(x) \/ htab_remove_elt(x)
  \/ move_entry
  \/ insert_after_expand
  \/ traverse_after_expand
  \/ htab_empty
  \/ htab_traverse

Spec == Init /\ [][Next]_vars

-----------------------------------------------------------------------------
(* Properties *)

\* To its callers the table is a set: along every sequence of calls, with
\* deleted entries in the way of searches and the table rebuilt in between,
\* each call returns, and returns what it would return for a set.  The one call
\* that does not is the removal of an element that is not in the set.
Abstract == INSTANCE ElementSet WITH set <- Set
ImplementsSet == Abstract!Spec

\* htab_remove_elt "does nothing" for an element that is not in the table: no
\* removal stops the program.
RemovalsReturn == status # "crashed"

\* The loops of the searches have no bound: whatever was inserted and removed,
\* the search for every element meets it or an empty entry, in the table and,
\* while it is rebuilt, in the new array.
SearchesEnd == status # "hung" /\ (status = "ok" => \A x \in Elements : ~Endless(x))

Count(t, x) == Cardinality({s \in DOMAIN t : t[s] = x})
Used == Cardinality({s \in DOMAIN entries : entries[s] # HTAB_EMPTY_ENTRY})

\* The counts that decide when to rebuild are those of the array, and no element
\* is in two slots, unless htab_empty has left its own counts behind.
CountsRight ==
  caller = "none" =>
    /\ \A x \in Elements : Count(entries, x) <= 1
    /\ empties = 0 => /\ n_elements = Used
                      /\ n_deleted = Count(entries, HTAB_DELETED_ENTRY)
    /\ empties > 0 => /\ n_elements >= Used
                      /\ n_deleted >= Count(entries, HTAB_DELETED_ENTRY)
                      /\ n_elements - n_deleted >= Cardinality(Live(entries))

=============================================================================
