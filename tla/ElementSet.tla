----------------------------- MODULE ElementSet -----------------------------
(***************************************************************************)
(* What a hash table of libiberty is to its callers: a set of elements.    *)
(* An insertion may fail for want of memory, and then changes nothing; a   *)
(* traversal visits every element.  Callers may remove only what is in the *)
(* set: after anything else there is no further call.                      *)
(***************************************************************************)
CONSTANT Elements

VARIABLES
  set,    \* the elements in the table
  reply,  \* what the last call returned
  status  \* ok, or crashed in the last call

vars == <<set, reply, status>>

Reply(op, x, value) == [op |-> op, arg |-> x, value |-> value]

Init ==
  /\ set = {}
  /\ reply = Reply("create", {}, TRUE)
  /\ status = "ok"

\* A call returns VALUE and leaves S.
Call(s, op, x, value) ==
  /\ status = "ok"
  /\ set' = s
  /\ reply' = Reply(op, x, value)
  /\ UNCHANGED status

Find(x) == Call(set, "find", {x}, x \in set)

Insert(x) == Call(set \cup {x}, "insert", {x}, TRUE) \/ Call(set, "insert", {x}, FALSE)

Remove(x) == x \in set /\ Call(set \ {x}, "remove", {x}, TRUE)

RemoveAbsent(x) ==
  /\ status = "ok" /\ x \notin set
  /\ status' = "crashed"
  /\ UNCHANGED <<set, reply>>

Empty == Call({}, "empty", {}, TRUE)

Traverse == Call(set, "traverse", set, TRUE)

Next ==
  \/ \E x \in Elements : Find(x) \/ Insert(x) \/ Remove(x) \/ RemoveAbsent(x)
  \/ Empty
  \/ Traverse

Spec == Init /\ [][Next]_vars

=============================================================================
