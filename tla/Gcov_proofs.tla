---------------------------- MODULE Gcov_proofs ----------------------------
(***************************************************************************)
(* Proofs about the profile run-time, for any number of processes, objects *)
(* and builds, any size of a block and any file system.                    *)
(*                                                                         *)
(* The difficulty of Conserved is a file that is half written.  Balance    *)
(* takes the counters that the writer has merged in the place of those of  *)
(* the file, from the first block to the last; Planned says that the       *)
(* blocks still to be written will make the file of these counters,        *)
(* whatever is in it; Locks, that no other process comes between.          *)
(*                                                                         *)
(* That of FilesReadable is a writer that is killed before the last block. *)
(* ReadInv says what the blocks still to be written will make: all of them *)
(* a whole file, and those before the one that follows gcov_seek a file    *)
(* that only lacks a run in the summary of its program.                    *)
(***************************************************************************)
EXTENDS Gcov, NaturalLemmas, TLAPS

-----------------------------------------------------------------------------
(* The inductive invariant *)

\* The values of the model: summaries, cells, blocks.
Summaries == [num : Nat, runs : Nat, sum_all : Nat, run_max : Nat, sum_max : Nat]
Cells == [kind : {"head"}, stamp : Nat] \cup [kind : {"foreign"}]
         \cup [kind : {"function"}, count : Nat] \cup [kind : {"object"}, sum : Summaries]
         \cup [kind : {"program"}, crc : Seq(Objects), sum : Summaries] \cup [kind : {"end"}]
BlockSet == [at : Nat \ {0}, cells : Seq(Cells)]

\* The places of a process: before it writes a file, in a dump, anywhere.
Opening == {"open", "access", "mkdir", "reopen", "merge"}
Dumping == Opening \cup {"write"}
Places == Dumping \cup {"unborn", "count", "ended", "fork", "exec", "done"}

\* State types.
Types ==
  /\ pc \in [Procs -> Places]
  /\ version \in [Procs -> Versions]
  /\ gcov_list \in [Procs -> Seq(Objects)]
  /\ todo \in [Procs -> Seq(Objects)]
  /\ counts \in [Procs -> [Objects -> Seq(Nat)]]
  /\ after \in [Procs -> {"none", "exit", "flush", "fork", "exec"}]
  /\ program \in [Procs -> Summaries]
  /\ object \in [Procs -> Summaries]
  /\ pending \in [Procs -> Seq(BlockSet)]
  /\ begun \in [Procs -> BOOLEAN]
  /\ eof_pos \in [Procs -> Nat]
  /\ file \in [Objects -> Seq(Cells)]
  /\ dirs \subseteq Objects
  /\ lock \in [Objects -> Procs \cup {Nobody}]
  /\ executed \in [Objects -> Nat]
  /\ discarded \in [Objects -> Nat]
  /\ torn \subseteq Objects /\ skipped \subseteq Objects

\* T is what L ends with.
SuffixOf(t, l) == Len(t) <= Len(l) /\ \A i \in 1..Len(t) : t[i] = l[Len(l) - Len(t) + i]

\* The lists of a process: gcov_exit works through its own, which holds no object
\* twice, and what is not on it has not been counted.
ListOk(p) ==
  /\ IsInjective(gcov_list[p])
  /\ SuffixOf(todo[p], gcov_list[p])
  /\ todo[p] = <<>> <=> pc[p] \notin Dumping
  /\ pc[p] \in Dumping \cup {"ended"} => after[p] # "none"
  /\ \A o \in Objects : Len(counts[p][o]) = NFunctions[version[p]][o]
  /\ \A o \in Objects \ ToSet(gcov_list[p]) : SumFunction(counts[p][o]) = 0
  /\ pc[p] \in {"fork", "exec"} => \A o \in Objects : SumFunction(counts[p][o]) = 0

\* The lists of all processes.
Lists == \A p \in Procs : ListOk(p)

\* A file is locked by the one process that merges or writes it.
Locks ==
  \A p \in Procs : \A o \in Objects :
    (lock[o] = p) <=> (pc[p] \in {"merge", "write"} /\ o = Current(p))

\* A file is only skipped for a reason; who opens a file again has its directory.
Reasons ==
  /\ skipped \subseteq disk.noopen \cup disk.nodir
  /\ \A p \in Procs : pc[p] = "reopen" => Current(p) \in dirs

\* Foreign files are as they were, and nobody is writing one.
Foreign ==
  /\ disk.foreign \subseteq Objects
  /\ \A o \in Objects : o \in disk.foreign => file[o] = <<ForeignHead>>
  /\ \A p \in Procs : pc[p] = "write" => Current(p) \notin disk.foreign

\* CELL is one that a file of the counters C may have at I.
Fits(cell, i, stamp, c) ==
  /\ i = 1 => cell = FileHead(stamp)
  /\ i \in 2..(Len(c) + 1) => cell = FunctionCell(c[i - 1])
  /\ i = Len(c) + 2 => cell.kind \notin {"head", "function"}

\* The positions a block is written to.
Extent(block) == block.at..(block.at + Len(block.cells) - 1)

\* The blocks that bring counters: all, but that after gcov_seek.
DataBlocks(pend, eof) == IF eof = 0 THEN Len(pend) ELSE Len(pend) - 1

\* What the blocks PEND make of the file F: nothing they write is in the way of the
\* counters C, every counter is in place or in one of them, and they leave no gap.
Planned(f, pend, eof, stamp, c) ==
  /\ \A b \in 1..Len(pend) : \A i \in Extent(pend[b]) :
       Fits(pend[b].cells[i - pend[b].at + 1], i, stamp, c)
  /\ \A i \in 1..(Len(c) + 2) :
       \/ i \in 1..Len(f) /\ Fits(f[i], i, stamp, c)
       \/ \E b \in 1..DataBlocks(pend, eof) : i \in Extent(pend[b])
  /\ \A b \in 1..Len(pend) : \A i \in 1..(pend[b].at - 1) :
       i \in 1..Len(f) \/ \E a \in 1..(b - 1) : i \in Extent(pend[a])

\* The counts of F that stay: none of those of another compilation.
Kept(f, stamp) == IF f # <<>> /\ f[1] # FileHead(stamp) THEN 0 ELSE InFile(f)

\* A file that is written gets the counters in memory, which are, until the first
\* block is written, those of this execution and of the file.
WriteOk(p) ==
  pc[p] = "write" =>
    LET f == file[Current(p)]
        c == counts[p][Current(p)]
        stamp == Stamp[version[p]][Current(p)]
    IN  /\ Planned(f, pending[p], eof_pos[p], stamp, c)
        /\ ~begun[p] => /\ pending[p] # <<>>
                        /\ SumFunction(c) = object[p].sum_all + Kept(f, stamp)

\* All the files that are written.
Writing == \A p \in Procs : WriteOk(p)

\* What is not yet dumped, by anybody, or given up.
Total(o) == SumFunction([p \in Procs |-> Undumped(p, o)]) + discarded[o]
\* P has written the first block of O, and not closed the file.
Begun(p, o) == pc[p] = "write" /\ o = Current(p) /\ begun[p]

\* What was executed is in the file, in memory or given up; while a file is written,
\* what counts is not in the file but in the counters that the writer merged.
BalanceAt(o) ==
  /\ (\A p \in Procs : ~Begun(p, o)) => executed[o] = InFile(file[o]) + Total(o)
  /\ \A p \in Procs : Begun(p, o) => executed[o] = SumFunction(counts[p][o]) + Total(o)

\* The balance of all files but the torn ones.
Balance == \A o \in Objects \ torn : BalanceAt(o)

\* The inductive invariant.
IndInv == Types /\ Lists /\ Locks /\ Reasons /\ Foreign /\ Writing /\ Balance

-----------------------------------------------------------------------------
(* Sequences and maxima *)

\* The elements of a sequence, and those of the sequence without its first.
LEMMA TailSet ==
  ASSUME NEW S, NEW t \in Seq(S), t # <<>>
  PROVE  /\ ToSet(t) \subseteq S
         /\ t[1] \in ToSet(t)
         /\ Tail(t) \in Seq(S)
         /\ ToSet(t) = ToSet(Tail(t)) \cup {t[1]}
         /\ Len(t) = 1 <=> Tail(t) = <<>>
  <1>1. Len(t) \in Nat \ {0} /\ DOMAIN t = 1..Len(t) /\ Tail(t) \in Seq(S)
        /\ Len(Tail(t)) = Len(t) - 1 /\ DOMAIN Tail(t) = 1..(Len(t) - 1)
        /\ \A i \in 1..(Len(t) - 1) : Tail(t)[i] = t[i + 1]
    OBVIOUS
  <1>2. ToSet(t) \subseteq ToSet(Tail(t)) \cup {t[1]}
    <2>1. ASSUME NEW i \in 1..Len(t), i # 1 PROVE t[i] \in ToSet(Tail(t))
      <3>1. i - 1 \in 1..(Len(t) - 1) /\ t[i] = Tail(t)[i - 1]
        BY <1>1, <2>1
      <3>. QED
        BY <3>1, <1>1 DEF ToSet
    <2>. QED
      BY <1>1, <2>1 DEF ToSet
  <1>3. ToSet(Tail(t)) \subseteq ToSet(t)
    <2>1. ASSUME NEW i \in 1..(Len(t) - 1) PROVE Tail(t)[i] \in ToSet(t)
      <3>1. i + 1 \in DOMAIN t /\ Tail(t)[i] = t[i + 1]
        BY <1>1
      <3>. QED
        BY <3>1 DEF ToSet
    <2>. QED
      BY <1>1, <2>1 DEF ToSet
  <1>4. t[1] \in ToSet(t)
    BY <1>1 DEF ToSet
  <1>5. ToSet(t) \subseteq S
    BY DEF ToSet
  <1>6. Len(t) = 1 <=> Tail(t) = <<>>
    <2> DEFINE u == Tail(t)
    <2>1. u \in Seq(S) /\ Len(u) = Len(t) - 1
      BY <1>1
    <2> HIDE DEF u
    <2>2. u = <<>> => Len(u) = 0
      OBVIOUS
    <2>3. u # <<>> => Len(u) # 0
      BY <2>1
    <2>. QED
      BY <1>1, <2>1, <2>2, <2>3 DEF u
  <1>. QED
    BY <1>1, <1>2, <1>3, <1>4, <1>5, <1>6

\* A suffix of an injective sequence is injective: its first element is not in
\* its tail.
LEMMA FirstNotInTail ==
  ASSUME NEW S, NEW l \in Seq(S), NEW t \in Seq(S), IsInjective(l), SuffixOf(t, l), t # <<>>
  PROVE  /\ t[1] \notin ToSet(Tail(t))
         /\ SuffixOf(Tail(t), l)
         /\ ToSet(t) \subseteq ToSet(l)
  <1>1. Len(t) \in Nat \ {0} /\ Len(l) \in Nat /\ DOMAIN t = 1..Len(t) /\ DOMAIN l = 1..Len(l)
        /\ Len(Tail(t)) = Len(t) - 1 /\ DOMAIN Tail(t) = 1..(Len(t) - 1)
        /\ \A i \in 1..(Len(t) - 1) : Tail(t)[i] = t[i + 1]
    OBVIOUS
  <1>2. Len(t) <= Len(l) /\ \A i \in 1..Len(t) : t[i] = l[Len(l) - Len(t) + i]
    BY DEF SuffixOf
  <1>3. ASSUME NEW i \in 1..(Len(t) - 1), Tail(t)[i] = t[1] PROVE FALSE
    <2> DEFINE a == Len(l) - Len(t) + 1
               b == Len(l) - Len(t) + (i + 1)
    <2>1. a \in 1..Len(l) /\ b \in 1..Len(l) /\ a # b
      BY <1>1, <1>2
    <2>2. t[1] = l[a] /\ t[i + 1] = l[b] /\ Tail(t)[i] = t[i + 1]
      BY <1>1, <1>2
    <2> HIDE DEF a, b
    <2>. QED
      BY <1>1, <1>3, <2>1, <2>2 DEF IsInjective
  <1>4. SuffixOf(Tail(t), l)
    <2>1. ASSUME NEW i \in 1..(Len(t) - 1) PROVE Tail(t)[i] = l[Len(l) - (Len(t) - 1) + i]
      <3>1. i + 1 \in 1..Len(t) /\ Len(l) - Len(t) + (i + 1) = Len(l) - (Len(t) - 1) + i
        BY <1>1
      <3>2. Tail(t)[i] = t[i + 1] /\ t[i + 1] = l[Len(l) - Len(t) + (i + 1)]
        BY <1>1, <1>2, <3>1
      <3>. QED
        BY <3>1, <3>2
    <2>. QED
      BY <1>1, <1>2, <2>1 DEF SuffixOf
  <1>5. ToSet(t) \subseteq ToSet(l)
    <2>1. ASSUME NEW i \in 1..Len(t) PROVE t[i] \in ToSet(l)
      <3>1. Len(l) - Len(t) + i \in DOMAIN l
        BY <1>1, <1>2
      <3>. QED
        BY <3>1, <1>2 DEF ToSet
    <2>. QED
      BY <1>1, <2>1 DEF ToSet
  <1>. QED
    BY <1>1, <1>3, <1>4, <1>5 DEF ToSet

\* The new object at the head of an injective list.
LEMMA HeadInjective ==
  ASSUME NEW S, NEW l \in Seq(S), IsInjective(l), NEW x \in S, x \notin ToSet(l)
  PROVE  <<x>> \o l \in Seq(S) /\ IsInjective(<<x>> \o l) /\ ToSet(l) \subseteq ToSet(<<x>> \o l)
  <1> DEFINE m == <<x>> \o l
  <1>1. m \in Seq(S) /\ Len(l) \in Nat /\ Len(m) = Len(l) + 1 /\ DOMAIN m = 1..(Len(l) + 1)
        /\ m[1] = x /\ DOMAIN l = 1..Len(l) /\ \A i \in 1..Len(l) : m[i + 1] = l[i]
    OBVIOUS
  <1> HIDE DEF m
  <1>2. ASSUME NEW i \in 1..(Len(l) + 1), i # 1 PROVE i - 1 \in 1..Len(l) /\ m[i] = l[i - 1]
    BY <1>1, <1>2
  <1>3. \A i \in 1..Len(l) : l[i] # x
    BY <1>1 DEF ToSet
  <1>4. IsInjective(m)
    <2> SUFFICES ASSUME NEW i \in 1..(Len(l) + 1), NEW j \in 1..(Len(l) + 1), m[i] = m[j]
                 PROVE  i = j
      BY <1>1 DEF IsInjective
    <2>1. CASE i # 1 /\ j # 1
      <3>1. l[i - 1] = l[j - 1] /\ i - 1 \in 1..Len(l) /\ j - 1 \in 1..Len(l)
        BY <1>2, <2>1
      <3>2. i - 1 = j - 1
        BY <3>1, <1>1 DEF IsInjective
      <3>. QED
        BY <3>2
    <2>2. CASE i = 1 \/ j = 1
      BY <1>1, <1>2, <1>3, <2>2
    <2>. QED
      BY <2>1, <2>2
  <1>5. ToSet(l) \subseteq ToSet(m)
    <2> SUFFICES ASSUME NEW i \in 1..Len(l) PROVE l[i] \in ToSet(m)
      BY <1>1 DEF ToSet
    <2>1. i + 1 \in DOMAIN m /\ m[i + 1] = l[i]
      BY <1>1
    <2>. QED
      BY <2>1 DEF ToSet
  <1>. QED
    BY <1>1, <1>4, <1>5 DEF m

\* The startup list, the object constructed last at its head.
LEMMA ReverseInjective ==
  ASSUME NEW S, NEW l \in Seq(S), IsInjective(l)
  PROVE  Reverse(l) \in Seq(S) /\ IsInjective(Reverse(l))
  <1>1. Len(l) \in Nat /\ DOMAIN l = 1..Len(l) /\ \A i \in 1..Len(l) : l[i] \in S
    OBVIOUS
  <1>2. Reverse(l) = [i \in 1..Len(l) |-> l[(Len(l) - i) + 1]]
    BY DEF Reverse
  <1>3. \A i \in 1..Len(l) : (Len(l) - i) + 1 \in 1..Len(l)
    BY <1>1
  <1>4. Reverse(l) \in Seq(S)
    BY <1>1, <1>2, <1>3
  <1>5. IsInjective(Reverse(l))
    <2> SUFFICES ASSUME NEW i \in 1..Len(l), NEW j \in 1..Len(l), Reverse(l)[i] = Reverse(l)[j]
                 PROVE  i = j
      BY <1>2 DEF IsInjective
    <2>1. (Len(l) - i) + 1 = (Len(l) - j) + 1
      BY <1>1, <1>2, <1>3 DEF IsInjective
    <2>. QED
      BY <1>1, <2>1
  <1>. QED
    BY <1>4, <1>5

\* SuffixOf is IsSuffix.
LEMMA SuffixIs ==
  ASSUME NEW S, NEW l \in Seq(S), NEW t \in Seq(S), SuffixOf(t, l)
  PROVE  IsSuffix(t, l)
  <1>1. Len(l) \in Nat /\ Len(t) \in Nat /\ DOMAIN l = 1..Len(l) /\ DOMAIN t = 1..Len(t)
    OBVIOUS
  <1>2. Len(t) <= Len(l) /\ \A i \in 1..Len(t) : t[i] = l[Len(l) - Len(t) + i]
    BY DEF SuffixOf
  <1> DEFINE a == Reverse(t)
             b == Reverse(l)
  <1>3. \A i \in 1..Len(t) : (Len(t) - i) + 1 \in 1..Len(t)
    BY <1>1
  <1>4. \A i \in 1..Len(l) : (Len(l) - i) + 1 \in 1..Len(l)
    BY <1>1
  <1>5. a \in Seq(S) /\ Len(a) = Len(t) /\ \A i \in 1..Len(t) : a[i] = t[(Len(t) - i) + 1]
    BY <1>1, <1>3 DEF Reverse
  <1>6. b \in Seq(S) /\ Len(b) = Len(l) /\ \A i \in 1..Len(l) : b[i] = l[(Len(l) - i) + 1]
    BY <1>1, <1>4 DEF Reverse
  <1> HIDE DEF a, b
  <1>7. \A i \in 1..Len(t) : a[i] = b[i]
    <2> SUFFICES ASSUME NEW i \in 1..Len(t) PROVE a[i] = b[i]
      OBVIOUS
    <2>1. i \in 1..Len(l) /\ (Len(t) - i) + 1 \in 1..Len(t)
      BY <1>1, <1>2
    <2>2. Len(l) - Len(t) + ((Len(t) - i) + 1) = (Len(l) - i) + 1
      BY <1>1
    <2>3. t[(Len(t) - i) + 1] = l[Len(l) - Len(t) + ((Len(t) - i) + 1)]
      BY <1>2, <2>1
    <2>. QED
      BY <1>5, <1>6, <2>1, <2>2, <2>3
  <1>8. SubSeq(a, 1, Len(a)) = SubSeq(b, 1, Len(a))
    <2>1. SubSeq(a, 1, Len(a)) = [i \in 1..Len(t) |-> a[i]]
      BY <1>1, <1>5
    <2>2. SubSeq(b, 1, Len(a)) = [i \in 1..Len(t) |-> b[i]]
      BY <1>1, <1>2, <1>5, <1>6
    <2>. QED
      BY <1>7, <2>1, <2>2
  <1>. QED
    BY <1>2, <1>5, <1>6, <1>8 DEF IsSuffix, IsPrefix, a, b

\* No term is greater than its sum.
LEMMA SumBound ==
  ASSUME NEW D, IsFiniteSet(D), NEW f \in [D -> Nat], NEW x \in D
  PROVE  f[x] <= SumFunction(f)
  <1>1. D \in SUBSET D
    OBVIOUS
  <1>2. Partial(f)[D] = f[x] + Partial(f)[D \ {x}]
    BY <1>1, PartialTake
  <1>3. Partial(f)[D \ {x}] \in Nat
    BY PartialAny
  <1>4. SumFunction(f) = Partial(f)[D]
    BY SumIsPartial
  <1>. QED
    BY <1>2, <1>3, <1>4

\* The largest value of a function.
LEMMA MaxOfFunction ==
  ASSUME NEW D, IsFiniteSet(D), NEW f \in [D -> Nat], D # {}
  PROVE  Max(Range(f)) \in Nat
  <1> DEFINE T == Range(f)
  <1>1. T \subseteq Nat /\ T # {} /\ \A y \in T : y <= SumFunction(f)
    BY SumBound DEF Range
  <1>2. SumFunction(f) \in Nat
    BY SumNat
  <1> HIDE DEF T
  <1>3. Max(T) \in T
    BY <1>1, <1>2, MaxIs
  <1>. QED
    BY <1>1, <1>3 DEF T

\* The larger of two numbers.
LEMMA MaxOfTwo ==
  ASSUME NEW a \in Nat, NEW b \in Nat
  PROVE  /\ Max({a, b}) = IF a >= b THEN a ELSE b
         /\ Min({a, b}) = IF a <= b THEN a ELSE b
  <1>1. Max({a, b}) = IF a >= b THEN a ELSE b
    <2> DEFINE m == IF a >= b THEN a ELSE b
    <2>1. m \in {a, b} /\ \A y \in {a, b} : m >= y
      OBVIOUS
    <2>2. \A x \in {a, b} : (\A y \in {a, b} : x >= y) => x = m
      OBVIOUS
    <2>. QED
      BY <2>1, <2>2 DEF Max
  <1>2. Min({a, b}) = IF a <= b THEN a ELSE b
    <2> DEFINE m == IF a <= b THEN a ELSE b
    <2>1. m \in {a, b} /\ \A y \in {a, b} : m <= y
      OBVIOUS
    <2>2. \A x \in {a, b} : (\A y \in {a, b} : x <= y) => x = m
      OBVIOUS
    <2>. QED
      BY <2>1, <2>2 DEF Min
  <1>. QED
    BY <1>1, <1>2

-----------------------------------------------------------------------------
(* Summaries and counters *)

\* The sum of a sequence of counters.
LEMMA SeqSum ==
  ASSUME NEW c \in Seq(Nat)
  PROVE  /\ SumFunction(c) \in Nat
         /\ c \in [1..Len(c) -> Nat] /\ IsFiniteSet(1..Len(c)) /\ Len(c) \in Nat
  <1>1. c \in [1..Len(c) -> Nat] /\ Len(c) \in Nat
    OBVIOUS
  <1>2. IsFiniteSet(1..Len(c))
    BY <1>1, FS_Interval
  <1>. QED
    BY <1>1, <1>2, SumNat

\* The summary of no execution is a summary.
LEMMA NoSummaryType == NoSummary \in Summaries
  BY DEF NoSummary, Summaries

\* Two summaries merged are a summary.
LEMMA MergedType ==
  ASSUME NEW s \in Summaries, NEW t \in Summaries
  PROVE  Merged(s, t) \in Summaries
  <1>1. /\ t.num \in Nat /\ s.runs + 1 \in Nat /\ s.sum_all + t.sum_all \in Nat
        /\ s.sum_max + t.run_max \in Nat /\ s.run_max \in Nat /\ t.run_max \in Nat
    BY DEF Summaries
  <1>2. Max({s.run_max, t.run_max}) \in Nat
    BY <1>1, MaxOfTwo
  <1>. QED
    BY <1>1, <1>2 DEF Summaries, Merged

\* The lengths of the counters are those of the program, which has functions.
Counted ==
  \A p \in Procs : \A o \in Objects : Len(counts[p][o]) = NFunctions[version[p]][o]

\* The counters of an object are natural numbers, one for each of its functions.
LEMMA CountersType ==
  ASSUME Types, Counted, NEW p \in Procs, NEW o \in Objects
  PROVE  /\ counts[p][o] \in Seq(Nat)
         /\ Len(counts[p][o]) \in Nat \ {0}
         /\ Len(counts[p][o]) = NFunctions[version[p]][o]
         /\ SumFunction(counts[p][o]) \in Nat
  <1>1. counts[p][o] \in Seq(Nat) /\ version[p] \in Versions
    BY DEF Types
  <1>2. NFunctions[version[p]][o] \in Nat \ {0}
    BY <1>1, GcovAssumption
  <1>. QED
    BY <1>1, <1>2, SeqSum DEF Counted

\* The totals of an object, with the sum of its counters.
LEMMA ObjectTotalsType ==
  ASSUME Types, Counted, NEW p \in Procs, NEW o \in Objects
  PROVE  /\ ObjectTotals(p, o) \in Summaries
         /\ ObjectTotals(p, o).sum_all = SumFunction(counts[p][o])
         /\ ObjectTotals(p, o).num = Len(counts[p][o])
         /\ ObjectTotals(p, o).runs = 0
  <1> DEFINE c == counts[p][o]
  <1>1. c \in Seq(Nat) /\ Len(c) \in Nat \ {0} /\ SumFunction(c) \in Nat
    BY CountersType
  <1> HIDE DEF c
  <1>2. c \in [1..Len(c) -> Nat] /\ IsFiniteSet(1..Len(c)) /\ 1..Len(c) # {}
    BY <1>1, SeqSum
  <1>3. Max(Range(c)) \in Nat
    BY <1>2, MaxOfFunction
  <1> DEFINE m == Max(Range(c))
             s == SumFunction(c)
             n == Len(c)
  <1>4. ObjectTotals(p, o) = [NoSummary EXCEPT !.num = n, !.sum_all = s, !.run_max = m]
    BY DEF ObjectTotals, Largest, c
  <1>5. n \in Nat /\ s \in Nat /\ m \in Nat
    BY <1>1, <1>3
  <1> HIDE DEF m, s, n
  <1>7. ObjectTotals(p, o) = [num |-> n, runs |-> 0, sum_all |-> s, run_max |-> m, sum_max |-> 0]
    BY <1>4 DEF NoSummary
  <1>6. /\ ObjectTotals(p, o) \in Summaries /\ ObjectTotals(p, o).sum_all = s
        /\ ObjectTotals(p, o).num = n /\ ObjectTotals(p, o).runs = 0
    BY <1>7, <1>5 DEF Summaries
  <1>. QED
    BY <1>6 DEF s, n, c

\* The totals of a program.
LEMMA ProgramTotalsType ==
  ASSUME Types, Counted, NEW p \in Procs
  PROVE  ProgramTotals(p) \in Summaries
  <1> DEFINE D == ToSet(gcov_list[p])
             t == [o \in D |-> ObjectTotals(p, o)]
  <1>1. gcov_list[p] \in Seq(Objects)
    BY DEF Types
  <1>2. D \subseteq Objects /\ IsFiniteSet(D)
    <2>1. DOMAIN gcov_list[p] = 1..Len(gcov_list[p]) /\ Len(gcov_list[p]) \in Nat
      BY <1>1
    <2>2. IsFiniteSet(DOMAIN gcov_list[p])
      BY <2>1, FS_Interval
    <2>3. IsFiniteSet({gcov_list[p][i] : i \in DOMAIN gcov_list[p]})
      <3> DEFINE g == gcov_list[p]
                 E == DOMAIN g
                 R == {g[i] : i \in E}
      <3>1. g \in Surjection(E, R)
        <4>1. g \in [E -> R]
          BY <1>1
        <4>. QED
          BY <4>1 DEF Surjection
      <3> HIDE DEF E, R
      <3>2. IsFiniteSet(E)
        BY <2>2 DEF E
      <3>3. IsFiniteSet(R)
        BY <3>1, <3>2, FS_Surjection
      <3>. QED
        BY <3>3 DEF R, E
    <2>. QED
      BY <1>1, <2>3 DEF ToSet
  <1> HIDE DEF D
  <1>3. t \in [D -> Summaries]
    BY <1>2, ObjectTotalsType
  <1>4. DOMAIN t = D
    OBVIOUS
  <1> HIDE DEF t
  <1> DEFINE num == [o \in D |-> t[o].num]
             all == [o \in D |-> t[o].sum_all]
             max == [o \in D |-> t[o].run_max]
  <1>5. num \in [D -> Nat] /\ all \in [D -> Nat] /\ max \in [D -> Nat]
    BY <1>3 DEF Summaries
  <1>6. SumFunction(num) \in Nat /\ SumFunction(all) \in Nat
    BY <1>2, <1>5, SumNat
  <1>7. Max({0} \cup {t[o].run_max : o \in D}) \in Nat
    <2> DEFINE T == {0} \cup {t[o].run_max : o \in D}
    <2>1. T \subseteq Nat /\ T # {}
      BY <1>3 DEF Summaries
    <2>2. SumFunction(max) \in Nat
      BY <1>2, <1>5, SumNat
    <2>3. \A o \in D : t[o].run_max = max[o]
      OBVIOUS
    <2> HIDE DEF max
    <2>4. \A o \in D : max[o] <= SumFunction(max)
      BY <1>2, <1>5, SumBound
    <2>5. \A y \in T : y <= SumFunction(max)
      BY <2>2, <2>3, <2>4
    <2> HIDE DEF T
    <2>6. Max(T) \in T
      BY <2>1, <2>2, <2>5, MaxIs
    <2>. QED
      BY <2>1, <2>6 DEF T
  <1> DEFINE a == SumFunction(num)
             b == SumFunction(all)
             m == Max({0} \cup {t[o].run_max : o \in D})
  <1>8. ProgramTotals(p) = [NoSummary EXCEPT !.num = a, !.sum_all = b, !.run_max = m]
    BY <1>4 DEF ProgramTotals, t, D
  <1>9. a \in Nat /\ b \in Nat /\ m \in Nat
    BY <1>6, <1>7
  <1> HIDE DEF a, b, m
  <1>10. ProgramTotals(p) = [num |-> a, runs |-> 0, sum_all |-> b, run_max |-> m, sum_max |-> 0]
    BY <1>8 DEF NoSummary
  <1>. QED
    BY <1>9, <1>10 DEF Summaries

-----------------------------------------------------------------------------
(* Cells and files *)

\* What the kind of a cell says of it.
LEMMA CellFacts ==
  ASSUME NEW c \in Cells
  PROVE  /\ c.kind = "head" => c = FileHead(c.stamp)
         /\ c.kind = "function" => c.count \in Nat
         /\ c.kind = "object" => c.sum \in Summaries
         /\ c.kind = "program" => c.sum \in Summaries
  <1>1. CASE c \in [kind : {"head"}, stamp : Nat]
    BY <1>1 DEF FileHead
  <1>2. CASE c \in [kind : {"foreign"}]
    BY <1>2
  <1>3. CASE c \in [kind : {"function"}, count : Nat]
    BY <1>3
  <1>4. CASE c \in [kind : {"object"}, sum : Summaries]
    BY <1>4
  <1>5. CASE c \in [kind : {"program"}, crc : Seq(Objects), sum : Summaries]
    BY <1>5
  <1>6. CASE c \in [kind : {"end"}]
    BY <1>6
  <1>. QED
    BY <1>1, <1>2, <1>3, <1>4, <1>5, <1>6 DEF Cells

\* The cells that the run-time makes.
LEMMA CellsMade ==
  /\ \A s \in Nat : FileHead(s) \in Cells /\ FileHead(s).kind = "head"
  /\ ForeignHead \in Cells /\ ForeignHead.kind = "foreign"
  /\ \A n \in Nat : FunctionCell(n) \in Cells /\ FunctionCell(n).kind = "function"
                    /\ FunctionCell(n).count = n
  /\ \A s \in Summaries : ObjectCell(s) \in Cells /\ ObjectCell(s).kind = "object"
  /\ \A crc \in Seq(Objects) : \A s \in Summaries :
       ProgramCell(crc, s) \in Cells /\ ProgramCell(crc, s).kind = "program"
  /\ End \in Cells /\ End.kind = "end"
  <1>1. \A s \in Nat : FileHead(s) \in Cells /\ FileHead(s).kind = "head"
    BY DEF Cells, FileHead
  <1>2. ForeignHead \in Cells /\ ForeignHead.kind = "foreign"
    BY DEF Cells, ForeignHead
  <1>3. \A n \in Nat : FunctionCell(n) \in Cells /\ FunctionCell(n).kind = "function"
                       /\ FunctionCell(n).count = n
    BY DEF Cells, FunctionCell
  <1>4. \A s \in Summaries : ObjectCell(s) \in Cells /\ ObjectCell(s).kind = "object"
    BY DEF Cells, ObjectCell
  <1>5. \A crc \in Seq(Objects) : \A s \in Summaries :
          ProgramCell(crc, s) \in Cells /\ ProgramCell(crc, s).kind = "program"
    BY DEF Cells, ProgramCell
  <1>6. End \in Cells /\ End.kind = "end"
    BY DEF Cells, End
  <1>. QED
    BY <1>1, <1>2, <1>3, <1>4, <1>5, <1>6

\* The functions that InFile adds up.
Functional(f) == {j \in DOMAIN f : /\ f[j].kind = "function"
                                   /\ \A k \in 1..j : f[k].kind \in {"head", "function"}}

\* The counters of a file add up; those of a file without functions are none.
LEMMA InFileNat ==
  ASSUME NEW f \in Seq(Cells)
  PROVE  /\ InFile(f) \in Nat
         /\ Functional(f) = {} => InFile(f) = 0
  <1> DEFINE D == Functional(f)
             g == [i \in D |-> f[i].count]
  <1>1. InFile(f) = SumFunction(g)
    BY DEF InFile, Functional
  <1>2. Len(f) \in Nat /\ DOMAIN f = 1..Len(f)
    OBVIOUS
  <1>3. IsFiniteSet(DOMAIN f)
    BY <1>2, FS_Interval
  <1>4. IsFiniteSet(D)
    BY <1>3, FS_Subset DEF Functional
  <1>5. g \in [D -> Nat]
    BY CellFacts DEF Functional
  <1> HIDE DEF D, g
  <1>6. SumFunction(g) \in Nat /\ (D = {} => SumFunction(g) = 0)
    BY <1>4, <1>5, SumNat
  <1>. QED
    BY <1>1, <1>6 DEF D

\* The counters in a file that begins with its head and N functions.
LEMMA InFileCounts ==
  ASSUME NEW f \in Seq(Cells), NEW n \in Nat, n + 1 <= Len(f), f[1].kind = "head",
         \A k \in 1..n : f[k + 1].kind = "function",
         n + 2 <= Len(f) => f[n + 2].kind \notin {"head", "function"}
  PROVE  /\ [k \in 1..n |-> f[k + 1].count] \in [1..n -> Nat]
         /\ InFile(f) = SumFunction([k \in 1..n |-> f[k + 1].count])
  <1> DEFINE c == [k \in 1..n |-> f[k + 1].count]
  <1>1. Len(f) \in Nat /\ DOMAIN f = 1..Len(f) /\ \A i \in 1..Len(f) : f[i] \in Cells
    OBVIOUS
  <1>2. c \in [1..n -> Nat]
    BY <1>1, CellFacts
  <1>3. \A i \in 2..(n + 1) : f[i].kind = "function"
    <2> SUFFICES ASSUME NEW i \in 2..(n + 1) PROVE f[i].kind = "function"
      OBVIOUS
    <2>1. i - 1 \in 1..n /\ (i - 1) + 1 = i
      OBVIOUS
    <2>. QED
      BY <2>1
  <1>4. Functional(f) = 2..(n + 1)
    <2>1. ASSUME NEW j \in Functional(f) PROVE j \in 2..(n + 1)
      <3>1. j \in 1..Len(f) /\ f[j].kind = "function"
            /\ \A k \in 1..j : f[k].kind \in {"head", "function"}
        BY <1>1 DEF Functional
      <3>2. j # 1
        BY <3>1
      <3>3. ~(j >= n + 2)
        BY <3>1, <1>1
      <3>. QED
        BY <3>1, <3>2, <3>3
    <2>2. ASSUME NEW j \in 2..(n + 1) PROVE j \in Functional(f)
      <3>1. j \in DOMAIN f
        BY <1>1
      <3>2. \A k \in 1..j : f[k].kind \in {"head", "function"}
        <4> SUFFICES ASSUME NEW k \in 1..j PROVE f[k].kind \in {"head", "function"}
          OBVIOUS
        <4>1. k = 1 \/ k \in 2..(n + 1)
          OBVIOUS
        <4>. QED
          BY <4>1, <1>3
      <3>. QED
        BY <3>1, <3>2, <1>3 DEF Functional
    <2>. QED
      BY <2>1, <2>2
  <1>5. InFile(f) = SumFunction([i \in 2..(n + 1) |-> f[i].count])
    BY <1>4 DEF InFile, Functional
  <1>6. [i \in 2..(n + 1) |-> f[i].count] = [i \in 2..(n + 1) |-> c[i - 1]]
    <2>1. ASSUME NEW i \in 2..(n + 1) PROVE f[i].count = c[i - 1]
      <3>1. i - 1 \in 1..n /\ (i - 1) + 1 = i
        OBVIOUS
      <3>. QED
        BY <3>1
    <2>. QED
      BY <2>1
  <1> HIDE DEF c
  <1>7. SumFunction([i \in 2..(n + 1) |-> c[i - 1]]) = SumFunction(c)
    BY <1>2, SumShift
  <1>. QED
    BY <1>2, <1>5, <1>6, <1>7 DEF c

\* A file all of whose first cells are the ones wanted for the counters C.
LEMMA InFileFits ==
  ASSUME NEW f \in Seq(Cells), NEW c \in Seq(Nat), NEW stamp \in Nat, Len(c) + 2 <= Len(f),
         \A i \in 1..(Len(c) + 2) : Fits(f[i], i, stamp, c)
  PROVE  InFile(f) = SumFunction(c)
  <1> DEFINE n == Len(c)
             d == [k \in 1..n |-> f[k + 1].count]
  <1>1. n \in Nat /\ n + 2 <= Len(f) /\ \A k \in 1..n : c[k] \in Nat
    OBVIOUS
  <1>2. f[1].kind = "head"
    BY <1>1, CellsMade DEF Fits
  <1>3. ASSUME NEW k \in 1..n PROVE f[k + 1] = FunctionCell(c[k])
    <2>1. k + 1 \in 1..(n + 2) /\ k + 1 \in 2..(n + 1) /\ (k + 1) - 1 = k
      BY <1>1
    <2>. QED
      BY <2>1 DEF Fits
  <1>4. \A k \in 1..n : f[k + 1].kind = "function" /\ f[k + 1].count = c[k]
    BY <1>1, <1>3, CellsMade
  <1>5. f[n + 2].kind \notin {"head", "function"}
    <2>1. n + 2 \in 1..(Len(c) + 2)
      BY <1>1
    <2>. QED
      BY <2>1 DEF Fits
  <1>6. InFile(f) = SumFunction(d)
    <2>1. n + 1 <= Len(f) /\ \A k \in 1..n : f[k + 1].kind = "function"
      BY <1>1, <1>4
    <2> HIDE DEF n
    <2>. QED
      BY <2>1, <1>1, <1>2, <1>5, InFileCounts
  <1>7. d = c
    <2>1. c = [k \in 1..n |-> c[k]]
      OBVIOUS
    <2>. QED
      BY <2>1, <1>4
  <1> HIDE DEF d
  <1>. QED
    BY <1>6, <1>7

\* Writing a block that leaves no gap.
LEMMA OverwriteIs ==
  ASSUME NEW f \in Seq(Cells), NEW at \in Nat \ {0}, NEW cells \in Seq(Cells),
         \A i \in 1..(at - 1) : i \in 1..Len(f)
  PROVE  LET g == Overwrite(f, at, cells)
             e == at + Len(cells) - 1
         IN  /\ g \in Seq(Cells)
             /\ Len(g) = IF Len(f) >= e THEN Len(f) ELSE e
             /\ \A i \in at..e : g[i] = cells[i - at + 1]
             /\ \A i \in (1..Len(f)) \ (at..e) : g[i] = f[i]
  <1> DEFINE e == at + Len(cells) - 1
             m == Max({Len(f), e})
             g == Overwrite(f, at, cells)
  <1>1. Len(f) \in Nat /\ Len(cells) \in Nat /\ e \in Nat
        /\ (\A i \in 1..Len(f) : f[i] \in Cells) /\ \A i \in 1..Len(cells) : cells[i] \in Cells
    OBVIOUS
  <1>2. m \in Nat /\ m = IF Len(f) >= e THEN Len(f) ELSE e
    BY <1>1, MaxOfTwo
  <1>3. g = [j \in 1..m |-> IF j \in at..e THEN cells[j - at + 1] ELSE f[j]]
    BY DEF Overwrite
  <1> HIDE DEF m, g
  <1>4. ASSUME NEW j \in 1..m, j \notin at..e PROVE j \in 1..Len(f)
    <2>1. CASE j <= at - 1
      BY <2>1
    <2>2. CASE j > e
      BY <2>2, <1>1, <1>2
    <2>. QED
      BY <2>1, <2>2, <1>1, <1>2, <1>4
  <1>5. ASSUME NEW j \in at..e PROVE j - at + 1 \in 1..Len(cells)
    BY <1>1
  <1>6. \A j \in 1..m : g[j] \in Cells
    BY <1>1, <1>3, <1>4, <1>5
  <1>7. g \in Seq(Cells) /\ Len(g) = m
    <2>1. g = [j \in 1..m |-> g[j]]
      BY <1>3
    <2>2. g \in [1..m -> Cells]
      BY <2>1, <1>6
    <2>3. m \in Nat
      BY <1>2
    <2>. QED
      BY ONLY <2>2, <2>3
  <1>8. at..e \subseteq 1..m /\ 1..Len(f) \subseteq 1..m
    BY <1>1, <1>2
  <1>9. (\A i \in at..e : g[i] = cells[i - at + 1])
        /\ \A i \in (1..Len(f)) \ (at..e) : g[i] = f[i]
    BY <1>3, <1>8
  <1>. QED
    BY <1>2, <1>7, <1>9 DEF g

-----------------------------------------------------------------------------
(* The blocks of a file that is written anew *)

\* Multiples of the size of a block.
LEMMA Times ==
  ASSUME NEW a \in Int, NEW b \in Int, NEW s \in Nat \ {0}
  PROVE  /\ a * s < b * s => a < b
         /\ a <= b => a * s <= b * s
         /\ (a + 1) * s = a * s + s
         /\ a * s \in Int
  <1>1. a <= b => a * s <= b * s
    <2> SUFFICES ASSUME a <= b PROVE a * s <= b * s
      OBVIOUS
    <2>1. (b - a) * s >= 0
      OBVIOUS
    <2>2. (b - a) * s = b * s - a * s
      OBVIOUS
    <2>. QED
      BY <2>1, <2>2
  <1>2. b <= a => b * s <= a * s
    <2> SUFFICES ASSUME b <= a PROVE b * s <= a * s
      OBVIOUS
    <2>1. (a - b) * s >= 0
      OBVIOUS
    <2>2. (a - b) * s = a * s - b * s
      OBVIOUS
    <2>. QED
      BY <2>1, <2>2
  <1>3. a * s \in Int /\ b * s \in Int /\ (a + 1) * s = a * s + s
    OBVIOUS
  <1>. QED
    BY <1>1, <1>2, <1>3

\* Block B of M cells: it begins after (B - 1) * BlockSize cells.
Lo(b) == (b - 1) * BlockSize
Hi(b, m) == IF b * BlockSize <= m THEN b * BlockSize ELSE m
Count(m) == (m + BlockSize - 1) \div BlockSize

\* The first and the last cell of a block, and how many blocks there are.
LEMMA BlockBounds ==
  ASSUME NEW m \in Nat
  PROVE  /\ Count(m) \in Nat
         /\ \A b \in 1..Count(m) : /\ Lo(b) \in Nat /\ Hi(b, m) \in Nat
                                   /\ Lo(b) + 1 <= Hi(b, m) /\ Hi(b, m) <= m
                                   /\ b * BlockSize \in Nat
         /\ \A i \in 1..m : \E b \in 1..Count(m) : i \in (Lo(b) + 1)..Hi(b, m)
         /\ \A a, b \in 1..Count(m) : Lo(a) < Lo(b) => a < b
  <1> DEFINE s == BlockSize
             k == Count(m)
  <1>1. s \in Nat \ {0}
    BY GcovAssumption
  <1> HIDE DEF s
  <1>2. k = (m + s - 1) \div s
    BY DEF Count, s
  <1> HIDE DEF k
  <1>3. k \in Nat /\ k * s <= m + s - 1 /\ m <= k * s
    <2> DEFINE x == m + s - 1
               r == x % s
    <2>1. x \in Nat
      BY <1>1
    <2> HIDE DEF x
    <2>2. k = x \div s
      BY <1>2 DEF x
    <2>3. k \in Nat /\ r \in 0..(s - 1) /\ x = k * s + r
      BY <1>1, <2>1, <2>2
    <2> HIDE DEF r
    <2>4. k * s \in Int
      BY <1>1, <2>3
    <2>. QED
      BY <1>1, <2>1, <2>3, <2>4 DEF x
  <1>4. ASSUME NEW b \in 1..k
        PROVE  /\ (b - 1) * s \in Nat /\ b * s \in Nat /\ b * s = (b - 1) * s + s
               /\ (b - 1) * s <= m - 1
    <2>1. b \in Int /\ b - 1 \in Int /\ 0 <= b - 1 /\ b <= k
      BY <1>3
    <2>2. 0 * s = 0 /\ 0 * s <= (b - 1) * s
      BY <1>1, <2>1, Times
    <2>3. ((b - 1) + 1) * s = (b - 1) * s + s /\ (b - 1) * s \in Int
      BY <1>1, <2>1, Times
    <2>4. b * s <= k * s
      BY <1>1, <1>3, <2>1, Times
    <2>5. (b - 1) + 1 = b
      BY <2>1
    <2>6. b * s = (b - 1) * s + s
      BY <2>3, <2>5
    <2>. QED
      BY <1>1, <1>3, <2>2, <2>3, <2>4, <2>6
  <1>5. ASSUME NEW b \in 1..k
        PROVE  /\ Lo(b) \in Nat /\ Hi(b, m) \in Nat
               /\ Lo(b) + 1 <= Hi(b, m) /\ Hi(b, m) <= m /\ b * BlockSize \in Nat
    BY <1>1, <1>4 DEF Lo, Hi, s
  <1>6. ASSUME NEW i \in 1..m PROVE \E b \in 1..k : i \in (Lo(b) + 1)..Hi(b, m)
    <2> DEFINE q == (i - 1) \div s
               r == (i - 1) % s
    <2>1. q \in Nat /\ r \in 0..(s - 1) /\ i - 1 = q * s + r
      BY <1>1
    <2> HIDE DEF q, r
    <2>2. q * s \in Int /\ q * s < k * s
      BY <1>1, <1>3, <2>1, Times
    <2>3. q < k
      BY <1>1, <1>3, <2>1, <2>2, Times
    <2>4. q + 1 \in 1..k /\ (q + 1) - 1 = q
      BY <1>3, <2>1, <2>3
    <2>5. (q + 1) * s = q * s + s
      BY <1>1, <2>1, Times
    <2>6. Lo(q + 1) = q * s
      BY <2>4 DEF Lo, s
    <2>7. Hi(q + 1, m) = IF q * s + s <= m THEN q * s + s ELSE m
      BY <2>5 DEF Hi, s
    <2>8. i \in (Lo(q + 1) + 1)..Hi(q + 1, m)
      BY <1>1, <2>1, <2>2, <2>6, <2>7
    <2>. QED
      BY <2>4, <2>8
  <1>7. ASSUME NEW a \in 1..k, NEW b \in 1..k, Lo(a) < Lo(b) PROVE a < b
    <2>1. a - 1 \in Int /\ b - 1 \in Int /\ (a - 1) * s < (b - 1) * s
      BY <1>7 DEF Lo, s
    <2>2. a - 1 < b - 1
      BY <1>1, <2>1, Times
    <2>. QED
      BY <2>2
  <1>. QED
    BY <1>3, <1>5, <1>6, <1>7 DEF k

\* What gcov_write_words cuts a sequence of cells into covers it without gaps.
LEMMA BlocksCover ==
  ASSUME NEW cells \in Seq(Cells)
  PROVE  LET B == Blocks(1, cells)
         IN  /\ B \in Seq(BlockSet)
             /\ \A b \in 1..Len(B) : \A i \in Extent(B[b]) :
                  i \in 1..Len(cells) /\ B[b].cells[i - B[b].at + 1] = cells[i]
             /\ \A i \in 1..Len(cells) : \E b \in 1..Len(B) : i \in Extent(B[b])
             /\ \A b \in 1..Len(B) : \A i \in 1..(B[b].at - 1) :
                  \E a \in 1..(b - 1) : i \in Extent(B[a])
  <1> DEFINE B == Blocks(1, cells)
             m == Len(cells)
             k == Count(m)
             Block(b) == [at |-> Lo(b) + 1, cells |-> SubSeq(cells, Lo(b) + 1, Hi(b, m))]
  <1>1. m \in Nat /\ cells \in [1..m -> Cells]
    OBVIOUS
  <1>2. k \in Nat
    BY <1>1, BlockBounds
  <1>3. ASSUME NEW b \in 1..k
        PROVE  /\ Lo(b) \in Nat /\ Hi(b, m) \in Nat
               /\ Lo(b) + 1 <= Hi(b, m) /\ Hi(b, m) <= m /\ b * BlockSize \in Nat
    BY <1>1, BlockBounds
  <1>4. \A b \in 1..k : Min({b * BlockSize, m}) = Hi(b, m)
    <2> SUFFICES ASSUME NEW b \in 1..k PROVE Min({b * BlockSize, m}) = Hi(b, m)
      OBVIOUS
    <2>1. b * BlockSize \in Nat
      BY <1>3
    <2>. QED
      BY <1>1, <2>1, MaxOfTwo DEF Hi
  <1>5. \A b \in 1..k : 1 + (b - 1) * BlockSize = Lo(b) + 1 /\ (b - 1) * BlockSize + 1 = Lo(b) + 1
    <2> SUFFICES ASSUME NEW b \in 1..k
                 PROVE  1 + (b - 1) * BlockSize = Lo(b) + 1 /\ (b - 1) * BlockSize + 1 = Lo(b) + 1
      OBVIOUS
    <2>1. Lo(b) \in Nat
      BY <1>3
    <2>. QED
      BY <2>1 DEF Lo
  <1>6. B = [b \in 1..k |-> Block(b)]
    <2>1. B = [b \in 1..k |-> [at |-> 1 + (b - 1) * BlockSize,
                               cells |-> SubSeq(cells, (b - 1) * BlockSize + 1,
                                                Min({b * BlockSize, m}))]]
      BY DEF Blocks, Count
    <2>. QED
      BY <2>1, <1>4, <1>5
  <1> HIDE DEF B, k, m
  <1>7. ASSUME NEW b \in 1..k
        PROVE  /\ Block(b) \in BlockSet
               /\ Extent(Block(b)) = (Lo(b) + 1)..Hi(b, m)
               /\ Block(b).at = Lo(b) + 1
               /\ \A i \in (Lo(b) + 1)..Hi(b, m) : Block(b).cells[i - (Lo(b) + 1) + 1] = cells[i]
    <2> DEFINE l == Lo(b)
               h == Hi(b, m)
               sub == SubSeq(cells, l + 1, h)
    <2>1. l \in Nat /\ h \in Nat /\ l + 1 <= h /\ h <= m
      BY <1>3
    <2> HIDE DEF l, h
    <2>2. sub \in Seq(Cells) /\ Len(sub) = h - l /\ \A j \in 1..(h - l) : sub[j] = cells[l + j]
      BY <1>1, <2>1 DEF m
    <2> HIDE DEF sub
    <2>3. Block(b) = [at |-> l + 1, cells |-> sub]
      BY DEF l, h, sub
    <2> HIDE DEF Block
    <2>4. Block(b).at = l + 1 /\ Block(b).cells = sub /\ Block(b) \in BlockSet
      BY <2>1, <2>2, <2>3 DEF BlockSet
    <2>5. Extent(Block(b)) = (l + 1)..h
      BY <2>1, <2>2, <2>4 DEF Extent
    <2>6. ASSUME NEW i \in (l + 1)..h PROVE sub[i - (l + 1) + 1] = cells[i]
      <3>1. i - (l + 1) + 1 \in 1..(h - l) /\ l + (i - (l + 1) + 1) = i
        BY <2>1
      <3>. QED
        BY <2>2, <3>1
    <2>. QED
      BY <2>4, <2>5, <2>6 DEF l, h
  <1> HIDE DEF Block
  <1>8. B \in Seq(BlockSet) /\ Len(B) = k /\ \A b \in 1..k : B[b] = Block(b)
    BY <1>2, <1>6, <1>7
  <1>9. ASSUME NEW b \in 1..k, NEW i \in Extent(B[b])
        PROVE  i \in 1..m /\ B[b].cells[i - B[b].at + 1] = cells[i]
    <2>1. B[b] = Block(b) /\ B[b].at = Lo(b) + 1 /\ i \in (Lo(b) + 1)..Hi(b, m)
      BY <1>7, <1>8
    <2>2. i \in 1..m
      BY <2>1, <1>1, <1>3
    <2>3. Block(b).cells[i - (Lo(b) + 1) + 1] = cells[i]
      BY <2>1, <1>7
    <2>. QED
      BY <2>1, <2>2, <2>3
  <1>10. ASSUME NEW i \in 1..m PROVE \E b \in 1..k : i \in Extent(B[b])
    <2>1. PICK b \in 1..k : i \in (Lo(b) + 1)..Hi(b, m)
      BY <1>1, BlockBounds DEF k
    <2>. QED
      BY <2>1, <1>7, <1>8
  <1>11. ASSUME NEW b \in 1..k, NEW i \in 1..(B[b].at - 1)
         PROVE  \E a \in 1..(b - 1) : i \in Extent(B[a])
    <2>1. i <= Lo(b) /\ Lo(b) \in Nat /\ i \in 1..m
      BY <1>1, <1>3, <1>7, <1>8
    <2>2. PICK a \in 1..k : i \in (Lo(a) + 1)..Hi(a, m)
      BY <1>1, <2>1, BlockBounds DEF k
    <2>3. Lo(a) \in Nat /\ Lo(a) < Lo(b)
      BY <1>3, <2>1, <2>2
    <2>4. a < b
      BY <1>1, <2>3, BlockBounds DEF k
    <2>5. a \in 1..(b - 1)
      BY <1>2, <2>4
    <2>6. i \in Extent(B[a])
      BY <2>2, <1>7, <1>8
    <2>. QED
      BY <2>5, <2>6
  <1>. QED
    BY <1>8, <1>9, <1>10, <1>11 DEF B, m

\* The head, the functions and the summary of the object, as they are written.
Data(stamp, c, obj) ==
  <<FileHead(stamp)>> \o [k \in DOMAIN c |-> FunctionCell(c[k])] \o <<ObjectCell(obj)>>

\* The head, the functions and the summary are where they belong.
LEMMA DataFits ==
  ASSUME NEW stamp \in Nat, NEW c \in Seq(Nat), NEW obj \in Summaries
  PROVE  /\ Data(stamp, c, obj) \in Seq(Cells)
         /\ Len(Data(stamp, c, obj)) = Len(c) + 2
         /\ \A i \in 1..(Len(c) + 2) : Fits(Data(stamp, c, obj)[i], i, stamp, c)
         /\ Data(stamp, c, obj)[Len(c) + 2] = ObjectCell(obj)
  <1> DEFINE n == Len(c)
             h == FileHead(stamp)
             fs == [k \in DOMAIN c |-> FunctionCell(c[k])]
             e == ObjectCell(obj)
             d == Data(stamp, c, obj)
  <1>1. n \in Nat /\ DOMAIN c = 1..n /\ \A k \in 1..n : c[k] \in Nat
    OBVIOUS
  <1>2. h \in Cells /\ e \in Cells /\ e.kind = "object"
    BY CellsMade
  <1>3. fs \in [1..n -> Cells] /\ \A k \in 1..n : fs[k] = FunctionCell(c[k])
    BY <1>1, CellsMade
  <1>4. d = <<h>> \o fs \o <<e>>
    BY DEF Data
  <1> HIDE DEF n, h, fs, e, d
  <1>5. fs \in Seq(Cells) /\ Len(fs) = n
    BY <1>1, <1>3
  <1> DEFINE u == <<h>> \o fs
  <1>6. u \in Seq(Cells) /\ Len(u) = n + 1 /\ u[1] = h /\ \A i \in 2..(n + 1) : u[i] = fs[i - 1]
    BY <1>1, <1>2, <1>5
  <1> HIDE DEF u
  <1>7. d = u \o <<e>>
    BY <1>4 DEF u
  <1>8. d \in Seq(Cells) /\ Len(d) = n + 2 /\ d[n + 2] = e /\ \A i \in 1..(n + 1) : d[i] = u[i]
    BY <1>1, <1>2, <1>6, <1>7
  <1>9. ASSUME NEW i \in 1..(n + 2) PROVE Fits(d[i], i, stamp, c)
    <2>1. i = 1 => d[i] = h
      BY <1>1, <1>6, <1>8
    <2>2. ASSUME i \in 2..(n + 1) PROVE d[i] = FunctionCell(c[i - 1])
      <3>1. i - 1 \in 1..n /\ i \in 1..(n + 1)
        BY <1>1, <2>2
      <3>. QED
        BY <2>2, <3>1, <1>3, <1>6, <1>8
    <2>3. i = n + 2 => d[i].kind \notin {"head", "function"}
      BY <1>2, <1>8
    <2>. QED
      BY <2>1, <2>2, <2>3 DEF Fits, n, h
  <1>. QED
    BY <1>8, <1>9 DEF n, d, e

\* A file that is written anew: its blocks bring the head, the counters and a
\* summary, and the summary of the program does not get in their way.
LEMMA NewPlanned ==
  ASSUME NEW f \in Seq(Cells), NEW stamp \in Nat, NEW c \in Seq(Nat), NEW crc \in Seq(Objects),
         NEW obj \in Summaries, NEW prg \in Summaries, NEW pos \in Nat, NEW own,
         pos = 0 \/ (Len(c) + 2 <= pos /\ pos <= Len(f) + 1)
  PROVE  LET B == NewBlocks(stamp, c, crc, obj, prg, pos, own)
         IN  B \in Seq(BlockSet) /\ B # <<>> /\ Planned(f, B, pos, stamp, c)
  <1> DEFINE n == Len(c)
             d == Data(stamp, c, obj)
             rest == <<ProgramCell(crc, prg)>> \o (IF own THEN <<>> ELSE <<End>>)
             B == NewBlocks(stamp, c, crc, obj, prg, pos, own)
  <1>1. n \in Nat /\ d \in Seq(Cells) /\ Len(d) = n + 2
        /\ \A i \in 1..(n + 2) : Fits(d[i], i, stamp, c)
    BY DataFits
  <1>2. rest \in Seq(Cells) /\ Len(rest) \in 1..2 /\ rest[1].kind = "program"
    BY CellsMade
  <1>3. B = IF pos = 0 THEN Blocks(1, d \o rest)
            ELSE Blocks(1, d) \o <<[at |-> pos, cells |-> rest]>>
    BY DEF NewBlocks, Data
  <1>4. \A cell : \A i \in Nat : i > n + 2 => Fits(cell, i, stamp, c)
    BY <1>1 DEF Fits
  <1> HIDE DEF n, d, rest, B
  <1>5. CASE pos = 0
    <2> DEFINE all == d \o rest
    <2>1. all \in Seq(Cells) /\ Len(all) \in Nat /\ Len(all) >= n + 2
          /\ \A i \in 1..(n + 2) : all[i] = d[i]
      BY <1>1, <1>2
    <2> HIDE DEF all
    <2>2. \A i \in 1..Len(all) : Fits(all[i], i, stamp, c)
      <3> SUFFICES ASSUME NEW i \in 1..Len(all) PROVE Fits(all[i], i, stamp, c)
        OBVIOUS
      <3>1. CASE i \in 1..(n + 2)
        BY <3>1, <1>1, <2>1
      <3>2. CASE i \notin 1..(n + 2)
        BY <3>2, <1>1, <1>4, <2>1
      <3>. QED
        BY <3>1, <3>2
    <2>3. B = Blocks(1, all)
      BY <1>3, <1>5 DEF all
    <2>4. /\ B \in Seq(BlockSet)
          /\ \A b \in 1..Len(B) : \A i \in Extent(B[b]) :
               i \in 1..Len(all) /\ B[b].cells[i - B[b].at + 1] = all[i]
          /\ \A i \in 1..Len(all) : \E b \in 1..Len(B) : i \in Extent(B[b])
          /\ \A b \in 1..Len(B) : \A i \in 1..(B[b].at - 1) :
               \E a \in 1..(b - 1) : i \in Extent(B[a])
      BY <2>1, <2>3, BlocksCover
    <2>5. DataBlocks(B, pos) = Len(B)
      BY <1>5 DEF DataBlocks
    <2>6. B # <<>>
      <3>1. 1 \in 1..Len(all)
        BY <2>1, <1>1
      <3>. QED
        BY <3>1, <2>4
    <2>7. \A b \in 1..Len(B) : \A i \in Extent(B[b]) :
            Fits(B[b].cells[i - B[b].at + 1], i, stamp, c)
      BY <2>2, <2>4
    <2>8. \A i \in 1..(n + 2) : \E b \in 1..DataBlocks(B, pos) : i \in Extent(B[b])
      <3>1. 1..(n + 2) \subseteq 1..Len(all)
        BY <1>1, <2>1
      <3>. QED
        BY <3>1, <2>4, <2>5
    <2>9. Planned(f, B, pos, stamp, c)
      BY <2>4, <2>7, <2>8 DEF Planned, n
    <2>. QED
      BY <2>4, <2>6, <2>9 DEF B
  <1>6. CASE pos # 0
    <2> DEFINE A == Blocks(1, d)
               k == Len(A)
               last == [at |-> pos, cells |-> rest]
    <2>1. /\ A \in Seq(BlockSet)
          /\ \A b \in 1..Len(A) : \A i \in Extent(A[b]) :
               i \in 1..Len(d) /\ A[b].cells[i - A[b].at + 1] = d[i]
          /\ \A i \in 1..Len(d) : \E b \in 1..Len(A) : i \in Extent(A[b])
          /\ \A b \in 1..Len(A) : \A i \in 1..(A[b].at - 1) :
               \E a \in 1..(b - 1) : i \in Extent(A[a])
      BY <1>1, BlocksCover
    <2> HIDE DEF A
    <2>2. last \in BlockSet /\ last.at = pos /\ last.cells = rest
      BY <1>2, <1>6 DEF BlockSet
    <2>3. B = A \o <<last>>
      BY <1>3, <1>6 DEF A
    <2> HIDE DEF last
    <2>4. /\ B \in Seq(BlockSet) /\ Len(B) = k + 1 /\ k \in Nat /\ B[k + 1] = last
          /\ \A b \in 1..k : B[b] = A[b]
      BY <2>1, <2>2, <2>3
    <2> HIDE DEF k
    <2>5. DataBlocks(B, pos) = k
      BY <1>6, <2>4 DEF DataBlocks
    <2>6. Len(c) + 2 <= pos /\ pos <= Len(f) + 1 /\ Len(f) \in Nat
      BY <1>6
    <2>7. ASSUME NEW i \in Extent(last) PROVE Fits(last.cells[i - last.at + 1], i, stamp, c)
      <3>1. i \in Nat /\ pos <= i
        BY <1>2, <2>2 DEF Extent
      <3>2. CASE i = n + 2
        <4>1. i = pos /\ i - last.at + 1 = 1
          BY <3>1, <3>2, <2>2, <2>6, <1>1 DEF n
        <4>2. last.cells[i - last.at + 1].kind = "program"
          BY <4>1, <2>2, <1>2
        <4>. QED
          BY <4>2, <3>2, <1>1 DEF Fits, n
      <3>3. CASE i # n + 2
        BY <3>1, <3>3, <2>6, <1>1, <1>4 DEF n
      <3>. QED
        BY <3>2, <3>3
    <2>8. ASSUME NEW b \in 1..Len(B), NEW i \in Extent(B[b])
          PROVE  Fits(B[b].cells[i - B[b].at + 1], i, stamp, c)
      <3>1. CASE b = k + 1
        BY <3>1, <2>4, <2>7
      <3>2. CASE b \in 1..k
        <4>1. B[b] = A[b] /\ i \in 1..(n + 2) /\ A[b].cells[i - A[b].at + 1] = d[i]
          BY <3>2, <2>1, <2>4, <1>1 DEF k
        <4>. QED
          BY <4>1, <1>1
      <3>. QED
        BY <3>1, <3>2, <2>4
    <2>9. ASSUME NEW i \in 1..(n + 2) PROVE \E b \in 1..DataBlocks(B, pos) : i \in Extent(B[b])
      <3>1. PICK b \in 1..k : i \in Extent(A[b])
        BY <1>1, <2>1 DEF k
      <3>. QED
        BY <3>1, <2>4, <2>5
    <2>10. ASSUME NEW b \in 1..Len(B), NEW i \in 1..(B[b].at - 1)
           PROVE  i \in 1..Len(f) \/ \E a \in 1..(b - 1) : i \in Extent(B[a])
      <3>1. CASE b = k + 1
        <4>1. i \in 1..(pos - 1)
          BY <3>1, <2>2, <2>4
        <4>. QED
          BY <4>1, <2>6
      <3>2. CASE b \in 1..k
        <4>1. PICK a \in 1..(b - 1) : i \in Extent(A[a])
          BY <3>2, <2>1, <2>4 DEF k
        <4>2. a \in 1..k
          BY <3>2, <2>4
        <4>. QED
          BY <4>1, <4>2, <2>4
      <3>. QED
        BY <3>1, <3>2, <2>4
    <2>11. B # <<>>
      BY <2>4
    <2>12. Planned(f, B, pos, stamp, c)
      BY <2>8, <2>9, <2>10 DEF Planned, n
    <2>. QED
      BY <2>4, <2>11, <2>12 DEF B
  <1>. QED
    BY <1>5, <1>6

\* Writing the first of the blocks.
LEMMA PlannedWrite ==
  ASSUME NEW f \in Seq(Cells), NEW pend \in Seq(BlockSet), pend # <<>>, NEW eof \in Nat,
         NEW stamp, NEW c \in Seq(Nat), Planned(f, pend, eof, stamp, c)
  PROVE  LET g == Overwrite(f, pend[1].at, pend[1].cells)
         IN  g \in Seq(Cells) /\ Planned(g, Tail(pend), eof, stamp, c)
  <1> DEFINE k == pend[1]
             g == Overwrite(f, k.at, k.cells)
             rest == Tail(pend)
  <1>1. /\ Len(pend) \in Nat \ {0} /\ Len(rest) = Len(pend) - 1 /\ Len(c) \in Nat /\ Len(f) \in Nat
        /\ \A b \in 1..(Len(pend) - 1) : rest[b] = pend[b + 1]
        /\ k \in BlockSet
    OBVIOUS
  <1>2. k.at \in Nat \ {0} /\ k.cells \in Seq(Cells) /\ Len(k.cells) \in Nat
    BY <1>1 DEF BlockSet
  <1>3. \A b \in 1..Len(pend) : \A i \in Extent(pend[b]) :
          Fits(pend[b].cells[i - pend[b].at + 1], i, stamp, c)
    BY DEF Planned
  <1>4. \A i \in 1..(Len(c) + 2) :
          \/ i \in 1..Len(f) /\ Fits(f[i], i, stamp, c)
          \/ \E b \in 1..DataBlocks(pend, eof) : i \in Extent(pend[b])
    BY DEF Planned
  <1>5. \A b \in 1..Len(pend) : \A i \in 1..(pend[b].at - 1) :
          i \in 1..Len(f) \/ \E a \in 1..(b - 1) : i \in Extent(pend[a])
    BY DEF Planned
  <1>6. \A i \in 1..(k.at - 1) : i \in 1..Len(f)
    <2>1. 1 \in 1..Len(pend) /\ 1..(1 - 1) = {}
      BY <1>1
    <2>. QED
      BY <1>5, <2>1
  <1> HIDE DEF g
  <1>7. /\ g \in Seq(Cells)
        /\ Len(g) = IF Len(f) >= k.at + Len(k.cells) - 1 THEN Len(f) ELSE k.at + Len(k.cells) - 1
        /\ \A i \in Extent(k) : g[i] = k.cells[i - k.at + 1]
        /\ \A i \in (1..Len(f)) \ Extent(k) : g[i] = f[i]
    BY <1>2, <1>6, OverwriteIs DEF Extent, g
  <1>8. Extent(k) \subseteq 1..Len(g) /\ 1..Len(f) \subseteq 1..Len(g)
    <2> DEFINE e == k.at + Len(k.cells) - 1
    <2>1. Extent(k) = k.at..e /\ e \in Int
      BY <1>2 DEF Extent
    <2>2. Len(g) = IF Len(f) >= e THEN Len(f) ELSE e
      BY <1>7
    <2> HIDE DEF e
    <2>. QED
      BY <2>1, <2>2, <1>1, <1>2
  <1> HIDE DEF rest
  <1>9. ASSUME NEW b \in 1..Len(rest), NEW i \in Extent(rest[b])
        PROVE  Fits(rest[b].cells[i - rest[b].at + 1], i, stamp, c)
    <2>1. b + 1 \in 1..Len(pend) /\ rest[b] = pend[b + 1]
      BY <1>1
    <2>. QED
      BY <2>1, <1>3
  <1>10. ASSUME NEW i \in 1..(Len(c) + 2)
         PROVE  \/ i \in 1..Len(g) /\ Fits(g[i], i, stamp, c)
                \/ \E b \in 1..DataBlocks(rest, eof) : i \in Extent(rest[b])
    <2>1. CASE i \in Extent(k)
      <3>1. 1 \in 1..Len(pend)
        BY <1>1
      <3>2. Fits(k.cells[i - k.at + 1], i, stamp, c)
        BY <2>1, <3>1, <1>3
      <3>. QED
        BY <2>1, <3>2, <1>7, <1>8
    <2>2. CASE i \notin Extent(k) /\ i \in 1..Len(f) /\ Fits(f[i], i, stamp, c)
      BY <2>2, <1>7, <1>8
    <2>3. CASE i \notin Extent(k) /\ \E b \in 1..DataBlocks(pend, eof) : i \in Extent(pend[b])
      <3>1. PICK b \in 1..DataBlocks(pend, eof) : i \in Extent(pend[b])
        BY <2>3
      <3>2. b # 1
        BY <2>3, <3>1
      <3>3. b - 1 \in 1..DataBlocks(rest, eof) /\ b - 1 \in 1..(Len(pend) - 1) /\ (b - 1) + 1 = b
        BY <3>2, <1>1 DEF DataBlocks
      <3>4. rest[b - 1] = pend[b]
        BY <3>3, <1>1
      <3>. QED
        BY <3>1, <3>3, <3>4
    <2>. QED
      BY <2>1, <2>2, <2>3, <1>4
  <1>11. ASSUME NEW b \in 1..Len(rest), NEW i \in 1..(rest[b].at - 1)
         PROVE  i \in 1..Len(g) \/ \E a \in 1..(b - 1) : i \in Extent(rest[a])
    <2>1. b + 1 \in 1..Len(pend) /\ rest[b] = pend[b + 1] /\ (b + 1) - 1 = b
      BY <1>1
    <2>2. CASE i \in 1..Len(f)
      BY <2>2, <1>8
    <2>3. CASE \E a \in 1..b : i \in Extent(pend[a])
      <3>1. PICK a \in 1..b : i \in Extent(pend[a])
        BY <2>3
      <3>2. CASE a = 1
        BY <3>1, <3>2, <1>8
      <3>3. CASE a # 1
        <4>1. a - 1 \in 1..(b - 1) /\ a - 1 \in 1..(Len(pend) - 1) /\ (a - 1) + 1 = a
          BY <3>3, <1>1
        <4>2. rest[a - 1] = pend[a]
          BY <4>1, <1>1
        <4>. QED
          BY <3>1, <4>1, <4>2
      <3>. QED
        BY <3>2, <3>3
    <2>. QED
      BY <2>1, <2>2, <2>3, <1>5
  <1>12. Planned(g, rest, eof, stamp, c)
    BY <1>9, <1>10, <1>11 DEF Planned
  <1>. QED
    BY <1>7, <1>12 DEF g, rest

\* The counters are in the file when the blocks that hold them are written.
LEMMA PlannedDone ==
  ASSUME NEW f \in Seq(Cells), NEW pend \in Seq(BlockSet), NEW eof \in Nat,
         NEW stamp \in Nat, NEW c \in Seq(Nat), Planned(f, pend, eof, stamp, c),
         pend = <<>> \/ (eof # 0 /\ Len(pend) <= 1)
  PROVE  InFile(f) = SumFunction(c)
  <1>1. 1..DataBlocks(pend, eof) = {}
    <2>1. Len(pend) \in Nat /\ (pend = <<>> => Len(pend) = 0)
      OBVIOUS
    <2>2. DataBlocks(pend, eof) \in Int /\ DataBlocks(pend, eof) <= 0
      BY <2>1 DEF DataBlocks
    <2>. QED
      BY <2>2
  <1>2. \A i \in 1..(Len(c) + 2) : i \in 1..Len(f) /\ Fits(f[i], i, stamp, c)
    BY <1>1 DEF Planned
  <1>3. Len(c) \in Nat /\ Len(f) \in Nat /\ Len(c) + 2 \in 1..(Len(c) + 2)
    OBVIOUS
  <1>4. Len(c) + 2 <= Len(f)
    BY <1>2, <1>3
  <1>. QED
    BY <1>2, <1>4, InFileFits

-----------------------------------------------------------------------------
(* What is read from a file *)

\* A cell of a kind that ends no file is in the file.
LEMMA CellIn ==
  ASSUME NEW f \in Seq(Cells), NEW i \in Nat \ {0}
  PROVE  /\ Cell(f, i) \in Cells
         /\ Cell(f, i).kind # "end" => i \in 1..Len(f) /\ Cell(f, i) = f[i]
         /\ i \in 1..Len(f) => Cell(f, i) = f[i]
  <1>1. DOMAIN f = 1..Len(f) /\ \A j \in 1..Len(f) : f[j] \in Cells
    OBVIOUS
  <1>. QED
    BY <1>1, CellsMade DEF Cell

\* The scan of the summaries stops, at the latest after the last cell.
LEMMA ScanStops ==
  ASSUME NEW f \in Seq(Cells), NEW n \in Nat, n + 1 <= Len(f), NEW crc
  PROVE  /\ ScanStop(f, crc, n) \in (n + 2)..(Len(f) + 1)
         /\ ScanEnds(f, crc, ScanStop(f, crc, n))
         /\ \A j \in (n + 2)..(ScanStop(f, crc, n) - 1) : ~ScanEnds(f, crc, j)
  <1> DEFINE S == {i \in (n + 2)..(Len(f) + 1) : ScanEnds(f, crc, i)}
  <1>1. Len(f) \in Nat /\ DOMAIN f = 1..Len(f) /\ Len(f) + 1 \in (n + 2)..(Len(f) + 1)
    OBVIOUS
  <1>2. ScanEnds(f, crc, Len(f) + 1)
    BY <1>1, CellsMade DEF ScanEnds, Cell
  <1>3. S \subseteq Nat /\ S # {}
    BY <1>1, <1>2
  <1>4. PICK i \in S : \A k \in S : i <= k
    BY <1>3, Least
  <1>5. i \in (n + 2)..(Len(f) + 1) /\ ScanEnds(f, crc, i)
    BY <1>4
  <1>6. ASSUME NEW j \in (n + 2)..(i - 1), ScanEnds(f, crc, j) PROVE FALSE
    <2>1. j \in (n + 2)..(Len(f) + 1) /\ j < i
      BY <1>5, <1>1
    <2>2. j \in S
      BY <2>1, <1>6
    <2>. QED
      BY <2>1, <2>2, <1>4
  <1> DEFINE P(k) == ScanEnds(f, crc, k) /\ \A j \in (n + 2)..(k - 1) : ~ScanEnds(f, crc, j)
  <1>7. \E k \in (n + 2)..(Len(f) + 1) : P(k)
    BY <1>5, <1>6
  <1>8. ScanStop(f, crc, n) = CHOOSE k \in (n + 2)..(Len(f) + 1) : P(k)
    BY DEF ScanStop
  <1> HIDE DEF P
  <1>9. ScanStop(f, crc, n) \in (n + 2)..(Len(f) + 1) /\ P(ScanStop(f, crc, n))
    BY <1>7, <1>8
  <1>. QED
    BY <1>9 DEF P

\* The summary of the object that is found in a file, or none.
LEMMA ObjectFoundType ==
  ASSUME NEW f \in Seq(Cells), NEW n \in Nat, NEW stop \in (n + 2)..(Len(f) + 1)
  PROVE  ObjectFound(f, n, stop) \in Summaries
  <1> DEFINE found == {j \in (n + 2)..(stop - 1) : f[j].kind = "object"}
  <1>1. Len(f) \in Nat /\ found \subseteq 1..Len(f) /\ \A j \in 1..Len(f) : f[j] \in Cells
    OBVIOUS
  <1>2. ObjectFound(f, n, stop) = IF found = {} THEN NoSummary ELSE f[Max(found)].sum
    BY DEF ObjectFound
  <1>3. ASSUME found # {} PROVE f[Max(found)].sum \in Summaries
    <2>1. Max(found) \in found
      <3>1. found \subseteq Nat /\ \A y \in found : y <= Len(f)
        BY <1>1
      <3> HIDE DEF found
      <3>. QED
        BY <3>1, <1>1, <1>3, MaxIs
    <2>2. f[Max(found)].kind = "object" /\ f[Max(found)] \in Cells
      BY <1>1, <2>1
    <2>. QED
      BY <2>2, CellFacts
  <1>. QED
    BY <1>2, <1>3, NoSummaryType

\* __gcov_merge_add: the counters of the file are added to those in memory, as
\* far as they are there.
There(f, n) == {k \in 1..n : \A i \in 1..k : Cell(f, i + 1).kind = "function"}
MergedCounts(f, c) ==
  [k \in 1..Len(c) |-> IF k \in There(f, Len(c)) THEN c[k] + f[k + 1].count ELSE c[k]]

\* The functions that are read are in the file.
LEMMA ThereIn ==
  ASSUME NEW f \in Seq(Cells), NEW n \in Nat, NEW k \in There(f, n)
  PROVE  k \in 1..n /\ k + 1 \in 1..Len(f) /\ f[k + 1].kind = "function" /\ f[k + 1].count \in Nat
  <1>1. k \in 1..n /\ k \in 1..k /\ k + 1 \in Nat \ {0}
    BY DEF There
  <1>2. Cell(f, k + 1).kind = "function"
    BY <1>1 DEF There
  <1>3. k + 1 \in 1..Len(f) /\ f[k + 1].kind = "function"
    BY <1>1, <1>2, CellIn
  <1>4. f[k + 1] \in Cells
    BY <1>3
  <1>. QED
    BY <1>1, <1>3, <1>4, CellFacts

\* The merged counters are as many as before.
LEMMA MergedCountsType ==
  ASSUME NEW f \in Seq(Cells), NEW c \in Seq(Nat)
  PROVE  MergedCounts(f, c) \in Seq(Nat) /\ Len(MergedCounts(f, c)) = Len(c)
  <1> DEFINE n == Len(c)
             g == MergedCounts(f, c)
  <1>1. n \in Nat /\ \A k \in 1..n : c[k] \in Nat
    OBVIOUS
  <1>2. g = [k \in 1..n |-> IF k \in There(f, n) THEN c[k] + f[k + 1].count ELSE c[k]]
    BY DEF MergedCounts
  <1> HIDE DEF n, g
  <1>3. \A k \in 1..n : g[k] \in Nat
    BY <1>1, <1>2, ThereIn
  <1>4. g \in [1..n -> Nat]
    <2>1. g = [k \in 1..n |-> g[k]]
      BY <1>2
    <2>. QED
      BY <2>1, <1>3
  <1>5. g \in Seq(Nat) /\ Len(g) = n
    BY <1>1, <1>4
  <1>. QED
    BY <1>5 DEF n, g

\* Merging adds what is in the file, if all functions are there.
LEMMA MergedSum ==
  ASSUME NEW f \in Seq(Cells), NEW c \in Seq(Nat), NEW crc,
         Cell(f, 1).kind = "head", There(f, Len(c)) = 1..Len(c), Len(c) > 0,
         Cell(f, ScanStop(f, crc, Len(c))).kind \in {"end", "program"}
  PROVE  /\ SumFunction(MergedCounts(f, c)) = SumFunction(c) + InFile(f)
         /\ Len(c) + 1 <= Len(f)
  <1> DEFINE n == Len(c)
             d == [k \in 1..n |-> f[k + 1].count]
             stop == ScanStop(f, crc, n)
  <1>1. n \in Nat \ {0} /\ c \in [1..n -> Nat] /\ Len(f) \in Nat
    OBVIOUS
  <1>2. \A k \in 1..n : k + 1 \in 1..Len(f) /\ f[k + 1].kind = "function"
    <2>1. There(f, n) = 1..n
      OBVIOUS
    <2>. QED
      BY <2>1, <1>1, ThereIn
  <1>3. n + 1 <= Len(f) /\ f[1].kind = "head"
    <2>1. n \in 1..n
      BY <1>1
    <2>2. n + 1 \in 1..Len(f)
      BY <1>2, <2>1
    <2>3. 1 \in Nat \ {0} /\ 1 \in 1..Len(f)
      BY <1>1, <2>2
    <2>. QED
      BY <1>1, <2>2, <2>3, CellIn
  <1>4. stop \in (n + 2)..(Len(f) + 1) /\ \A j \in (n + 2)..(stop - 1) : ~ScanEnds(f, crc, j)
    BY <1>1, <1>3, ScanStops
  <1>5. Cell(f, stop).kind \in {"end", "program"}
    OBVIOUS
  <1> HIDE DEF stop
  <1>6. ASSUME n + 2 <= Len(f) PROVE f[n + 2].kind \notin {"head", "function"}
    <2>1. Cell(f, n + 2) = f[n + 2]
      <3>1. n + 2 \in Nat \ {0} /\ n + 2 \in 1..Len(f)
        BY <1>1, <1>6
      <3>. QED
        BY <3>1, CellIn
    <2>2. CASE stop = n + 2
      BY <2>1, <2>2, <1>5
    <2>3. CASE stop # n + 2
      <3>1. n + 2 \in (n + 2)..(stop - 1)
        BY <2>3, <1>1, <1>4
      <3>2. ~ScanEnds(f, crc, n + 2)
        BY <3>1, <1>4
      <3>. QED
        BY <3>2, <2>1 DEF ScanEnds
    <2>. QED
      BY <2>2, <2>3
  <1>7. d \in [1..n -> Nat] /\ InFile(f) = SumFunction(d)
    <2>1. n \in Nat /\ \A k \in 1..n : f[k + 1].kind = "function"
      BY <1>1, <1>2
    <2> HIDE DEF n
    <2>. QED
      BY <2>1, <1>3, <1>6, InFileCounts
  <1>8. MergedCounts(f, c) = [k \in 1..n |-> c[k] + d[k]]
    <2>1. There(f, n) = 1..n
      OBVIOUS
    <2>. QED
      BY <2>1 DEF MergedCounts
  <1>9. SumFunction([k \in 1..n |-> c[k] + d[k]]) = SumFunction(c) + SumFunction(d)
    <2> DEFINE D == 1..n
    <2>1. IsFiniteSet(D) /\ c \in [D -> Nat] /\ d \in [D -> Nat]
      <3>1. IsFiniteSet(D)
        BY <1>1, FS_Interval
      <3>2. d \in [D -> Nat]
        BY <1>7
      <3>. QED
        BY <3>1, <3>2, <1>1
    <2> HIDE DEF D, d
    <2>2. SumFunction([k \in D |-> c[k] + d[k]]) = SumFunction(c) + SumFunction(d)
      BY ONLY <2>1, SumAdd
    <2>. QED
      BY <2>2 DEF D
  <1> HIDE DEF d
  <1>. QED
    BY <1>3, <1>7, <1>8, <1>9

-----------------------------------------------------------------------------
(* What an action leaves alone *)

\* A process that is not the one that acts.
Same(q) ==
  /\ pc'[q] = pc[q]
  /\ version'[q] = version[q]
  /\ gcov_list'[q] = gcov_list[q]
  /\ todo'[q] = todo[q]
  /\ counts'[q] = counts[q]
  /\ after'[q] = after[q]
  /\ object'[q] = object[q]
  /\ pending'[q] = pending[q]
  /\ begun'[q] = begun[q]
  /\ eof_pos'[q] = eof_pos[q]

\* What a process does alone: everything but fork.
Action(p) ==
  \/ \E o \in Objects : __gcov_init(p, o) \/ \E k \in 1..MaxFunctions : count(p, o, k)
  \/ \E why \in {"exit", "flush", "fork", "exec"} : gcov_exit(p, why)
  \/ DumpStep(p)
  \/ __gcov_exec(p)
  \/ kill(p)

\* An action of one process leaves the others alone.
LEMMA OnlyOne ==
  ASSUME Types, NEW p \in Procs, Action(p), NEW q \in Procs, q # p
  PROVE  Same(q)
  <1> USE DEF Types, Same, progVars, dumpVars, writeVars, envVars, ghostVars
  <1>1. CASE \E o \in Objects : __gcov_init(p, o) \/ \E k \in 1..MaxFunctions : count(p, o, k)
    BY <1>1 DEF __gcov_init, count
  <1>2. CASE \E why \in {"exit", "flush", "fork", "exec"} : gcov_exit(p, why)
    BY <1>2 DEF gcov_exit
  <1>3. CASE open(p) \/ access(p)
    BY <1>3 DEF open, gcov_open, access, Goto
  <1>4. CASE create_file_directory(p) \/ reopen(p)
    BY <1>4 DEF create_file_directory, mkdir, reopen, gcov_open, Goto, Skip, NextFile
  <1>5. CASE merge(p)
    BY <1>5 DEF merge, rewrite, read_fatal, Goto, NextFile
  <1>6. CASE write_block(p) \/ gcov_close(p)
    BY <1>6 DEF write_block, gcov_close, NextFile
  <1>7. CASE finish_exit(p) \/ finish_flush(p)
    BY <1>7 DEF finish_exit, finish_flush, Gone, Return, Goto, __gcov_flush
  <1>8. CASE __gcov_exec(p)
    BY <1>8 DEF __gcov_exec, Goto
  <1>9. CASE kill(p)
    BY <1>9 DEF kill, Gone, Return
  <1>. QED
    BY <1>1, <1>2, <1>3, <1>4, <1>5, <1>6, <1>7, <1>8, <1>9 DEF Action, DumpStep

\* The lists of a process that is left alone.
LEMMA SameList ==
  ASSUME NEW q \in Procs, ListOk(q), Same(q)
  PROVE  ListOk(q)'
  BY DEF ListOk, Same

\* The blocks of a process that is left alone, as is its file.
LEMMA SameWrite ==
  ASSUME NEW q \in Procs, WriteOk(q), Same(q),
         pc[q] = "write" => file'[Current(q)] = file[Current(q)]
  PROVE  WriteOk(q)'
  <1> SUFFICES ASSUME pc'[q] = "write" PROVE WriteOk(q)'
    BY DEF WriteOk
  <1>1. pc[q] = "write" /\ Current(q)' = Current(q) /\ file'[Current(q)] = file[Current(q)]
    BY DEF Same, Current
  <1> DEFINE o == Current(q)
  <1>2. /\ file'[o] = file[o] /\ counts'[q][o] = counts[q][o]
        /\ Stamp[version'[q]][o] = Stamp[version[q]][o]
    BY <1>1 DEF Same
  <1>. QED
    BY <1>1, <1>2 DEF WriteOk, Same

\* What a process that is left alone has still to dump.
LEMMA SameUndumped ==
  ASSUME NEW q \in Procs, NEW o, Same(q)
  PROVE  Undumped(q, o)' = Undumped(q, o)
  BY DEF Undumped, Same, Current

-----------------------------------------------------------------------------
(* What a process has still to bring to a file *)

\* What a process has still to dump, by its place: all its counters, those of the
\* files it has not come to, or nothing.
UndumpedAt(p, o) ==
  /\ Undumped(p, o) \in Nat
  /\ pc[p] = "count" => Undumped(p, o) = SumFunction(counts[p][o])
  /\ pc[p] \in Opening =>
       Undumped(p, o) = IF o \in ToSet(todo[p]) THEN SumFunction(counts[p][o]) ELSE 0
  /\ pc[p] = "write" =>
       Undumped(p, o) = IF o = Current(p) THEN (IF begun[p] THEN 0 ELSE object[p].sum_all)
                        ELSE IF o \in ToSet(todo[p]) THEN SumFunction(counts[p][o]) ELSE 0
  /\ pc[p] \notin Dumping \cup {"count"} => Undumped(p, o) = 0

\* The same of all processes and files.
AllUndumped == \A p \in Procs : \A o \in Objects : UndumpedAt(p, o)

\* That is what the ghost variable of the model says.
LEMMA UndumpedIs == Types /\ Lists => AllUndumped
  <1> SUFFICES ASSUME Types, Lists, NEW p \in Procs, NEW o \in Objects PROVE UndumpedAt(p, o)
    BY DEF AllUndumped
  <1>1. Counted /\ ListOk(p)
    BY DEF Lists, ListOk, Counted
  <1>2. SumFunction(counts[p][o]) \in Nat
    BY <1>1, CountersType
  <1>3. object[p].sum_all \in Nat /\ begun[p] \in BOOLEAN /\ todo[p] \in Seq(Objects)
        /\ gcov_list[p] \in Seq(Objects) /\ pc[p] \in Places
    BY DEF Types, Summaries
  <1>4. pc[p] = "count" => Undumped(p, o) = SumFunction(counts[p][o])
    BY DEF Undumped
  <1>5. pc[p] \in Opening =>
          Undumped(p, o) = IF o \in ToSet(todo[p]) THEN SumFunction(counts[p][o]) ELSE 0
    BY DEF Undumped, Opening
  <1>6. ASSUME pc[p] = "write"
        PROVE  Undumped(p, o) = IF o = Current(p) THEN (IF begun[p] THEN 0 ELSE object[p].sum_all)
                                ELSE IF o \in ToSet(todo[p]) THEN SumFunction(counts[p][o]) ELSE 0
    <2>1. todo[p] # <<>>
      BY <1>1, <1>6 DEF ListOk, Dumping
    <2>2. ToSet(todo[p]) = ToSet(Tail(todo[p])) \cup {Current(p)}
      BY <1>3, <2>1, TailSet DEF Current
    <2>3. Current(p) \notin ToSet(Tail(todo[p]))
      BY <1>1, <1>3, <2>1, FirstNotInTail DEF Current, ListOk
    <2>4. Undumped(p, o) = CASE o = Current(p) /\ ~begun[p] -> object[p].sum_all
                             [] o \in ToSet(Tail(todo[p])) -> SumFunction(counts[p][o])
                             [] OTHER -> 0
      BY <1>6 DEF Undumped
    <2>. QED
      BY <1>3, <2>2, <2>3, <2>4
  <1>7. pc[p] \notin Dumping \cup {"count"} => Undumped(p, o) = 0
    BY DEF Undumped, Dumping, Opening
  <1>8. Undumped(p, o) \in Nat
    BY <1>2, <1>3, <1>4, <1>5, <1>6, <1>7 DEF Dumping
  <1>. QED
    BY <1>4, <1>5, <1>6, <1>7, <1>8 DEF UndumpedAt

\* The same in the next state.
LEMMA UndumpedNext == Types' /\ Lists' => AllUndumped'
  BY UndumpedIs, PTL

\* What all processes together have still to bring to a file changes with what
\* the one that acts has.
LEMMA TotalChange ==
  ASSUME Types, Lists, Types', Lists', NEW p \in Procs, NEW o \in Objects,
         \A q \in Procs : q # p => Same(q)
  PROVE  /\ Total(o) \in Nat /\ Total(o)' \in Nat
         /\ Total(o)' + Undumped(p, o) + discarded[o] = Total(o) + Undumped(p, o)' + discarded'[o]
  <1> DEFINE f == [q \in Procs |-> Undumped(q, o)]
             h == [q \in Procs |-> Undumped(q, o)']
  <1>1. f \in [Procs -> Nat] /\ h \in [Procs -> Nat] /\ \A q \in Procs : q # p => h[q] = f[q]
    <2>1. \A q \in Procs : Undumped(q, o) \in Nat
      BY UndumpedIs DEF AllUndumped, UndumpedAt
    <2>2. \A q \in Procs : Undumped(q, o)' \in Nat
      BY UndumpedNext DEF AllUndumped, UndumpedAt
    <2>3. \A q \in Procs : q # p => Undumped(q, o)' = Undumped(q, o)
      BY SameUndumped
    <2>. QED
      BY <2>1, <2>2, <2>3
  <1>2. IsFiniteSet(Procs)
    BY GcovAssumption
  <1>3. Total(o) = SumFunction(f) + discarded[o] /\ Total(o)' = SumFunction(h) + discarded'[o]
    BY DEF Total
  <1>4. f[p] = Undumped(p, o) /\ h[p] = Undumped(p, o)'
    OBVIOUS
  <1>5. discarded[o] \in Nat /\ discarded'[o] \in Nat
    BY DEF Types
  <1> HIDE DEF f, h
  <1>6. SumFunction(f) \in Nat /\ SumFunction(h) \in Nat
    BY <1>1, <1>2, SumNat
  <1>7. SumFunction(h) + f[p] = SumFunction(f) + h[p]
    BY <1>1, <1>2, SumChange
  <1>8. f[p] \in Nat /\ h[p] \in Nat
    BY <1>1
  <1> DEFINE a == SumFunction(f)
             b == SumFunction(h)
             x == f[p]
             y == h[p]
             d == discarded[o]
             e == discarded'[o]
  <1>9. b + x = a + y /\ a \in Nat /\ b \in Nat /\ x \in Nat /\ y \in Nat /\ d \in Nat /\ e \in Nat
    BY <1>5, <1>6, <1>7, <1>8
  <1> HIDE DEF a, b, x, y, d, e
  <1>10. (b + e) + x + d = (a + d) + y + e
    BY <1>9
  <1>11. a + d \in Nat /\ b + e \in Nat
    BY <1>9
  <1>. QED
    BY <1>3, <1>4, <1>10, <1>11 DEF a, b, x, y, d, e

-----------------------------------------------------------------------------
(* The types *)

\* The object a dump works at.
LEMMA CurrentType ==
  ASSUME Types, NEW p \in Procs, ListOk(p), pc[p] \in Dumping
  PROVE  /\ todo[p] # <<>> /\ todo[p] \in Seq(Objects)
         /\ Current(p) \in Objects /\ Current(p) \in ToSet(todo[p])
         /\ Current(p) \notin ToSet(Tail(todo[p]))
         /\ ToSet(todo[p]) = ToSet(Tail(todo[p])) \cup {Current(p)}
         /\ ToSet(todo[p]) \subseteq ToSet(gcov_list[p])
         /\ Tail(todo[p]) \in Seq(Objects)
         /\ SuffixOf(Tail(todo[p]), gcov_list[p])
         /\ Len(todo[p]) = 1 <=> Tail(todo[p]) = <<>>
  <1>1. todo[p] # <<>> /\ todo[p] \in Seq(Objects) /\ gcov_list[p] \in Seq(Objects)
    BY DEF ListOk, Types
  <1>2. IsInjective(gcov_list[p]) /\ SuffixOf(todo[p], gcov_list[p])
    BY DEF ListOk
  <1>3. /\ ToSet(todo[p]) \subseteq Objects /\ todo[p][1] \in ToSet(todo[p])
        /\ Tail(todo[p]) \in Seq(Objects)
        /\ ToSet(todo[p]) = ToSet(Tail(todo[p])) \cup {todo[p][1]}
        /\ Len(todo[p]) = 1 <=> Tail(todo[p]) = <<>>
    BY <1>1, TailSet
  <1>4. /\ todo[p][1] \notin ToSet(Tail(todo[p])) /\ SuffixOf(Tail(todo[p]), gcov_list[p])
        /\ ToSet(todo[p]) \subseteq ToSet(gcov_list[p])
    BY <1>1, <1>2, FirstNotInTail
  <1>. QED
    BY <1>1, <1>3, <1>4 DEF Current

\* Counters that are reset: as many as there are functions, and all zero.
LEMMA ZeroType ==
  ASSUME NEW v \in Versions
  PROVE  /\ Zero(v) \in [Objects -> Seq(Nat)]
         /\ \A o \in Objects : /\ Len(Zero(v)[o]) = NFunctions[v][o]
                               /\ SumFunction(Zero(v)[o]) = 0
  <1> SUFFICES ASSUME NEW o \in Objects
               PROVE  /\ Zero(v)[o] \in Seq(Nat) /\ Len(Zero(v)[o]) = NFunctions[v][o]
                      /\ SumFunction(Zero(v)[o]) = 0
    BY DEF Zero
  <1> DEFINE n == NFunctions[v][o]
             z == Zero(v)[o]
  <1>1. n \in Nat
    BY GcovAssumption
  <1>2. z = [k \in 1..n |-> 0]
    BY DEF Zero
  <1> HIDE DEF n, z
  <1>3. z \in Seq(Nat) /\ Len(z) = n
    BY <1>1, <1>2
  <1>4. IsFiniteSet(1..n)
    BY <1>1, FS_Interval
  <1>5. SumFunction(z) = 0
    BY <1>2, <1>4, SumZero
  <1>. QED
    BY <1>3, <1>5 DEF n, z

\* Giving up what a process has not dumped.
LEMMA DiscardType ==
  ASSUME Types, Lists, NEW p \in Procs, NEW os, Discard(p, os)
  PROVE  discarded' \in [Objects -> Nat]
  <1>1. \A o \in Objects : Undumped(p, o) \in Nat /\ discarded[o] \in Nat
    BY UndumpedIs DEF AllUndumped, UndumpedAt, Types
  <1>. QED
    BY <1>1 DEF Discard

\* The rest of the list, and where the process goes.
LEMMA NextFileType ==
  ASSUME Types, NEW p \in Procs, ListOk(p), pc[p] \in Dumping, NextFile(p)
  PROVE  /\ pc' \in [Procs -> Places] /\ todo' \in [Procs -> Seq(Objects)]
         /\ todo'[p] = Tail(todo[p])
         /\ pc'[p] = IF Tail(todo[p]) = <<>> THEN "ended" ELSE "open"
  <1>1. Tail(todo[p]) \in Seq(Objects) /\ (Len(todo[p]) = 1 <=> Tail(todo[p]) = <<>>)
    BY CurrentType
  <1>. QED
    BY <1>1 DEF NextFile, Types, Places, Dumping, Opening

-----------------------------------------------------------------------------
(* merge, by its outcomes *)

\* The blocks of a file that is to be written, with counters C.
Rewritten(p, c, obj, prg, pos, own) ==
  /\ object' = [object EXCEPT ![p] = ObjectTotals(p, Current(p))]
  /\ pending' = [pending EXCEPT ![p] =
                   NewBlocks(Stamp[version[p]][Current(p)], c, gcov_list[p],
                             Merged(obj, ObjectTotals(p, Current(p))),
                             Merged(prg, program[p]), pos, own)]
  /\ eof_pos' = [eof_pos EXCEPT ![p] = pos]
  /\ begun' = [begun EXCEPT ![p] = FALSE]
  /\ Goto(p, "write")
  /\ UNCHANGED <<lock, discarded>>

\* The summaries found and the counters are those of the file, which is not
\* foreign; the summary of the program goes after the rest.
Mergeable(f, stamp, c, m, obj, prg, pos) ==
  /\ obj \in Summaries /\ prg \in Summaries
  /\ pos \in Nat /\ (pos = 0 \/ (Len(m) + 2 <= pos /\ pos <= Len(f) + 1))
  /\ SumFunction(m) = SumFunction(c) + Kept(f, stamp)
  /\ f # <<ForeignHead>>

\* A file is left as it is, or written.
LEMMA RewriteCases ==
  ASSUME NEW p, NEW c, NEW obj, NEW prg, NEW pos, NEW own, rewrite(p, c, obj, prg, pos, own)
  PROVE  read_fatal(p) \/ Rewritten(p, c, obj, prg, pos, own)
  BY DEF rewrite, Rewritten

\* merge leaves the file as it is, or plans to write the counters of both.
LEMMA MergeCases ==
  ASSUME Types, Lists, NEW p \in Procs, merge(p)
  PROVE  /\ pc[p] = "merge"
         /\ UNCHANGED <<progVars, after, program, file, disk, dirs, executed, torn, cut, skipped>>
         /\ \E m \in Seq(Nat) :
              /\ Len(m) = Len(counts[p][Current(p)])
              /\ counts' = [counts EXCEPT ![p][Current(p)] = m]
              /\ \/ read_fatal(p)
                 \/ \E obj, prg, pos, own :
                      /\ Mergeable(file[Current(p)], Stamp[version[p]][Current(p)],
                                   counts[p][Current(p)], m, obj, prg, pos)
                      /\ Rewritten(p, m, obj, prg, pos, own)
  <1> DEFINE o == Current(p)
             f == file[o]
             c == counts[p][o]
             n == Len(c)
             stamp == Stamp[version[p]][o]
             old == Cell(f, 1).kind = "head" /\ f[1].stamp = stamp
             merged == MergedCounts(f, c)
             stop == ScanStop(f, gcov_list[p], n)
             obj == ObjectFound(f, n, stop)
  <1>1. pc[p] = "merge"
        /\ UNCHANGED <<progVars, after, program, file, disk, dirs, executed, torn, cut, skipped>>
    BY DEF merge
  <1>2. ListOk(p) /\ Counted /\ pc[p] \in Dumping
    BY <1>1 DEF Lists, ListOk, Counted, Dumping, Opening
  <1>3. o \in Objects
    BY <1>2, CurrentType
  <1>4. f \in Seq(Cells) /\ version[p] \in Versions /\ counts \in [Procs -> [Objects -> Seq(Nat)]]
    BY <1>3 DEF Types
  <1>5. c \in Seq(Nat) /\ n \in Nat \ {0} /\ n = NFunctions[version[p]][o] /\ SumFunction(c) \in Nat
    BY <1>2, <1>3, CountersType
  <1>6. stamp \in Nat
    BY <1>3, <1>4, GcovAssumption
  <1>7. counts = [counts EXCEPT ![p][o] = c]
    BY <1>3, <1>4
  <1>8. merged \in Seq(Nat) /\ Len(merged) = n
    BY <1>4, <1>5, MergedCountsType
  <1>9. \/ NotAGcovFile(f) /\ read_fatal(p) /\ UNCHANGED counts
        \/ /\ ~NotAGcovFile(f) /\ ~old
           /\ rewrite(p, c, NoSummary, NoSummary, 0, FALSE)
           /\ UNCHANGED counts
        \/ /\ old
           /\ counts' = [counts EXCEPT ![p][o] = merged]
           /\ \/ read_fatal(p)
              \/ /\ There(f, n) = 1..n /\ Cell(f, stop).kind = "end"
                 /\ rewrite(p, merged, obj, NoSummary, stop, FALSE)
              \/ /\ There(f, n) = 1..n /\ Cell(f, stop).kind = "program"
                 /\ rewrite(p, merged, obj, f[stop].sum, stop, TRUE)
    BY <1>5 DEF merge, There, MergedCounts
  <1> HIDE DEF merged, stop, obj
  <1>10. CASE NotAGcovFile(f) /\ read_fatal(p) /\ UNCHANGED counts
    BY <1>1, <1>5, <1>7, <1>10
  <1>11. CASE /\ ~NotAGcovFile(f) /\ ~old
              /\ rewrite(p, c, NoSummary, NoSummary, 0, FALSE)
              /\ UNCHANGED counts
    <2>1. read_fatal(p) \/ Rewritten(p, c, NoSummary, NoSummary, 0, FALSE)
      BY <1>11, RewriteCases
    <2>2. f # <<ForeignHead>>
      <3> SUFFICES ASSUME f = <<ForeignHead>> PROVE FALSE
        OBVIOUS
      <3>1. Cell(f, 1) = ForeignHead
        BY DEF Cell
      <3>. QED
        BY <3>1, <1>11, CellsMade DEF NotAGcovFile
    <2>3. Kept(f, stamp) = 0
      <3>1. CASE f = <<>>
        <4>1. Functional(f) = {}
          BY <3>1 DEF Functional
        <4>2. InFile(f) = 0
          BY <1>4, <4>1, InFileNat
        <4>. QED
          BY <3>1, <4>2 DEF Kept
      <3>2. CASE f # <<>>
        <4>1. 1 \in 1..Len(f) /\ Cell(f, 1) = f[1]
          BY <1>4, <3>2, CellIn
        <4>2. f[1] # FileHead(stamp)
          <5> SUFFICES ASSUME f[1] = FileHead(stamp) PROVE FALSE
            OBVIOUS
          <5>1. f[1].stamp = stamp /\ f[1].kind = "head"
            BY DEF FileHead
          <5>. QED
            BY <4>1, <5>1, <1>11
        <4>. QED
          BY <3>2, <4>2 DEF Kept
      <3>. QED
        BY <3>1, <3>2
    <2>4. Mergeable(f, stamp, c, c, NoSummary, NoSummary, 0)
      BY <1>5, <2>2, <2>3, NoSummaryType DEF Mergeable
    <2>. QED
      BY <1>1, <1>5, <1>7, <1>11, <2>1, <2>4
  <1>12. CASE old /\ counts' = [counts EXCEPT ![p][o] = merged] /\ read_fatal(p)
    BY <1>1, <1>8, <1>12
  <1>13. ASSUME old, There(f, n) = 1..n, Cell(f, stop).kind \in {"end", "program"},
                NEW prg, prg \in Summaries
         PROVE  Mergeable(f, stamp, c, merged, obj, prg, stop)
    <2>1. /\ SumFunction(merged) = SumFunction(c) + InFile(f)
          /\ n + 1 <= Len(f)
      BY <1>4, <1>5, <1>13, MergedSum DEF merged, stop
    <2>2. stop \in (n + 2)..(Len(f) + 1)
      BY <1>4, <1>5, <2>1, ScanStops DEF stop
    <2>3. Len(f) \in Nat
      BY <1>4
    <2>4. stop \in Nat /\ n + 2 <= stop /\ stop <= Len(f) + 1
      BY <1>5, <2>2, <2>3
    <2>5. obj \in Summaries
      BY <1>4, <1>5, <2>2, ObjectFoundType DEF obj
    <2>6. Cell(f, 1) = f[1] /\ f[1] \in Cells
      BY <1>4, <1>13, CellIn
    <2>7. f[1] = FileHead(stamp)
      BY <2>6, <1>13, CellFacts
    <2>8. Kept(f, stamp) = InFile(f)
      BY <2>7 DEF Kept
    <2>9. f # <<ForeignHead>>
      BY <2>7, <1>6, CellsMade
    <2>. QED
      BY <1>8, <2>1, <2>4, <2>5, <2>8, <2>9, <1>13 DEF Mergeable
  <1>14. CASE /\ old /\ counts' = [counts EXCEPT ![p][o] = merged]
              /\ There(f, n) = 1..n /\ Cell(f, stop).kind = "end"
              /\ rewrite(p, merged, obj, NoSummary, stop, FALSE)
    <2>1. read_fatal(p) \/ Rewritten(p, merged, obj, NoSummary, stop, FALSE)
      BY <1>14, RewriteCases
    <2>2. Mergeable(f, stamp, c, merged, obj, NoSummary, stop)
      BY <1>13, <1>14, NoSummaryType
    <2>. QED
      BY <1>1, <1>8, <1>14, <2>1, <2>2
  <1>15. CASE /\ old /\ counts' = [counts EXCEPT ![p][o] = merged]
              /\ There(f, n) = 1..n /\ Cell(f, stop).kind = "program"
              /\ rewrite(p, merged, obj, f[stop].sum, stop, TRUE)
    <2>1. read_fatal(p) \/ Rewritten(p, merged, obj, f[stop].sum, stop, TRUE)
      BY <1>15, RewriteCases
    <2>2. f[stop].sum \in Summaries
      <3>1. n + 1 <= Len(f)
        BY <1>4, <1>5, <1>15, MergedSum DEF stop
      <3>2. stop \in (n + 2)..(Len(f) + 1)
        BY <1>4, <1>5, <3>1, ScanStops DEF stop
      <3>3. stop \in Nat \ {0}
        BY <1>4, <1>5, <3>2
      <3>4. stop \in 1..Len(f) /\ Cell(f, stop) = f[stop] /\ f[stop] \in Cells
        BY <1>4, <1>15, <3>3, CellIn
      <3>. QED
        BY <1>15, <3>4, CellFacts
    <2>3. Mergeable(f, stamp, c, merged, obj, f[stop].sum, stop)
      BY <1>13, <1>15, <2>2
    <2>. QED
      BY <1>1, <1>8, <1>15, <2>1, <2>3
  <1>. QED
    BY <1>9, <1>10, <1>11, <1>12, <1>14, <1>15

\* An instrumented function adds one to the counters of its object.
LEMMA CountTypes ==
  ASSUME Types, Lists, NEW p \in Procs, NEW o \in Objects, NEW k, count(p, o, k)
  PROVE  /\ Types'
         /\ Len(counts'[p][o]) = Len(counts[p][o])
         /\ SumFunction(counts'[p][o]) = SumFunction(counts[p][o]) + 1
         /\ \A x \in Objects : x # o => counts'[p][x] = counts[p][x]
  <1> DEFINE c == counts[p][o]
             d == [c EXCEPT ![k] = @ + 1]
             n == Len(c)
  <1>1. counts \in [Procs -> [Objects -> Seq(Nat)]] /\ c \in Seq(Nat)
    BY DEF Types
  <1>2. k \in DOMAIN c /\ counts' = [counts EXCEPT ![p][o][k] = @ + 1]
    BY DEF count
  <1>3. c \in [1..n -> Nat] /\ n \in Nat /\ IsFiniteSet(1..n) /\ SumFunction(c) \in Nat
    BY <1>1, SeqSum
  <1> HIDE DEF c, n
  <1>4. k \in 1..n /\ c[k] \in Nat
    BY <1>2, <1>3
  <1>5. d \in [1..n -> Nat] /\ d[k] = c[k] + 1 /\ \A j \in 1..n : j # k => d[j] = c[j]
    BY <1>3, <1>4
  <1>6. counts' = [counts EXCEPT ![p][o] = d]
    BY <1>2 DEF c
  <1> HIDE DEF d
  <1>7. d \in Seq(Nat) /\ Len(d) = n
    BY <1>3, <1>5
  <1>8. SumFunction(d) = SumFunction(c) + 1
    <2>1. SumFunction(d) + c[k] = SumFunction(c) + d[k]
      <3> DEFINE D == 1..n
      <3>1. IsFiniteSet(D) /\ c \in [D -> Nat] /\ d \in [D -> Nat] /\ k \in D
            /\ \A j \in D : j # k => d[j] = c[j]
        BY <1>3, <1>4, <1>5
      <3> HIDE DEF D
      <3>. QED
        BY <3>1, SumChange
    <2>2. SumFunction(d) \in Nat
      BY <1>7, SeqSum
    <2>. QED
      BY <2>1, <2>2, <1>3, <1>4, <1>5
  <1>9. counts' \in [Procs -> [Objects -> Seq(Nat)]]
    BY <1>1, <1>6, <1>7
  <1>10. executed' \in [Objects -> Nat]
    BY DEF count, Types
  <1>11. Types'
    BY <1>9, <1>10 DEF count, Types, progVars, dumpVars, writeVars, envVars
  <1>12. counts'[p][o] = d /\ \A x \in Objects : x # o => counts'[p][x] = counts[p][x]
    BY <1>1, <1>6
  <1>. QED
    BY <1>7, <1>8, <1>11, <1>12 DEF c, n

\* No step leaves the types.
LEMMA TypesStep ==
  ASSUME IndInv, NEW p \in Procs, Action(p) \/ __gcov_fork(p)
  PROVE  Types'
  <1> USE DEF progVars, dumpVars, writeVars, envVars, ghostVars
  <1>0. Types /\ Lists /\ ListOk(p) /\ Counted
    BY DEF IndInv, Lists, Counted, ListOk
  <1>1. CASE \E o \in Objects : \E k \in 1..MaxFunctions : count(p, o, k)
    BY <1>0, <1>1, CountTypes
  <1>2. CASE \E o \in Objects : __gcov_init(p, o)
    <2>1. PICK o \in Objects : __gcov_init(p, o)
      BY <1>2
    <2>2. <<o>> \o gcov_list[p] \in Seq(Objects)
      BY <1>0 DEF Types
    <2>3. gcov_list' \in [Procs -> Seq(Objects)]
      BY <1>0, <2>1, <2>2 DEF __gcov_init, Types
    <2>. QED
      BY <1>0, <2>1, <2>3 DEF __gcov_init, Types
  <1>3. CASE \E why \in {"exit", "flush", "fork", "exec"} : gcov_exit(p, why)
    <2>1. ProgramTotals(p) \in Summaries
      BY <1>0, ProgramTotalsType
    <2>. QED
      BY <1>0, <1>3, <2>1 DEF gcov_exit, Types, Places, Dumping, Opening
  <1>4. CASE open(p) \/ access(p)
    <2>1. pc[p] \in Dumping
      BY <1>4 DEF open, access, Dumping, Opening
    <2>2. Current(p) \in Objects
      BY <1>0, <2>1, CurrentType
    <2>3. ASSUME NEW where \in Places, Goto(p, where)
          PROVE  pc' \in [Procs -> Places] /\ todo' \in [Procs -> Seq(Objects)]
      BY <1>0, <2>3 DEF Goto, Types
    <2>4. CASE open(p)
      <3>1. pc' \in [Procs -> Places] /\ todo' \in [Procs -> Seq(Objects)]
        BY <2>3, <2>4 DEF open, gcov_open, Places, Dumping, Opening
      <3>2. lock' \in [Objects -> Procs \cup {Nobody}]
        BY <1>0, <2>2, <2>4 DEF open, gcov_open, Types
      <3>. QED
        BY <1>0, <2>4, <3>1, <3>2 DEF open, Types
    <2>5. CASE access(p)
      <3>1. PICK where \in Places : Goto(p, where)
        BY <2>5 DEF access, Places, Dumping, Opening
      <3>2. pc' \in [Procs -> Places] /\ todo' \in [Procs -> Seq(Objects)]
        BY <2>3, <3>1
      <3>. QED
        BY <1>0, <2>5, <3>2 DEF access, Types
    <2>. QED
      BY <1>4, <2>4, <2>5
  <1>5. CASE create_file_directory(p) \/ reopen(p)
    <2>1. pc[p] \in Dumping
      BY <1>5 DEF create_file_directory, reopen, Dumping, Opening
    <2>2. Current(p) \in Objects
      BY <1>0, <2>1, CurrentType
    <2>3. ASSUME Skip(p) PROVE /\ pc' \in [Procs -> Places] /\ todo' \in [Procs -> Seq(Objects)]
                               /\ discarded' \in [Objects -> Nat] /\ skipped' \subseteq Objects
      BY <1>0, <2>1, <2>2, <2>3, NextFileType, DiscardType DEF Skip, Types
    <2>4. ASSUME Goto(p, "reopen") \/ Goto(p, "merge")
          PROVE  pc' \in [Procs -> Places] /\ todo' \in [Procs -> Seq(Objects)]
      BY <1>0, <2>4 DEF Goto, Types, Places, Dumping, Opening
    <2>5. CASE create_file_directory(p)
      BY <1>0, <2>2, <2>3, <2>4, <2>5 DEF create_file_directory, mkdir, Types
    <2>6. CASE reopen(p)
      BY <1>0, <2>2, <2>3, <2>4, <2>6 DEF reopen, gcov_open, Types
    <2>. QED
      BY <1>5, <2>5, <2>6
  <1>6. CASE merge(p)
    <2>1. pc[p] = "merge" /\ pc[p] \in Dumping
          /\ UNCHANGED <<progVars, after, program, file, disk, dirs, executed, torn, cut, skipped>>
      BY <1>0, <1>6, MergeCases DEF Dumping, Opening
    <2>2. Current(p) \in Objects
      BY <1>0, <2>1, CurrentType
    <2>3. PICK m \in Seq(Nat) :
              /\ Len(m) = Len(counts[p][Current(p)])
              /\ counts' = [counts EXCEPT ![p][Current(p)] = m]
              /\ \/ read_fatal(p)
                 \/ \E obj, prg, pos, own :
                      /\ Mergeable(file[Current(p)], Stamp[version[p]][Current(p)],
                                   counts[p][Current(p)], m, obj, prg, pos)
                      /\ Rewritten(p, m, obj, prg, pos, own)
      BY <1>0, <1>6, MergeCases
    <2>4. counts' \in [Procs -> [Objects -> Seq(Nat)]]
      BY <1>0, <2>2, <2>3 DEF Types
    <2>5. CASE read_fatal(p)
      <3>1. lock' \in [Objects -> Procs \cup {Nobody}] /\ UNCHANGED writeVars
        BY <1>0, <2>2, <2>5 DEF read_fatal, Types
      <3>2. pc' \in [Procs -> Places] /\ todo' \in [Procs -> Seq(Objects)]
            /\ discarded' \in [Objects -> Nat]
        BY <1>0, <2>1, <2>5, NextFileType, DiscardType DEF read_fatal
      <3>. QED
        BY <1>0, <2>1, <2>4, <3>1, <3>2 DEF Types
    <2>6. CASE \E obj, prg, pos, own :
                 /\ Mergeable(file[Current(p)], Stamp[version[p]][Current(p)],
                              counts[p][Current(p)], m, obj, prg, pos)
                 /\ Rewritten(p, m, obj, prg, pos, own)
      <3>1. PICK obj, prg, pos, own :
                 /\ Mergeable(file[Current(p)], Stamp[version[p]][Current(p)],
                              counts[p][Current(p)], m, obj, prg, pos)
                 /\ Rewritten(p, m, obj, prg, pos, own)
        BY <2>6
      <3> DEFINE this == ObjectTotals(p, Current(p))
                 B == NewBlocks(Stamp[version[p]][Current(p)], m, gcov_list[p],
                                Merged(obj, this), Merged(prg, program[p]), pos, own)
      <3>2. this \in Summaries
        BY <1>0, <2>2, ObjectTotalsType
      <3>3. Merged(obj, this) \in Summaries /\ Merged(prg, program[p]) \in Summaries
        BY <1>0, <3>1, <3>2, MergedType DEF Mergeable, Types
      <3>4. /\ file[Current(p)] \in Seq(Cells) /\ gcov_list[p] \in Seq(Objects)
            /\ Stamp[version[p]][Current(p)] \in Nat
        BY <1>0, <2>2, GcovAssumption DEF Types
      <3>5. pos \in Nat
            /\ (pos = 0 \/ (Len(m) + 2 <= pos /\ pos <= Len(file[Current(p)]) + 1))
        BY <3>1 DEF Mergeable
      <3>6. B \in Seq(BlockSet)
        BY <3>3, <3>4, <3>5, NewPlanned
      <3>7. pending' = [pending EXCEPT ![p] = B]
        BY <3>1 DEF Rewritten
      <3> HIDE DEF B, this
      <3>8. pending' \in [Procs -> Seq(BlockSet)]
        BY <1>0, <3>6, <3>7 DEF Types
      <3>9. /\ object' \in [Procs -> Summaries] /\ eof_pos' \in [Procs -> Nat]
            /\ begun' \in [Procs -> BOOLEAN]
        BY <1>0, <3>1, <3>2, <3>5 DEF Rewritten, Types, this
      <3>10. pc' \in [Procs -> Places] /\ UNCHANGED <<todo, lock, discarded>>
        BY <1>0, <3>1 DEF Rewritten, Goto, Types, Places, Dumping
      <3>. QED
        BY <1>0, <2>1, <2>4, <3>8, <3>9, <3>10 DEF Types
    <2>. QED
      BY <2>3, <2>5, <2>6
  <1>7. CASE write_block(p)
    <2>1. pc[p] = "write" /\ pc[p] \in Dumping /\ pending[p] # <<>>
      BY <1>7 DEF write_block, Dumping
    <2> DEFINE o == Current(p)
               f == file[o]
               g == Overwrite(f, pending[p][1].at, pending[p][1].cells)
    <2>2. o \in Objects /\ f \in Seq(Cells) /\ pending[p] \in Seq(BlockSet) /\ eof_pos[p] \in Nat
          /\ counts[p][o] \in Seq(Nat)
      BY <1>0, <2>1, CurrentType DEF Types
    <2>3. Planned(f, pending[p], eof_pos[p], Stamp[version[p]][o], counts[p][o])
      BY <2>1 DEF IndInv, Writing, WriteOk
    <2>4. g \in Seq(Cells)
      BY <2>1, <2>2, <2>3, PlannedWrite
    <2>5. file' = [file EXCEPT ![o] = g]
      BY <1>7 DEF write_block
    <2> HIDE DEF g
    <2>6. file' \in [Objects -> Seq(Cells)]
      BY <1>0, <2>2, <2>4, <2>5 DEF Types
    <2>7. InFile(f) \in Nat
      BY <2>2, InFileNat
    <2>8. discarded' \in [Objects -> Nat]
      BY <1>0, <1>7, <2>2, <2>7 DEF write_block, Types
    <2>9. Tail(pending[p]) \in Seq(BlockSet)
      BY <2>1, <2>2
    <2>10. pending' \in [Procs -> Seq(BlockSet)] /\ begun' \in [Procs -> BOOLEAN]
      BY <1>0, <1>7, <2>9 DEF write_block, Types
    <2>. QED
      BY <1>0, <1>7, <2>6, <2>8, <2>10 DEF write_block, Types
  <1>8. CASE gcov_close(p)
    <2>1. pc[p] \in Dumping
      BY <1>8 DEF gcov_close, Dumping
    <2>2. Current(p) \in Objects
      BY <1>0, <2>1, CurrentType
    <2>3. pc' \in [Procs -> Places] /\ todo' \in [Procs -> Seq(Objects)]
      BY <1>0, <1>8, <2>1, NextFileType DEF gcov_close
    <2>. QED
      BY <1>0, <1>8, <2>2, <2>3 DEF gcov_close, Types
  <1>9. ASSUME Return(p)
        PROVE  /\ after' \in [Procs -> {"none", "exit", "flush", "fork", "exec"}]
               /\ program' \in [Procs -> Summaries] /\ object' \in [Procs -> Summaries]
               /\ pending' \in [Procs -> Seq(BlockSet)] /\ begun' \in [Procs -> BOOLEAN]
               /\ eof_pos' \in [Procs -> Nat]
    BY <1>0, <1>9, NoSummaryType DEF Return, Types
  <1>10. Zero(version[p]) \in [Objects -> Seq(Nat)]
    BY <1>0, ZeroType DEF Types
  <1>11. CASE finish_exit(p) \/ kill(p)
    <2>1. pc' \in [Procs -> Places] /\ todo' \in [Procs -> Seq(Objects)]
          /\ counts' \in [Procs -> [Objects -> Seq(Nat)]]
      <3>1. Gone(p)
        BY <1>11 DEF finish_exit, kill
      <3>2. pc' \in [Procs -> Places]
        BY <1>0, <3>1 DEF Gone, Types, Places
      <3>3. todo' \in [Procs -> Seq(Objects)]
        BY <1>0, <3>1 DEF Gone, Types
      <3>4. counts' \in [Procs -> [Objects -> Seq(Nat)]]
        BY <1>0, <1>10, <3>1 DEF Gone, Types
      <3>. QED
        BY <3>2, <3>3, <3>4
    <2>2. CASE finish_exit(p)
      BY <1>0, <1>9, <2>1, <2>2 DEF finish_exit, Types
    <2>3. CASE kill(p)
      <3>1. discarded' \in [Objects -> Nat]
        BY <1>0, <2>3, DiscardType DEF kill
      <3>2. torn' \subseteq Objects
        <4>1. CASE pc[p] = "write"
          <5>1. Current(p) \in Objects
            BY <1>0, <4>1, CurrentType DEF Dumping
          <5>. QED
            BY <1>0, <2>3, <5>1 DEF kill, Types
        <4>2. CASE pc[p] # "write"
          BY <1>0, <2>3, <4>2 DEF kill, Types
        <4>. QED
          BY <4>1, <4>2
      <3>3. lock' \in [Objects -> Procs \cup {Nobody}]
        BY <1>0, <2>3 DEF kill, Types
      <3>. QED
        BY <1>0, <1>9, <2>1, <2>3, <3>1, <3>2, <3>3 DEF kill, Types
    <2>. QED
      BY <1>11, <2>2, <2>3
  <1>12. CASE finish_flush(p)
    <2>1. after[p] \in {"flush", "fork", "exec"}
      BY <1>0, <1>12 DEF finish_flush, ListOk, Types
    <2>2. pc' \in [Procs -> Places] /\ UNCHANGED todo
      BY <1>0, <1>12, <2>1 DEF finish_flush, Goto, Types, Places
    <2>3. counts' \in [Procs -> [Objects -> Seq(Nat)]]
      BY <1>0, <1>10, <1>12 DEF finish_flush, __gcov_flush, Types
    <2>. QED
      BY <1>0, <1>9, <1>12, <2>2, <2>3 DEF finish_flush, Types
  <1>13. CASE __gcov_fork(p)
    BY <1>0, <1>13 DEF __gcov_fork, Types, Places
  <1>14. CASE __gcov_exec(p)
    BY <1>0, <1>14 DEF __gcov_exec, Goto, Types, Places
  <1>. QED
    BY <1>1, <1>2, <1>3, <1>4, <1>5, <1>6, <1>7, <1>8, <1>11, <1>12, <1>13, <1>14
       DEF Action, DumpStep

-----------------------------------------------------------------------------
(* The lists *)

\* A step that keeps what a process has linked and counted.
LEMMA ListMoves ==
  ASSUME Types, NEW p \in Procs, ListOk(p),
         gcov_list'[p] = gcov_list[p], version'[p] = version[p], counts'[p] = counts[p],
         SuffixOf(todo'[p], gcov_list[p]),
         todo'[p] = <<>> <=> pc'[p] \notin Dumping,
         pc'[p] \in Dumping \cup {"ended"} => after'[p] # "none",
         pc'[p] \notin {"fork", "exec"}
  PROVE  ListOk(p)'
  BY DEF ListOk

\* The sequences a list ends with: the empty one, and the list itself.
LEMMA SuffixEnds ==
  ASSUME NEW S, NEW l \in Seq(S)
  PROVE  SuffixOf(<<>>, l) /\ SuffixOf(l, l)
  BY DEF SuffixOf

\* The lists of the process that acts.
LEMMA ListOfActor ==
  ASSUME IndInv, NEW p \in Procs, Action(p)
  PROVE  ListOk(p)'
  <1> USE DEF progVars, dumpVars, writeVars, envVars, ghostVars
  <1>0. Types /\ Lists /\ ListOk(p) /\ Counted
    BY DEF IndInv, Lists, Counted, ListOk
  <1>t. /\ pc \in [Procs -> Places] /\ todo \in [Procs -> Seq(Objects)]
        /\ gcov_list \in [Procs -> Seq(Objects)] /\ gcov_list[p] \in Seq(Objects)
        /\ after \in [Procs -> {"none", "exit", "flush", "fork", "exec"}]
        /\ version \in [Procs -> Versions] /\ counts \in [Procs -> [Objects -> Seq(Nat)]]
    BY <1>0 DEF Types
  <1>s. SuffixOf(<<>>, gcov_list[p]) /\ SuffixOf(gcov_list[p], gcov_list[p])
    BY <1>t, SuffixEnds
  <1>n. ASSUME pc[p] \in Dumping, NextFile(p), UNCHANGED <<gcov_list, version, counts, after>>
        PROVE  ListOk(p)'
    <2>1. /\ todo'[p] = Tail(todo[p])
          /\ pc'[p] = IF Tail(todo[p]) = <<>> THEN "ended" ELSE "open"
      BY <1>0, <1>n, NextFileType
    <2>2. SuffixOf(Tail(todo[p]), gcov_list[p])
      BY <1>0, <1>n, CurrentType
    <2>3. after[p] # "none"
      BY <1>0, <1>n DEF ListOk
    <2>. QED
      BY <1>0, <1>n, <2>1, <2>2, <2>3, ListMoves DEF Dumping, Opening
  <1>g. ASSUME pc[p] \in Dumping, NEW where \in Dumping, Goto(p, where),
               UNCHANGED <<gcov_list, version, counts, after>>
        PROVE  ListOk(p)'
    <2>1. pc'[p] = where /\ todo'[p] = todo[p]
      BY <1>g, <1>t DEF Goto
    <2>2. SuffixOf(todo[p], gcov_list[p]) /\ after[p] # "none" /\ todo[p] # <<>>
      BY <1>0, <1>g DEF ListOk
    <2>. QED
      BY <1>0, <1>g, <2>1, <2>2, ListMoves DEF Dumping, Opening
  <1>1. CASE \E o \in Objects : \E k \in 1..MaxFunctions : count(p, o, k)
    <2>1. PICK o \in Objects : \E k \in 1..MaxFunctions : count(p, o, k)
      BY <1>1
    <2>2. PICK k \in 1..MaxFunctions : count(p, o, k)
      BY <2>1
    <2>3. /\ Len(counts'[p][o]) = Len(counts[p][o])
          /\ \A x \in Objects : x # o => counts'[p][x] = counts[p][x]
      BY <1>0, <2>2, CountTypes
    <2>4. o \in ToSet(gcov_list[p]) /\ UNCHANGED <<pc, todo, version, gcov_list, after>>
          /\ pc[p] = "count"
      BY <2>2 DEF count
    <2>. QED
      BY <1>0, <2>3, <2>4 DEF ListOk
  <1>2. CASE \E o \in Objects : __gcov_init(p, o)
    <2>1. PICK o \in Objects : __gcov_init(p, o)
      BY <1>2
    <2>2. /\ o \notin ToSet(gcov_list[p]) /\ gcov_list'[p] = <<o>> \o gcov_list[p]
          /\ UNCHANGED <<pc, counts, todo, version, after>> /\ pc[p] = "count"
      BY <1>t, <2>1 DEF __gcov_init
    <2>3. IsInjective(gcov_list[p]) /\ todo[p] = <<>>
      BY <1>0, <2>2 DEF ListOk, Dumping, Opening
    <2>4. IsInjective(<<o>> \o gcov_list[p])
          /\ ToSet(gcov_list[p]) \subseteq ToSet(<<o>> \o gcov_list[p])
      BY <1>t, <2>2, <2>3, HeadInjective
    <2>5. SuffixOf(<<>>, gcov_list'[p])
      <3>1. <<o>> \o gcov_list[p] \in Seq(Objects)
        BY <1>t
      <3>. QED
        BY <2>2, <3>1, SuffixEnds
    <2>. QED
      BY <1>0, <2>2, <2>3, <2>4, <2>5 DEF ListOk, Dumping, Opening
  <1>3. CASE \E why \in {"exit", "flush", "fork", "exec"} : gcov_exit(p, why)
    <2>1. PICK why \in {"exit", "flush", "fork", "exec"} : gcov_exit(p, why)
      BY <1>3
    <2>2. /\ pc'[p] = "open" /\ todo'[p] = gcov_list[p] /\ after'[p] = why
          /\ UNCHANGED <<version, gcov_list, counts>> /\ gcov_list[p] # <<>>
      BY <1>t, <2>1 DEF gcov_exit
    <2>. QED
      BY <1>0, <1>s, <2>2, ListMoves DEF Dumping, Opening
  <1>4. CASE open(p) \/ access(p)
    <2>1. pc[p] \in Dumping /\ UNCHANGED <<gcov_list, version, counts, after>>
      BY <1>4 DEF open, access, Dumping, Opening
    <2>2. PICK where \in Dumping : Goto(p, where)
      BY <1>4 DEF open, access, gcov_open, Dumping, Opening
    <2>. QED
      BY <1>g, <2>1, <2>2
  <1>5. CASE create_file_directory(p) \/ reopen(p)
    <2>1. pc[p] \in Dumping /\ UNCHANGED <<gcov_list, version, counts, after>>
      BY <1>5 DEF create_file_directory, reopen, Dumping, Opening
    <2>2. NextFile(p) \/ \E where \in Dumping : Goto(p, where)
      BY <1>5 DEF create_file_directory, mkdir, reopen, Skip, gcov_open, Dumping, Opening
    <2>. QED
      BY <1>g, <1>n, <2>1, <2>2
  <1>6. CASE merge(p)
    <2>1. PICK m \in Seq(Nat) :
              /\ Len(m) = Len(counts[p][Current(p)])
              /\ counts' = [counts EXCEPT ![p][Current(p)] = m]
              /\ NextFile(p) \/ Goto(p, "write")
      BY <1>0, <1>6, MergeCases DEF read_fatal, Rewritten
    <2>2. pc[p] = "merge" /\ pc[p] \in Dumping /\ UNCHANGED <<gcov_list, version, after>>
      BY <1>0, <1>6, MergeCases DEF Dumping, Opening
    <2>3. /\ Current(p) \in Objects /\ Current(p) \in ToSet(gcov_list[p])
          /\ todo[p] # <<>> /\ SuffixOf(Tail(todo[p]), gcov_list[p])
      BY <1>0, <2>2, CurrentType
    <2>4. \A o \in Objects : /\ Len(counts'[p][o]) = Len(counts[p][o])
                             /\ o # Current(p) => counts'[p][o] = counts[p][o]
      BY <1>t, <2>1, <2>3
    <2>5. /\ SuffixOf(todo'[p], gcov_list[p]) /\ pc'[p] \notin {"fork", "exec"}
          /\ todo'[p] = <<>> <=> pc'[p] \notin Dumping
      <3>1. CASE NextFile(p)
        BY <1>0, <2>2, <2>3, <3>1, NextFileType DEF Dumping, Opening
      <3>2. CASE Goto(p, "write")
        <4>1. pc'[p] = "write" /\ todo'[p] = todo[p]
          BY <1>t, <3>2 DEF Goto
        <4>. QED
          BY <1>0, <2>3, <4>1 DEF ListOk, Dumping
      <3>. QED
        BY <2>1, <3>1, <3>2
    <2>6. after'[p] # "none"
      BY <1>0, <2>2 DEF ListOk
    <2>. QED
      BY <1>0, <2>2, <2>3, <2>4, <2>5, <2>6 DEF ListOk
  <1>7. CASE write_block(p)
    BY <1>0, <1>7 DEF write_block, ListOk
  <1>8. CASE gcov_close(p)
    <2>1. pc[p] \in Dumping /\ NextFile(p) /\ UNCHANGED <<gcov_list, version, counts, after>>
      BY <1>8 DEF gcov_close, Dumping
    <2>. QED
      BY <1>n, <2>1
  <1>9. /\ \A o \in Objects : /\ Len(Zero(version[p])[o]) = NFunctions[version[p]][o]
                              /\ SumFunction(Zero(version[p])[o]) = 0
    BY <1>t, ZeroType
  <1>10. CASE finish_exit(p) \/ kill(p)
    <2>1. /\ pc'[p] = "done" /\ todo'[p] = <<>> /\ counts'[p] = Zero(version[p])
          /\ UNCHANGED <<gcov_list, version>>
      BY <1>t, <1>10 DEF finish_exit, kill, Gone
    <2>2. /\ \A o \in Objects : /\ Len(counts'[p][o]) = NFunctions[version'[p]][o]
                                /\ SumFunction(counts'[p][o]) = 0
      BY <1>9, <2>1
    <2>. QED
      BY <1>0, <1>s, <2>1, <2>2 DEF ListOk, Dumping, Opening
  <1>11. CASE finish_flush(p)
    <2>1. after[p] \in {"flush", "fork", "exec"} /\ pc[p] = "ended"
      BY <1>0, <1>t, <1>11 DEF finish_flush, ListOk
    <2>2. pc'[p] \in {"count", "fork", "exec"} /\ todo'[p] = todo[p]
      BY <1>t, <1>11, <2>1 DEF finish_flush, Goto
    <2>3. counts'[p] = Zero(version[p]) /\ UNCHANGED <<gcov_list, version>>
      BY <1>t, <1>11 DEF finish_flush, __gcov_flush
    <2>4. /\ \A o \in Objects : /\ Len(counts'[p][o]) = NFunctions[version'[p]][o]
                                /\ SumFunction(counts'[p][o]) = 0
      BY <1>9, <2>3
    <2>5. todo[p] = <<>>
      BY <1>0, <2>1 DEF ListOk, Dumping, Opening
    <2>. QED
      BY <1>0, <1>s, <2>2, <2>3, <2>4, <2>5 DEF ListOk, Dumping, Opening
  <1>12. CASE __gcov_exec(p)
    <2>1. pc'[p] \in {"done", "count"} /\ pc[p] = "exec" /\ todo'[p] = todo[p]
          /\ UNCHANGED <<gcov_list, version, counts, after>>
      BY <1>t, <1>12 DEF __gcov_exec, Goto
    <2>. QED
      BY <1>0, <2>1 DEF ListOk, Dumping, Opening
  <1>. QED
    BY <1>1, <1>2, <1>3, <1>4, <1>5, <1>6, <1>7, <1>8, <1>10, <1>11, <1>12 DEF Action, DumpStep

\* The call of fork: the parent and the child, or the parent alone.
Forked(p, child) ==
  /\ pc[p] = "fork" /\ pc[child] \in {"unborn", "fork"}
  /\ pc'[p] = "count" /\ pc'[child] = "count"
  /\ version'[p] = version[p] /\ gcov_list'[p] = gcov_list[p] /\ counts'[p] = counts[p]
  /\ version'[child] = version[p] /\ gcov_list'[child] = gcov_list[p]
  /\ counts'[child] = counts[p]
  /\ \A q \in Procs \ {p, child} : Same(q)
  /\ UNCHANGED <<todo, dumpVars, writeVars, envVars, ghostVars>>

\* fork makes a child, or fails.
LEMMA ForkCases ==
  ASSUME Types, NEW p \in Procs, __gcov_fork(p)
  PROVE  \E child \in Procs : Forked(p, child)
  <1> USE DEF dumpVars, writeVars, envVars, ghostVars
  <1>t. /\ pc \in [Procs -> Places] /\ version \in [Procs -> Versions]
        /\ gcov_list \in [Procs -> Seq(Objects)]
        /\ counts \in [Procs -> [Objects -> Seq(Nat)]]
    BY DEF Types
  <1>1. pc[p] = "fork" /\ UNCHANGED <<todo, dumpVars, writeVars, envVars, ghostVars>>
    BY DEF __gcov_fork
  <1>2. CASE \E child \in Procs :
               /\ pc[child] = "unborn"
               /\ pc' = [pc EXCEPT ![p] = "count", ![child] = "count"]
               /\ version' = [version EXCEPT ![child] = version[p]]
               /\ gcov_list' = [gcov_list EXCEPT ![child] = gcov_list[p]]
               /\ counts' = [counts EXCEPT ![child] = counts[p]]
    <2>1. PICK child \in Procs :
               /\ pc[child] = "unborn"
               /\ pc' = [pc EXCEPT ![p] = "count", ![child] = "count"]
               /\ version' = [version EXCEPT ![child] = version[p]]
               /\ gcov_list' = [gcov_list EXCEPT ![child] = gcov_list[p]]
               /\ counts' = [counts EXCEPT ![child] = counts[p]]
      BY <1>2
    <2>2. p # child
      BY <1>1, <2>1
    <2>3. /\ pc'[p] = "count" /\ pc'[child] = "count"
          /\ \A q \in Procs \ {p, child} : pc'[q] = pc[q]
      BY <1>t, <2>1
    <2>4. /\ version'[p] = version[p] /\ gcov_list'[p] = gcov_list[p] /\ counts'[p] = counts[p]
          /\ version'[child] = version[p] /\ gcov_list'[child] = gcov_list[p]
          /\ counts'[child] = counts[p]
          /\ \A q \in Procs \ {p, child} : /\ version'[q] = version[q]
                                           /\ gcov_list'[q] = gcov_list[q]
                                           /\ counts'[q] = counts[q]
      BY <1>t, <2>1, <2>2
    <2>5. Forked(p, child)
      BY <1>1, <2>1, <2>3, <2>4 DEF Forked, Same
    <2>. QED
      BY <2>5
  <1>3. CASE pc' = [pc EXCEPT ![p] = "count"] /\ UNCHANGED <<version, gcov_list, counts>>
    <2>1. Forked(p, p)
      BY <1>t, <1>1, <1>3 DEF Forked, Same
    <2>. QED
      BY <2>1
  <1>. QED
    BY <1>2, <1>3 DEF __gcov_fork

\* No step spoils a list.
LEMMA ListsStep ==
  ASSUME IndInv, NEW p \in Procs, Action(p) \/ __gcov_fork(p)
  PROVE  Lists'
  <1>0. Types /\ Lists
    BY DEF IndInv
  <1>1. CASE Action(p)
    <2>1. ASSUME NEW q \in Procs PROVE ListOk(q)'
      <3>1. CASE q = p
        BY <1>1, <3>1, ListOfActor
      <3>2. CASE q # p
        BY <1>0, <1>1, <3>2, OnlyOne, SameList DEF Lists
      <3>. QED
        BY <3>1, <3>2
    <2>. QED
      BY <2>1 DEF Lists
  <1>2. CASE __gcov_fork(p)
    <2>1. PICK child \in Procs : Forked(p, child)
      BY <1>0, <1>2, ForkCases
    <2>2. ListOk(p) /\ ListOk(child)
      BY <1>0 DEF Lists
    <2>3. ASSUME NEW q \in {p, child} PROVE ListOk(q)'
      <3>1. /\ pc'[q] = "count" /\ version'[q] = version[p] /\ gcov_list'[q] = gcov_list[p]
            /\ counts'[q] = counts[p] /\ todo'[q] = todo[q]
        BY <2>1, <2>3 DEF Forked
      <3>2. todo[q] = <<>>
        BY <2>1, <2>2, <2>3 DEF Forked, ListOk, Dumping, Opening
      <3>3. SuffixOf(todo'[q], gcov_list'[q])
        BY <1>0, <3>1, <3>2, SuffixEnds DEF Types
      <3>. QED
        BY <2>2, <3>1, <3>2, <3>3 DEF ListOk, Dumping, Opening
    <2>4. ASSUME NEW q \in Procs \ {p, child} PROVE ListOk(q)'
      BY <1>0, <2>1, SameList DEF Lists, Forked
    <2>5. ASSUME NEW q \in Procs PROVE ListOk(q)'
      BY <2>3, <2>4
    <2>. QED
      BY <2>5 DEF Lists
  <1>. QED
    BY <1>1, <1>2

-----------------------------------------------------------------------------
(* Locks, reasons and foreign files *)

\* A file is locked by the process that merges or writes it.
LockOk(p) ==
  \A o \in Objects : (lock[o] = p) <=> (pc[p] \in {"merge", "write"} /\ o = Current(p))

\* What an action does to the locks of the other processes: nothing.
LEMMA OthersLocks ==
  ASSUME IndInv, NEW p \in Procs, Action(p)
  PROVE  \A q \in Procs : q # p => \A o \in Objects : lock'[o] = q <=> lock[o] = q
  <1> USE DEF progVars, dumpVars, writeVars, envVars, ghostVars
  <1>0. Types /\ Lists /\ ListOk(p) /\ Locks
    BY DEF IndInv, Lists
  <1>t. lock \in [Objects -> Procs \cup {Nobody}] /\ Nobody \notin Procs
    BY <1>0, GcovAssumption DEF Types
  <1>a. ASSUME gcov_open(p) PROVE \A q \in Procs : q # p => \A o \in Objects : lock'[o] = q <=> lock[o] = q
    BY <1>t, <1>a DEF gcov_open
  <1>b. ASSUME pc[p] \in {"merge", "write"}, lock' = [lock EXCEPT ![Current(p)] = Nobody]
        PROVE \A q \in Procs : q # p => \A o \in Objects : lock'[o] = q <=> lock[o] = q
    <2>1. Current(p) \in Objects
      BY <1>0, <1>b, CurrentType DEF Dumping, Opening
    <2>2. lock[Current(p)] = p
      BY <1>0, <1>b, <2>1 DEF Locks
    <2>. QED
      BY <1>t, <1>b, <2>1, <2>2
  <1>1. CASE UNCHANGED lock
    BY <1>1
  <1>2. CASE open(p) \/ reopen(p)
    BY <1>1, <1>2, <1>a DEF open, reopen
  <1>3. CASE merge(p)
    <2>1. pc[p] = "merge" /\ (read_fatal(p) \/ UNCHANGED lock)
      BY <1>0, <1>3, MergeCases DEF Rewritten
    <2>. QED
      BY <1>1, <1>b, <2>1 DEF read_fatal
  <1>4. CASE gcov_close(p)
    BY <1>b, <1>4 DEF gcov_close
  <1>5. CASE kill(p)
    BY <1>t, <1>5 DEF kill
  <1>6. CASE \E o \in Objects : __gcov_init(p, o) \/ \E k \in 1..MaxFunctions : count(p, o, k)
    BY <1>1, <1>6 DEF __gcov_init, count
  <1>7. CASE \E why \in {"exit", "flush", "fork", "exec"} : gcov_exit(p, why)
    BY <1>1, <1>7 DEF gcov_exit
  <1>8. CASE access(p) \/ create_file_directory(p) \/ write_block(p)
    BY <1>1, <1>8 DEF access, create_file_directory, write_block
  <1>9. CASE finish_exit(p) \/ finish_flush(p) \/ __gcov_exec(p)
    BY <1>1, <1>9 DEF finish_exit, finish_flush, __gcov_exec
  <1>. QED
    BY <1>2, <1>3, <1>4, <1>5, <1>6, <1>7, <1>8, <1>9 DEF Action, DumpStep

\* The locks of the process that acts.
LEMMA OwnLock ==
  ASSUME IndInv, NEW p \in Procs, Action(p)
  PROVE  LockOk(p)'
  <1> USE DEF progVars, dumpVars, writeVars, envVars, ghostVars
  <1>0. Types /\ Lists /\ ListOk(p) /\ LockOk(p)
    BY DEF IndInv, Lists, Locks, LockOk
  <1>t. /\ lock \in [Objects -> Procs \cup {Nobody}] /\ Nobody \notin Procs
        /\ pc \in [Procs -> Places]
    BY <1>0, GcovAssumption DEF Types
  <1>1. ASSUME UNCHANGED lock, pc[p] \notin {"merge", "write"}, pc'[p] \notin {"merge", "write"}
        PROVE  LockOk(p)'
    BY <1>0, <1>1 DEF LockOk
  <1>2. ASSUME UNCHANGED <<lock, todo>>, pc[p] \in {"merge", "write"}, pc'[p] \in {"merge", "write"}
        PROVE  LockOk(p)'
    BY <1>0, <1>2 DEF LockOk, Current
  <1>3. ASSUME gcov_open(p), pc[p] \in Opening, pc[p] # "merge" PROVE LockOk(p)'
    <2>1. Current(p) \in Objects /\ Current(p)' = Current(p) /\ pc'[p] = "merge"
          /\ lock' = [lock EXCEPT ![Current(p)] = p]
      BY <1>0, <1>t, <1>3, CurrentType DEF gcov_open, Goto, Current, Dumping
    <2>2. \A o \in Objects : lock[o] # p
      BY <1>0, <1>3 DEF LockOk, Opening
    <2>. QED
      BY <1>t, <2>1, <2>2 DEF LockOk
  <1>4. ASSUME pc[p] \in {"merge", "write"}, lock' = [lock EXCEPT ![Current(p)] = Nobody], NextFile(p)
        PROVE  LockOk(p)'
    <2>1. Current(p) \in Objects
      BY <1>0, <1>4, CurrentType DEF Dumping, Opening
    <2>2. \A o \in Objects : lock'[o] # p
      BY <1>0, <1>t, <1>4, <2>1 DEF LockOk
    <2>3. pc'[p] \in {"open", "ended"}
      BY <1>t, <1>4 DEF NextFile
    <2>. QED
      BY <2>2, <2>3 DEF LockOk
  <1>5. CASE open(p) \/ reopen(p)
    <2>1. pc[p] \in Opening /\ pc[p] # "merge" /\ pc[p] # "write"
      BY <1>5 DEF open, reopen, Opening
    <2>2. gcov_open(p) \/ (UNCHANGED lock /\ pc'[p] \in {"access", "open", "ended"})
      BY <1>t, <1>5 DEF open, reopen, Goto, Skip, NextFile
    <2>. QED
      BY <1>1, <1>3, <2>1, <2>2
  <1>6. CASE merge(p)
    <2>1. pc[p] = "merge" /\ (read_fatal(p) \/ (Goto(p, "write") /\ UNCHANGED lock))
      BY <1>0, <1>6, MergeCases DEF Rewritten
    <2>. QED
      BY <1>t, <1>2, <1>4, <2>1 DEF read_fatal, Goto
  <1>7. CASE gcov_close(p)
    BY <1>4, <1>7 DEF gcov_close
  <1>8. CASE kill(p)
    <2>1. pc'[p] = "done" /\ lock' = [o \in Objects |-> IF lock[o] = p THEN Nobody ELSE lock[o]]
      BY <1>t, <1>8 DEF kill, Gone
    <2>2. \A o \in Objects : lock'[o] # p
      BY <1>t, <2>1
    <2>. QED
      BY <2>1, <2>2 DEF LockOk
  <1>9. CASE \E o \in Objects : __gcov_init(p, o) \/ \E k \in 1..MaxFunctions : count(p, o, k)
    BY <1>1, <1>9 DEF __gcov_init, count
  <1>10. CASE \E why \in {"exit", "flush", "fork", "exec"} : gcov_exit(p, why)
    BY <1>1, <1>t, <1>10 DEF gcov_exit
  <1>11. CASE access(p) \/ create_file_directory(p)
    <2>1. pc[p] \in {"access", "mkdir"} /\ UNCHANGED lock
          /\ pc'[p] \in {"reopen", "mkdir", "open", "ended"}
      BY <1>t, <1>11 DEF access, create_file_directory, mkdir, Goto, Skip, NextFile
    <2>. QED
      BY <1>1, <2>1
  <1>12. CASE write_block(p)
    BY <1>2, <1>12 DEF write_block
  <1>13. CASE finish_exit(p)
    BY <1>1, <1>t, <1>13 DEF finish_exit, Gone
  <1>14. CASE finish_flush(p)
    <2>1. after[p] \in {"flush", "fork", "exec"} /\ pc[p] = "ended" /\ UNCHANGED lock
      BY <1>0, <1>14 DEF finish_flush, ListOk, Types
    <2>2. pc'[p] \in {"count", "fork", "exec"}
      BY <1>t, <1>14, <2>1 DEF finish_flush, Goto
    <2>. QED
      BY <1>1, <2>1, <2>2
  <1>15. CASE __gcov_exec(p)
    BY <1>1, <1>t, <1>15 DEF __gcov_exec, Goto
  <1>. QED
    BY <1>5, <1>6, <1>7, <1>8, <1>9, <1>10, <1>11, <1>12, <1>13, <1>14, <1>15 DEF Action, DumpStep

\* No step breaks the locks.
LEMMA LocksStep ==
  ASSUME IndInv, NEW p \in Procs, Action(p) \/ __gcov_fork(p)
  PROVE  Locks'
  <1>0. Types /\ Locks
    BY DEF IndInv
  <1>1. CASE Action(p)
    <2>1. ASSUME NEW q \in Procs PROVE LockOk(q)'
      <3>1. CASE q = p
        BY <1>1, <3>1, OwnLock
      <3>2. CASE q # p
        <4>1. Same(q)
          BY <1>0, <1>1, <3>2, OnlyOne
        <4>2. \A o \in Objects : lock'[o] = q <=> lock[o] = q
          BY <1>1, <3>2, OthersLocks
        <4>. QED
          BY <1>0, <4>1, <4>2 DEF Locks, LockOk, Same, Current
      <3>. QED
        BY <3>1, <3>2
    <2>. QED
      BY <2>1 DEF Locks, LockOk
  <1>2. CASE __gcov_fork(p)
    <2>1. PICK child \in Procs : Forked(p, child)
      BY <1>0, <1>2, ForkCases
    <2>2. UNCHANGED <<lock, todo>>
      BY <2>1 DEF Forked, envVars
    <2>3. ASSUME NEW q \in {p, child}, NEW o \in Objects
          PROVE  lock'[o] # q /\ pc'[q] \notin {"merge", "write"}
      BY <1>0, <2>1, <2>2 DEF Forked, Locks
    <2>4. ASSUME NEW q \in Procs \ {p, child} PROVE LockOk(q)'
      BY <1>0, <2>1, <2>2 DEF Forked, Same, Locks, LockOk, Current
    <2>. QED
      BY <2>3, <2>4 DEF Locks, LockOk
  <1>. QED
    BY <1>1, <1>2

\* Only write_block changes a file, that of the object the dump works at; nothing
\* changes the file system, but that directories are made.
LEMMA FileKept ==
  ASSUME Types, Lists, NEW p \in Procs, Action(p) \/ __gcov_fork(p)
  PROVE  /\ disk' = disk /\ dirs \subseteq dirs'
         /\ file' = file \/ write_block(p)
  <1> USE DEF progVars, dumpVars, writeVars, envVars, ghostVars
  <1>1. CASE \E o \in Objects : __gcov_init(p, o) \/ \E k \in 1..MaxFunctions : count(p, o, k)
    BY <1>1 DEF __gcov_init, count
  <1>2. CASE \E why \in {"exit", "flush", "fork", "exec"} : gcov_exit(p, why)
    BY <1>2 DEF gcov_exit
  <1>3. CASE open(p) \/ access(p)
    BY <1>3 DEF open, access
  <1>4. CASE create_file_directory(p) \/ reopen(p)
    BY <1>4 DEF create_file_directory, mkdir, reopen
  <1>5. CASE merge(p)
    BY <1>5, MergeCases
  <1>6. CASE write_block(p) \/ gcov_close(p)
    BY <1>6 DEF write_block, gcov_close
  <1>7. CASE finish_exit(p) \/ finish_flush(p)
    BY <1>7 DEF finish_exit, finish_flush
  <1>8. CASE __gcov_exec(p) \/ __gcov_fork(p)
    BY <1>8 DEF __gcov_exec, __gcov_fork
  <1>9. CASE kill(p)
    BY <1>9 DEF kill
  <1>. QED
    BY <1>1, <1>2, <1>3, <1>4, <1>5, <1>6, <1>7, <1>8, <1>9 DEF Action, DumpStep

\* A file is skipped where its directory cannot be made or, once there is one,
\* where it cannot be opened.
LEMMA ReasonsStep ==
  ASSUME IndInv, NEW p \in Procs, Action(p) \/ __gcov_fork(p)
  PROVE  Reasons'
  <1> USE DEF progVars, dumpVars, writeVars, envVars, ghostVars
  <1>0. Types /\ Lists /\ Reasons /\ ListOk(p)
    BY DEF IndInv, Lists
  <1>t. pc \in [Procs -> Places]
    BY <1>0 DEF Types
  <1>1. disk' = disk /\ dirs \subseteq dirs'
    BY <1>0, FileKept
  <1>2. /\ skipped' \subseteq disk.noopen \cup disk.nodir
        /\ Action(p) /\ pc'[p] = "reopen" => Current(p)' \in dirs'
    <2>1. CASE \E o \in Objects : __gcov_init(p, o) \/ \E k \in 1..MaxFunctions : count(p, o, k)
      BY <1>0, <2>1 DEF __gcov_init, count, Reasons
    <2>2. CASE \E why \in {"exit", "flush", "fork", "exec"} : gcov_exit(p, why)
      BY <1>0, <1>t, <2>2 DEF gcov_exit, Reasons
    <2>3. CASE open(p)
      BY <1>0, <1>t, <2>3 DEF open, gcov_open, Goto, Reasons
    <2>4. CASE access(p)
      BY <1>0, <1>t, <2>4 DEF access, Goto, Reasons, Current
    <2>5. CASE create_file_directory(p)
      <3>1. UNCHANGED disk
        BY <2>5 DEF create_file_directory
      <3>2. CASE /\ dirs' = dirs \cup {Current(p)}
                 /\ Goto(p, "reopen")
                 /\ UNCHANGED <<discarded, skipped>>
        BY <1>0, <1>t, <3>2 DEF Goto, Reasons, Current
      <3>3. CASE Current(p) \in disk.nodir /\ Skip(p) /\ UNCHANGED dirs
        <4>1. pc'[p] \in {"open", "ended"} /\ skipped' = skipped \cup {Current(p)}
          BY <1>t, <3>3 DEF Skip, NextFile
        <4>. QED
          BY <1>0, <3>3, <4>1 DEF Reasons
      <3>. QED
        BY <2>5, <3>2, <3>3 DEF create_file_directory, mkdir
    <2>6. CASE reopen(p)
      <3>1. CASE gcov_open(p) /\ UNCHANGED <<discarded, skipped>>
        BY <1>0, <1>t, <3>1 DEF gcov_open, Goto, Reasons
      <3>2. CASE Current(p) \notin dirs \ disk.noopen /\ Skip(p) /\ UNCHANGED lock
        <4>1. pc'[p] \in {"open", "ended"} /\ skipped' = skipped \cup {Current(p)}
          BY <1>t, <3>2 DEF Skip, NextFile
        <4>2. Current(p) \in dirs
          BY <1>0, <2>6 DEF reopen, Reasons
        <4>. QED
          BY <1>0, <3>2, <4>1, <4>2 DEF Reasons
      <3>. QED
        BY <2>6, <3>1, <3>2 DEF reopen
    <2>7. CASE merge(p)
      <3>1. skipped' = skipped /\ (NextFile(p) \/ Goto(p, "write"))
        BY <1>0, <2>7, MergeCases DEF read_fatal, Rewritten
      <3>. QED
        BY <1>0, <1>t, <3>1 DEF NextFile, Goto, Reasons
    <2>8. CASE write_block(p) \/ gcov_close(p)
      BY <1>0, <1>t, <2>8 DEF write_block, gcov_close, NextFile, Reasons
    <2>9. CASE finish_exit(p) \/ kill(p)
      BY <1>0, <1>t, <2>9 DEF finish_exit, kill, Gone, Reasons
    <2>10. CASE finish_flush(p)
      <3>1. after[p] \in {"none", "exit", "flush", "fork", "exec"}
        BY <1>0 DEF Types
      <3>. QED
        BY <1>0, <1>t, <2>10, <3>1 DEF finish_flush, Goto, Reasons
    <2>11. CASE __gcov_exec(p)
      BY <1>0, <1>t, <2>11 DEF __gcov_exec, Goto, Reasons
    <2>12. CASE __gcov_fork(p)
      <3>1. skipped' = skipped /\ pc'[p] = "count"
        BY <1>0, <2>12, ForkCases DEF Forked
      <3>. QED
        BY <1>0, <3>1 DEF Reasons
    <2>. QED
      BY <2>1, <2>2, <2>3, <2>4, <2>5, <2>6, <2>7, <2>8, <2>9, <2>10, <2>11, <2>12
         DEF Action, DumpStep
  <1>3. ASSUME NEW q \in Procs, pc'[q] = "reopen" PROVE Current(q)' \in dirs'
    <2>1. CASE Action(p) /\ q = p
      BY <1>2, <1>3, <2>1
    <2>2. CASE Action(p) /\ q # p
      BY <1>0, <1>1, <1>3, <2>2, OnlyOne DEF Same, Reasons, Current
    <2>3. CASE __gcov_fork(p)
      <3>1. PICK child \in Procs : Forked(p, child)
        BY <1>0, <2>3, ForkCases
      <3>2. q \in Procs \ {p, child}
        BY <1>3, <3>1 DEF Forked
      <3>. QED
        BY <1>0, <1>1, <1>3, <3>1, <3>2 DEF Forked, Same, Reasons, Current
    <2>. QED
      BY <2>1, <2>2, <2>3
  <1>. QED
    BY <1>1, <1>2, <1>3 DEF Reasons

\* A process writes a file once it has merged it, and until it closes it.
LEMMA WritesFrom ==
  ASSUME Types, NEW p \in Procs, Action(p), pc'[p] = "write"
  PROVE  merge(p) \/ write_block(p)
  <1> USE DEF progVars, dumpVars, writeVars, envVars, ghostVars
  <1>t. pc \in [Procs -> Places]
    BY DEF Types
  <1>1. CASE \E o \in Objects : __gcov_init(p, o) \/ \E k \in 1..MaxFunctions : count(p, o, k)
    BY <1>1 DEF __gcov_init, count
  <1>2. CASE \E why \in {"exit", "flush", "fork", "exec"} : gcov_exit(p, why)
    BY <1>t, <1>2 DEF gcov_exit
  <1>3. CASE open(p) \/ access(p)
    BY <1>t, <1>3 DEF open, access, gcov_open, Goto
  <1>4. CASE create_file_directory(p) \/ reopen(p)
    BY <1>t, <1>4 DEF create_file_directory, reopen, mkdir, Skip, NextFile, gcov_open, Goto
  <1>5. CASE gcov_close(p)
    BY <1>t, <1>5 DEF gcov_close, NextFile
  <1>6. CASE finish_exit(p) \/ kill(p)
    BY <1>t, <1>6 DEF finish_exit, kill, Gone
  <1>7. CASE finish_flush(p)
    <2>1. after[p] \in {"none", "exit", "flush", "fork", "exec"}
      BY DEF Types
    <2>. QED
      BY <1>t, <1>7, <2>1 DEF finish_flush, Goto
  <1>8. CASE __gcov_exec(p)
    BY <1>t, <1>8 DEF __gcov_exec, Goto
  <1>. QED
    BY <1>1, <1>2, <1>3, <1>4, <1>5, <1>6, <1>7, <1>8 DEF Action, DumpStep

\* A foreign file is not written: it is found out when it is merged.
LEMMA ForeignStep ==
  ASSUME IndInv, NEW p \in Procs, Action(p) \/ __gcov_fork(p)
  PROVE  Foreign'
  <1> USE DEF progVars, dumpVars, writeVars, envVars, ghostVars
  <1>0. Types /\ Lists /\ Foreign /\ ListOk(p)
    BY DEF IndInv, Lists
  <1>t. pc \in [Procs -> Places] /\ file \in [Objects -> Seq(Cells)]
    BY <1>0 DEF Types
  <1>1. disk' = disk /\ (file' = file \/ write_block(p))
    BY <1>0, FileKept
  <1>2. \A o \in Objects : o \in disk.foreign => file'[o] = file[o]
    <2>1. CASE file' = file
      BY <2>1
    <2>2. CASE write_block(p)
      <3>1. pc[p] = "write"
            /\ file' = [file EXCEPT ![Current(p)] =
                          Overwrite(@, pending[p][1].at, pending[p][1].cells)]
        BY <2>2 DEF write_block
      <3>2. Current(p) \notin disk.foreign
        BY <1>0, <3>1 DEF Foreign
      <3>. QED
        BY <1>t, <3>1, <3>2
    <2>. QED
      BY <1>1, <2>1, <2>2
  <1>3. Action(p) /\ pc'[p] = "write" => Current(p)' \notin disk.foreign
    <2> SUFFICES ASSUME Action(p), pc'[p] = "write" PROVE Current(p)' \notin disk.foreign
      OBVIOUS
    <2>1. CASE merge(p)
      <3>1. pc[p] = "merge" /\ pc[p] \in Dumping
        BY <1>0, <2>1, MergeCases DEF Dumping, Opening
      <3>2. NextFile(p) \/ (file[Current(p)] # <<ForeignHead>> /\ Goto(p, "write"))
        BY <1>0, <2>1, MergeCases DEF read_fatal, Rewritten, Mergeable
      <3>3. Current(p) \in Objects
        BY <1>0, <3>1, CurrentType
      <3>4. CASE NextFile(p)
        BY <1>t, <3>4 DEF NextFile
      <3>5. CASE file[Current(p)] # <<ForeignHead>> /\ Goto(p, "write")
        BY <1>0, <3>3, <3>5 DEF Foreign, Goto, Current
      <3>. QED
        BY <3>2, <3>4, <3>5
    <2>2. CASE write_block(p)
      BY <1>0, <2>2 DEF write_block, Foreign, Current
    <2>. QED
      BY <1>0, <2>1, <2>2, WritesFrom
  <1>4. ASSUME NEW q \in Procs, pc'[q] = "write" PROVE Current(q)' \notin disk.foreign
    <2>1. CASE Action(p) /\ q = p
      BY <1>3, <1>4, <2>1
    <2>2. CASE Action(p) /\ q # p
      BY <1>0, <1>4, <2>2, OnlyOne DEF Same, Foreign, Current
    <2>3. CASE __gcov_fork(p)
      <3>1. PICK child \in Procs : Forked(p, child)
        BY <1>0, <2>3, ForkCases
      <3>2. q \in Procs \ {p, child}
        BY <1>4, <3>1 DEF Forked
      <3>. QED
        BY <1>0, <1>4, <3>1, <3>2 DEF Forked, Same, Foreign, Current
    <2>. QED
      BY <2>1, <2>2, <2>3
  <1>. QED
    BY <1>0, <1>1, <1>2, <1>4 DEF Foreign

-----------------------------------------------------------------------------
(* The blocks of a file that is being written *)

\* No two processes write the same file.
LEMMA OneWriter ==
  ASSUME Types, Lists, Locks, NEW p \in Procs, NEW q \in Procs, q # p,
         pc[p] = "write", pc[q] = "write"
  PROVE  Current(p) # Current(q)
  <1>1. Current(p) \in Objects
    BY CurrentType DEF Lists, Dumping
  <1>. QED
    BY <1>1 DEF Locks

\* No step gets in the way of a file that is written.
LEMMA WritingStep ==
  ASSUME IndInv, NEW p \in Procs, Action(p) \/ __gcov_fork(p)
  PROVE  Writing'
  <1> USE DEF progVars, dumpVars, writeVars, envVars, ghostVars
  <1>0. Types /\ Lists /\ Locks /\ ListOk(p) /\ Counted /\ Writing
    BY DEF IndInv, Lists, Counted, ListOk
  <1>f. ASSUME NEW q \in Procs, q # p, pc[q] = "write"
        PROVE  file'[Current(q)] = file[Current(q)]
    <2>1. CASE file' = file
      BY <2>1
    <2>2. CASE write_block(p)
      <3>1. Current(p) # Current(q)
        BY <1>0, <1>f, <2>2, OneWriter DEF write_block
      <3>2. Current(q) \in Objects
        BY <1>0, <1>f, CurrentType DEF Lists, Dumping
      <3>. QED
        BY <1>0, <2>2, <3>1, <3>2 DEF write_block, Types
    <2>. QED
      BY <1>0, <2>1, <2>2, FileKept
  <1>1. ASSUME Action(p), pc'[p] = "write" PROVE WriteOk(p)'
    <2> DEFINE o == Current(p)
               f == file[o]
               c == counts[p][o]
               stamp == Stamp[version[p]][o]
    <2>0. pc[p] \in {"merge", "write"} /\ pc[p] \in Dumping /\ UNCHANGED version
      BY <1>0, <1>1, WritesFrom, MergeCases DEF write_block, Dumping, Opening
    <2>1. /\ o \in Objects /\ f \in Seq(Cells) /\ c \in Seq(Nat) /\ stamp \in Nat
          /\ gcov_list[p] \in Seq(Objects) /\ pending \in [Procs -> Seq(BlockSet)]
          /\ counts \in [Procs -> [Objects -> Seq(Nat)]] /\ eof_pos[p] \in Nat
          /\ file \in [Objects -> Seq(Cells)]
      BY <1>0, <2>0, CurrentType, GcovAssumption DEF Types
    <2>2. CASE merge(p)
      <3>1. PICK m \in Seq(Nat) :
              /\ Len(m) = Len(counts[p][Current(p)])
              /\ counts' = [counts EXCEPT ![p][Current(p)] = m]
              /\ \/ read_fatal(p)
                 \/ \E obj, prg, pos, own :
                      /\ Mergeable(file[Current(p)], Stamp[version[p]][Current(p)],
                                   counts[p][Current(p)], m, obj, prg, pos)
                      /\ Rewritten(p, m, obj, prg, pos, own)
        BY <1>0, <2>2, MergeCases
      <3>2. ~read_fatal(p)
        BY <1>0, <1>1 DEF read_fatal, NextFile, Types
      <3>3. PICK obj, prg, pos, own : Mergeable(f, stamp, c, m, obj, prg, pos)
                                      /\ Rewritten(p, m, obj, prg, pos, own)
        BY <3>1, <3>2
      <3> DEFINE this == ObjectTotals(p, o)
                 B == NewBlocks(stamp, m, gcov_list[p], Merged(obj, this),
                                Merged(prg, program[p]), pos, own)
      <3>4. this \in Summaries /\ this.sum_all = SumFunction(c)
        BY <1>0, <2>1, ObjectTotalsType
      <3>5. Merged(obj, this) \in Summaries /\ Merged(prg, program[p]) \in Summaries
        BY <1>0, <3>3, <3>4, MergedType DEF Mergeable, Types
      <3>6. pos \in Nat /\ (pos = 0 \/ (Len(m) + 2 <= pos /\ pos <= Len(f) + 1))
            /\ SumFunction(m) = SumFunction(c) + Kept(f, stamp)
        BY <3>3 DEF Mergeable
      <3>7. B # <<>> /\ Planned(f, B, pos, stamp, m)
        BY <2>1, <3>5, <3>6, NewPlanned
      <3>8. pending' = [pending EXCEPT ![p] = B] /\ object' = [object EXCEPT ![p] = this]
            /\ eof_pos' = [eof_pos EXCEPT ![p] = pos] /\ begun' = [begun EXCEPT ![p] = FALSE]
            /\ UNCHANGED todo
        BY <3>3 DEF Rewritten, Goto
      <3> HIDE DEF B, this
      <3>9. /\ pending'[p] = B /\ object'[p] = this /\ eof_pos'[p] = pos
            /\ Current(p)' = o
        BY <1>0, <3>8 DEF Types, Current
      <3>10. counts'[p][o] = m /\ file'[o] = f /\ Stamp[version'[p]][o] = stamp
        BY <1>0, <2>0, <2>1, <2>2, <3>1, MergeCases
      <3>11. object'[p].sum_all = SumFunction(c)
        BY <3>4, <3>9
      <3>. QED
        BY <3>6, <3>7, <3>9, <3>10, <3>11 DEF WriteOk
    <2>3. CASE write_block(p)
      <3>1. /\ pending[p] # <<>> /\ pc[p] = "write"
            /\ file' = [file EXCEPT ![o] = Overwrite(@, pending[p][1].at, pending[p][1].cells)]
            /\ pending' = [pending EXCEPT ![p] = Tail(@)]
            /\ begun' = [begun EXCEPT ![p] = TRUE]
            /\ UNCHANGED <<todo, counts, eof_pos>>
        BY <2>3 DEF write_block
      <3> DEFINE g == Overwrite(f, pending[p][1].at, pending[p][1].cells)
      <3>2. Planned(f, pending[p], eof_pos[p], stamp, c)
        BY <1>0, <3>1 DEF Writing, WriteOk
      <3>3. Planned(g, Tail(pending[p]), eof_pos[p], stamp, c)
        BY <2>1, <3>1, <3>2, PlannedWrite
      <3>4. file'[o] = g /\ pending'[p] = Tail(pending[p]) /\ begun'[p] /\ Current(p)' = o
        BY <1>0, <2>1, <3>1 DEF Types, Current
      <3> HIDE DEF g
      <3>5. counts'[p][o] = c /\ Stamp[version'[p]][o] = stamp /\ eof_pos'[p] = eof_pos[p]
        BY <2>0, <3>1
      <3>. QED
        BY <3>3, <3>4, <3>5 DEF WriteOk
    <2>. QED
      BY <1>0, <1>1, <2>2, <2>3, WritesFrom
  <1>2. ASSUME NEW q \in Procs PROVE WriteOk(q)'
    <2>1. CASE Action(p) /\ q = p
      BY <1>1, <2>1 DEF WriteOk
    <2>2. CASE Action(p) /\ q # p
      BY <1>0, <1>f, <2>2, OnlyOne, SameWrite DEF Writing
    <2>3. CASE __gcov_fork(p)
      <3>1. PICK child \in Procs : Forked(p, child)
        BY <1>0, <2>3, ForkCases
      <3>2. CASE q \in {p, child}
        BY <3>1, <3>2 DEF Forked, WriteOk
      <3>3. CASE q \notin {p, child}
        BY <1>0, <1>f, <3>1, <3>3, SameWrite DEF Writing, Forked
      <3>. QED
        BY <3>2, <3>3
    <2>. QED
      BY <2>1, <2>2, <2>3
  <1>. QED
    BY <1>2 DEF Writing

-----------------------------------------------------------------------------
(* The balance *)

\* Of the processes, at most one has begun to write a file.
LEMMA OneBegun ==
  ASSUME Types, Lists, Locks, NEW p \in Procs, NEW q \in Procs, NEW o, Begun(p, o), Begun(q, o)
  PROVE  p = q
  BY OneWriter DEF Begun

\* The parts of the balance are natural numbers.
LEMMA BalanceNat ==
  ASSUME Types, Lists, NEW o \in Objects
  PROVE  /\ executed[o] \in Nat /\ discarded[o] \in Nat /\ InFile(file[o]) \in Nat
         /\ \A p \in Procs : SumFunction(counts[p][o]) \in Nat /\ Undumped(p, o) \in Nat
  <1>1. Counted
    BY DEF Lists, ListOk, Counted
  <1>2. \A p \in Procs : SumFunction(counts[p][o]) \in Nat
    BY <1>1, CountersType
  <1>3. \A p \in Procs : Undumped(p, o) \in Nat
    BY UndumpedIs DEF AllUndumped, UndumpedAt
  <1>4. InFile(file[o]) \in Nat
    BY InFileNat DEF Types
  <1>. QED
    BY <1>2, <1>3, <1>4 DEF Types

\* So they are in the next state.
LEMMA BalanceNatNext ==
  ASSUME Types', Lists', NEW o \in Objects
  PROVE  /\ executed'[o] \in Nat /\ discarded'[o] \in Nat
         /\ \A p \in Procs : Undumped(p, o)' \in Nat
  <1>1. \A p \in Procs : Undumped(p, o)' \in Nat
    BY UndumpedNext DEF AllUndumped, UndumpedAt
  <1>. QED
    BY <1>1 DEF Types

\* A step that neither begins nor ends the writing of the file moves counts
\* between what was executed, what is not yet dumped, and what is given up.
LEMMA BalanceKept ==
  ASSUME Types, Lists, Types', Lists', NEW p \in Procs, NEW o \in Objects, BalanceAt(o),
         \A q \in Procs : q # p => Same(q),
         file'[o] = file[o],
         Begun(p, o)' <=> Begun(p, o),
         Begun(p, o) => counts'[p][o] = counts[p][o],
         executed'[o] + Undumped(p, o) + discarded[o] =
           executed[o] + Undumped(p, o)' + discarded'[o]
  PROVE  BalanceAt(o)'
  <1>1. /\ Total(o) \in Nat /\ Total(o)' \in Nat
        /\ Total(o)' + Undumped(p, o) + discarded[o] = Total(o) + Undumped(p, o)' + discarded'[o]
    BY TotalChange
  <1>2. /\ executed[o] \in Nat /\ discarded[o] \in Nat /\ InFile(file[o]) \in Nat
        /\ \A q \in Procs : SumFunction(counts[q][o]) \in Nat /\ Undumped(q, o) \in Nat
    BY BalanceNat
  <1>3. /\ executed'[o] \in Nat /\ discarded'[o] \in Nat
        /\ \A q \in Procs : Undumped(q, o)' \in Nat
    BY BalanceNatNext
  <1>4. ASSUME NEW x \in Nat, executed[o] = x + Total(o) PROVE executed'[o] = x + Total(o)'
    <2> DEFINE t == Total(o)
               u == Total(o)'
               a == Undumped(p, o)
               b == Undumped(p, o)'
               d == discarded[o]
               e == discarded'[o]
               y == executed[o]
               z == executed'[o]
    <2>1. /\ t \in Nat /\ u \in Nat /\ a \in Nat /\ b \in Nat /\ d \in Nat /\ e \in Nat
          /\ y \in Nat /\ z \in Nat /\ x \in Nat
          /\ u + a + d = t + b + e /\ z + a + d = y + b + e /\ y = x + t
      BY <1>1, <1>2, <1>3, <1>4
    <2> HIDE DEF t, u, a, b, d, e, y, z
    <2>2. z = x + u
      BY ONLY <2>1
    <2>. QED
      BY <2>2 DEF z, u
  <1>5. \A q \in Procs : Begun(q, o)' <=> Begun(q, o)
    BY DEF Begun, Same, Current
  <1>6. \A q \in Procs : Begun(q, o) => counts'[q][o] = counts[q][o]
    BY DEF Same
  <1>7. ASSUME \A q \in Procs : ~Begun(q, o)' PROVE executed'[o] = InFile(file'[o]) + Total(o)'
    <2>1. executed[o] = InFile(file[o]) + Total(o)
      BY <1>5, <1>7 DEF BalanceAt
    <2>. QED
      BY <1>2, <1>4, <2>1
  <1>8. ASSUME NEW q \in Procs, Begun(q, o)'
        PROVE  executed'[o] = SumFunction(counts'[q][o]) + Total(o)'
    <2>1. executed[o] = SumFunction(counts[q][o]) + Total(o) /\ counts'[q][o] = counts[q][o]
      BY <1>5, <1>6, <1>8 DEF BalanceAt
    <2>. QED
      BY <1>2, <1>4, <2>1
  <1>. QED
    BY <1>7, <1>8 DEF BalanceAt

\* The end of the writing of a file, where its counters are all in place.
LEMMA BalanceClosed ==
  ASSUME Types, Lists, Locks, Types', Lists', NEW p \in Procs, NEW o \in Objects, BalanceAt(o),
         \A q \in Procs : q # p => Same(q),
         file'[o] = file[o],
         Begun(p, o), ~Begun(p, o)',
         InFile(file[o]) = SumFunction(counts[p][o]),
         executed'[o] = executed[o],
         Undumped(p, o) + discarded[o] = Undumped(p, o)' + discarded'[o]
  PROVE  BalanceAt(o)'
  <1>1. /\ Total(o) \in Nat /\ Total(o)' \in Nat
        /\ Total(o)' + Undumped(p, o) + discarded[o] = Total(o) + Undumped(p, o)' + discarded'[o]
    BY TotalChange
  <1>2. /\ executed[o] \in Nat /\ discarded[o] \in Nat /\ InFile(file[o]) \in Nat
        /\ Undumped(p, o) \in Nat
    BY BalanceNat
  <1>3. discarded'[o] \in Nat /\ Undumped(p, o)' \in Nat
    BY BalanceNatNext
  <1>4. Total(o)' = Total(o)
    <2> DEFINE t == Total(o)
               u == Total(o)'
               a == Undumped(p, o)
               b == Undumped(p, o)'
               d == discarded[o]
               e == discarded'[o]
    <2>1. /\ t \in Nat /\ u \in Nat /\ a \in Nat /\ b \in Nat /\ d \in Nat /\ e \in Nat
          /\ u + a + d = t + b + e /\ a + d = b + e
      BY <1>1, <1>2, <1>3
    <2> HIDE DEF t, u, a, b, d, e
    <2>2. u = t
      BY <2>1
    <2>. QED
      BY <2>2 DEF u, t
  <1>5. executed[o] = InFile(file[o]) + Total(o)
    BY DEF BalanceAt
  <1>6. \A q \in Procs : ~Begun(q, o)'
    <2> SUFFICES ASSUME NEW q \in Procs, Begun(q, o)' PROVE FALSE
      OBVIOUS
    <2>1. q # p
      OBVIOUS
    <2>2. Begun(q, o)
      BY <2>1 DEF Begun, Same, Current
    <2>. QED
      BY <2>1, <2>2, OneBegun
  <1>. QED
    BY <1>4, <1>5, <1>6 DEF BalanceAt

\* The first block of a file: what was in memory is now that of the file.
LEMMA BalanceOpened ==
  ASSUME Types, Lists, Locks, Types', Lists', NEW p \in Procs, NEW o \in Objects, BalanceAt(o),
         \A q \in Procs : q # p => Same(q),
         pc[p] = "write", o = Current(p), ~begun[p],
         Begun(p, o)', counts'[p][o] = counts[p][o],
         executed'[o] = executed[o],
         NEW kept \in Nat, NEW lost \in Nat, InFile(file[o]) = kept + lost,
         SumFunction(counts[p][o]) = object[p].sum_all + kept,
         discarded'[o] = discarded[o] + lost
  PROVE  BalanceAt(o)'
  <1>1. /\ Total(o) \in Nat /\ Total(o)' \in Nat
        /\ Total(o)' + Undumped(p, o) + discarded[o] = Total(o) + Undumped(p, o)' + discarded'[o]
    BY TotalChange
  <1>2. /\ executed[o] \in Nat /\ discarded[o] \in Nat /\ InFile(file[o]) \in Nat
        /\ SumFunction(counts[p][o]) \in Nat /\ object[p].sum_all \in Nat
    BY BalanceNat DEF Types, Summaries
  <1>3. Undumped(p, o) = object[p].sum_all
    BY UndumpedIs DEF AllUndumped, UndumpedAt
  <1>4. Undumped(p, o)' = 0
    BY UndumpedNext DEF AllUndumped, UndumpedAt, Begun
  <1>5. executed[o] = InFile(file[o]) + Total(o)
    <2>1. \A q \in Procs : ~Begun(q, o)
      BY OneWriter DEF Begun
    <2>. QED
      BY <2>1 DEF BalanceAt
  <1>6. executed[o] = SumFunction(counts[p][o]) + Total(o)'
    <2> DEFINE t == Total(o)
               u == Total(o)'
               a == object[p].sum_all
               d == discarded[o]
               y == executed[o]
               s == SumFunction(counts[p][o])
               i == InFile(file[o])
    <2>1. /\ t \in Nat /\ u \in Nat /\ a \in Nat /\ d \in Nat /\ y \in Nat /\ s \in Nat /\ i \in Nat
          /\ u + a + d = t + 0 + (d + lost) /\ s = a + kept /\ i = kept + lost /\ y = i + t
      BY <1>1, <1>2, <1>3, <1>4, <1>5
    <2> HIDE DEF t, u, a, d, y, s, i
    <2>2. y = s + u
      BY <2>1
    <2>. QED
      BY <2>2 DEF y, s, u
  <1>7. ASSUME NEW q \in Procs, Begun(q, o)' PROVE q = p
    <2> SUFFICES ASSUME q # p PROVE FALSE
      OBVIOUS
    <2>1. Begun(q, o)
      BY <1>7 DEF Begun, Same, Current
    <2>. QED
      BY <2>1, OneWriter DEF Begun
  <1>. QED
    BY <1>6, <1>7 DEF BalanceAt

\* What is left to dump after a file.
LEMMA UndumpedNextFile ==
  ASSUME Types, Lists, Types', Lists', NEW p \in Procs, pc[p] \in Dumping, NextFile(p),
         NEW o \in Objects, o # Current(p) => counts'[p][o] = counts[p][o]
  PROVE  /\ o = Current(p) => Undumped(p, o)' = 0
         /\ o # Current(p) => Undumped(p, o)' = Undumped(p, o)
  <1>1. /\ ToSet(todo[p]) = ToSet(Tail(todo[p])) \cup {Current(p)}
        /\ Current(p) \notin ToSet(Tail(todo[p]))
    BY CurrentType DEF Lists
  <1>2. /\ todo'[p] = Tail(todo[p])
        /\ pc'[p] = IF Tail(todo[p]) = <<>> THEN "ended" ELSE "open"
    BY NextFileType DEF Lists
  <1>3. UndumpedAt(p, o) /\ UndumpedAt(p, o)'
    BY UndumpedIs, UndumpedNext DEF AllUndumped
  <1>4. Undumped(p, o)' = IF o \in ToSet(Tail(todo[p])) THEN SumFunction(counts'[p][o]) ELSE 0
    <2>1. CASE Tail(todo[p]) = <<>>
      <3>1. ToSet(Tail(todo[p])) = {}
        BY <2>1 DEF ToSet
      <3>. QED
        BY <1>2, <1>3, <2>1, <3>1 DEF UndumpedAt, Dumping, Opening
    <2>2. CASE Tail(todo[p]) # <<>>
      BY <1>2, <1>3, <2>2 DEF UndumpedAt, Opening
    <2>. QED
      BY <2>1, <2>2
  <1>5. o # Current(p) =>
          Undumped(p, o) = IF o \in ToSet(todo[p]) THEN SumFunction(counts[p][o]) ELSE 0
    BY <1>3 DEF UndumpedAt, Dumping
  <1>. QED
    BY <1>1, <1>4, <1>5

\* A file is left out: its counts are given up.
LEMMA BalanceGivenUp ==
  ASSUME Types, Lists, Types', Lists', NEW p \in Procs, NEW o \in Objects, BalanceAt(o),
         \A q \in Procs : q # p => Same(q), pc[p] \in Opening,
         Discard(p, {Current(p)}), NextFile(p), UNCHANGED <<file, executed>>,
         o # Current(p) => counts'[p][o] = counts[p][o]
  PROVE  BalanceAt(o)'
  <1>1. /\ o = Current(p) => Undumped(p, o)' = 0
        /\ o # Current(p) => Undumped(p, o)' = Undumped(p, o)
    BY UndumpedNextFile DEF Dumping
  <1>2. discarded'[o] = IF o = Current(p) THEN discarded[o] + Undumped(p, o) ELSE discarded[o]
    BY DEF Discard
  <1>3. ~Begun(p, o) /\ ~Begun(p, o)'
    BY DEF Begun, Opening, NextFile, Types
  <1>4. /\ executed[o] \in Nat /\ discarded[o] \in Nat /\ Undumped(p, o) \in Nat
    BY BalanceNat
  <1>5. executed'[o] + Undumped(p, o) + discarded[o] =
          executed[o] + Undumped(p, o)' + discarded'[o]
    BY <1>1, <1>2, <1>4
  <1>. QED
    BY <1>3, <1>5, BalanceKept

\* A step that does not touch a file, nor what the process has to bring to it.
LEMMA BalanceIdle ==
  ASSUME Types, Lists, Types', Lists', NEW p \in Procs, NEW o \in Objects, BalanceAt(o),
         \A q \in Procs : q # p => Same(q),
         ~Begun(p, o), ~Begun(p, o)', file'[o] = file[o],
         executed'[o] = executed[o], discarded'[o] = discarded[o],
         Undumped(p, o)' = Undumped(p, o)
  PROVE  BalanceAt(o)'
  <1>1. /\ executed[o] \in Nat /\ discarded[o] \in Nat /\ Undumped(p, o) \in Nat
    BY BalanceNat
  <1>2. executed'[o] + Undumped(p, o) + discarded[o] =
          executed[o] + Undumped(p, o)' + discarded'[o]
    BY <1>1
  <1>. QED
    BY <1>2, BalanceKept

\* The parts of the next step, for the balance of one file.
Stepping(p, o) ==
  /\ IndInv /\ Types' /\ Lists' /\ BalanceAt(o)
  /\ \A q \in Procs : q # p => Same(q)
  /\ UndumpedAt(p, o) /\ UndumpedAt(p, o)'

\* The balance when a process counts, loads an object or begins to dump.
LEMMA BalanceCounts ==
  ASSUME NEW p \in Procs, NEW o \in Objects, Stepping(p, o),
         \/ \E x \in Objects : __gcov_init(p, x) \/ \E k \in 1..MaxFunctions : count(p, x, k)
         \/ \E why \in {"exit", "flush", "fork", "exec"} : gcov_exit(p, why)
  PROVE  BalanceAt(o)'
  <1> USE DEF progVars, dumpVars, writeVars, envVars, ghostVars
  <1>0. Types /\ Lists /\ Types' /\ Lists' /\ ListOk(p) /\ pc \in [Procs -> Places]
        /\ executed \in [Objects -> Nat]
    BY DEF Stepping, IndInv, Lists, Types
  <1>n. /\ executed[o] \in Nat /\ discarded[o] \in Nat /\ Undumped(p, o) \in Nat
        /\ SumFunction(counts[p][o]) \in Nat
    BY <1>0, BalanceNat
  <1>1. CASE \E x \in Objects : \E k \in 1..MaxFunctions : count(p, x, k)
    <2>1. PICK x \in Objects : \E k \in 1..MaxFunctions : count(p, x, k)
      BY <1>1
    <2>2. PICK k \in 1..MaxFunctions : count(p, x, k)
      BY <2>1
    <2>3. /\ SumFunction(counts'[p][x]) = SumFunction(counts[p][x]) + 1
          /\ o # x => counts'[p][o] = counts[p][o]
      BY <1>0, <2>2, CountTypes
    <2>4. pc[p] = "count" /\ UNCHANGED <<pc, file, discarded>>
          /\ executed' = [executed EXCEPT ![x] = @ + 1]
      BY <2>2 DEF count
    <2>5. /\ Undumped(p, o) = SumFunction(counts[p][o])
          /\ Undumped(p, o)' = SumFunction(counts'[p][o])
      BY <2>4 DEF Stepping, UndumpedAt
    <2>6. ~Begun(p, o) /\ ~Begun(p, o)'
      BY <2>4 DEF Begun
    <2>7. executed'[o] + Undumped(p, o) + discarded[o] =
            executed[o] + Undumped(p, o)' + discarded'[o]
      BY <1>0, <1>n, <2>3, <2>4, <2>5
    <2>. QED
      BY <1>0, <2>4, <2>6, <2>7, BalanceKept DEF Stepping
  <1>2. CASE \E x \in Objects : __gcov_init(p, x)
    <2>1. pc[p] = "count" /\ UNCHANGED <<pc, counts, file, discarded, executed>>
      BY <1>2 DEF __gcov_init
    <2>2. Undumped(p, o)' = Undumped(p, o)
      BY <2>1 DEF Stepping, UndumpedAt
    <2>. QED
      BY <1>0, <2>1, <2>2, BalanceIdle DEF Stepping, Begun
  <1>3. CASE \E why \in {"exit", "flush", "fork", "exec"} : gcov_exit(p, why)
    <2>1. /\ pc[p] = "count" /\ pc'[p] = "open" /\ todo'[p] = gcov_list[p]
          /\ UNCHANGED <<counts, file, discarded, executed>>
      BY <1>0, <1>3 DEF gcov_exit, Types
    <2>2. Undumped(p, o)' = Undumped(p, o)
      <3>1. o \notin ToSet(gcov_list[p]) => SumFunction(counts[p][o]) = 0
        BY <1>0 DEF ListOk
      <3>. QED
        BY <2>1, <3>1 DEF Stepping, UndumpedAt, Opening
    <2>. QED
      BY <1>0, <2>1, <2>2, BalanceIdle DEF Stepping, Begun
  <1>. QED
    BY <1>1, <1>2, <1>3

\* The balance when a file is opened or skipped.
LEMMA BalanceOpens ==
  ASSUME NEW p \in Procs, NEW o \in Objects, Stepping(p, o),
         open(p) \/ access(p) \/ create_file_directory(p) \/ reopen(p)
  PROVE  BalanceAt(o)'
  <1> USE DEF progVars, dumpVars, writeVars, envVars, ghostVars
  <1>0. Types /\ Lists /\ Types' /\ Lists' /\ ListOk(p) /\ pc \in [Procs -> Places]
    BY DEF Stepping, IndInv, Lists, Types
  <1>1. pc[p] \in Opening /\ UNCHANGED <<counts, file, executed>>
    BY DEF open, access, create_file_directory, reopen, Opening
  <1>2. \/ Discard(p, {Current(p)}) /\ NextFile(p)
        \/ UNCHANGED discarded /\ \E where \in Opening : Goto(p, where)
    BY DEF open, access, create_file_directory, reopen, gcov_open, mkdir, Skip, Opening
  <1>3. CASE Discard(p, {Current(p)}) /\ NextFile(p)
    BY <1>0, <1>1, <1>3, BalanceGivenUp DEF Stepping
  <1>4. CASE UNCHANGED discarded /\ \E where \in Opening : Goto(p, where)
    <2>1. pc'[p] \in Opening /\ todo'[p] = todo[p]
      BY <1>0, <1>4 DEF Goto
    <2>2. Undumped(p, o)' = Undumped(p, o)
      BY <1>1, <2>1 DEF Stepping, UndumpedAt
    <2>3. ~Begun(p, o) /\ ~Begun(p, o)'
      BY <1>1, <2>1 DEF Begun, Opening
    <2>. QED
      BY <1>0, <1>1, <1>4, <2>2, <2>3, BalanceIdle DEF Stepping
  <1>. QED
    BY <1>2, <1>3, <1>4

\* The balance when a file is read.
LEMMA BalanceMerge ==
  ASSUME NEW p \in Procs, NEW o \in Objects, Stepping(p, o), merge(p)
  PROVE  BalanceAt(o)'
  <1> USE DEF progVars, dumpVars, writeVars, envVars, ghostVars
  <1>0. Types /\ Lists /\ Types' /\ Lists' /\ ListOk(p) /\ Counted /\ pc \in [Procs -> Places]
        /\ counts \in [Procs -> [Objects -> Seq(Nat)]] /\ object \in [Procs -> Summaries]
        /\ begun \in [Procs -> BOOLEAN]
    BY DEF Stepping, IndInv, Lists, Types, Counted, ListOk
  <1>1. pc[p] = "merge" /\ pc[p] \in Opening /\ pc[p] \in Dumping /\ UNCHANGED <<file, executed>>
    BY <1>0, MergeCases DEF Opening, Dumping
  <1>2. PICK m \in Seq(Nat) :
          /\ counts' = [counts EXCEPT ![p][Current(p)] = m]
          /\ \/ read_fatal(p)
             \/ \E obj, prg, pos, own : Rewritten(p, m, obj, prg, pos, own)
    BY <1>0, MergeCases
  <1>3. /\ Current(p) \in Objects /\ Current(p) \in ToSet(todo[p])
    BY <1>0, <1>1, CurrentType
  <1>4. o # Current(p) => counts'[p][o] = counts[p][o]
    BY <1>0, <1>2, <1>3
  <1>5. CASE read_fatal(p)
    BY <1>0, <1>1, <1>4, <1>5, BalanceGivenUp DEF Stepping, read_fatal
  <1>6. CASE \E obj, prg, pos, own : Rewritten(p, m, obj, prg, pos, own)
    <2>1. /\ object'[p] = ObjectTotals(p, Current(p)) /\ begun'[p] = FALSE
          /\ pc'[p] = "write" /\ UNCHANGED <<todo, discarded>>
      BY <1>0, <1>6 DEF Rewritten, Goto
    <2>2. object'[p].sum_all = SumFunction(counts[p][Current(p)])
      BY <1>0, <1>3, <2>1, ObjectTotalsType
    <2>3. Current(p)' = Current(p) /\ todo'[p] = todo[p]
      BY <2>1 DEF Current
    <2>4. Undumped(p, o)' = Undumped(p, o)
      BY <1>1, <1>3, <1>4, <2>1, <2>2, <2>3 DEF Stepping, UndumpedAt
    <2>5. ~Begun(p, o) /\ ~Begun(p, o)'
      BY <1>1, <2>1 DEF Begun
    <2>. QED
      BY <1>0, <1>1, <2>1, <2>4, <2>5, BalanceIdle DEF Stepping
  <1>. QED
    BY <1>2, <1>5, <1>6

\* The balance when a block is written.
LEMMA BalanceWrites ==
  ASSUME NEW p \in Procs, NEW o \in Objects, Stepping(p, o), write_block(p)
  PROVE  BalanceAt(o)'
  <1> USE DEF progVars, dumpVars, writeVars, envVars, ghostVars
  <1>0. /\ Types /\ Lists /\ Locks /\ Types' /\ Lists' /\ ListOk(p) /\ BalanceAt(o)
        /\ file \in [Objects -> Seq(Cells)] /\ begun \in [Procs -> BOOLEAN]
        /\ discarded \in [Objects -> Nat]
        /\ \A q \in Procs : q # p => Same(q)
    BY DEF Stepping, IndInv, Lists, Types
  <1>1. /\ pc[p] = "write" /\ UNCHANGED <<pc, counts, todo, object, executed>>
        /\ pending[p] # <<>>
        /\ begun' = [begun EXCEPT ![p] = TRUE]
        /\ file' = [file EXCEPT ![Current(p)] =
                      Overwrite(@, pending[p][1].at, pending[p][1].cells)]
    BY DEF write_block
  <1>2. begun'[p] = TRUE /\ Current(p)' = Current(p) /\ todo'[p] = todo[p]
    BY <1>0, <1>1 DEF Current
  <1> DEFINE c == Current(p)
             f == file[c]
             stamp == Stamp[version[p]][c]
             lost == f # <<>> /\ f[1] # FileHead(stamp)
  <1>3. discarded' = IF ~begun[p] /\ lost
                     THEN [discarded EXCEPT ![c] = @ + InFile(f)] ELSE discarded
    BY DEF write_block
  <1>4. Undumped(p, o)' = IF o = c THEN 0 ELSE Undumped(p, o)
    BY <1>1, <1>2 DEF Stepping, UndumpedAt
  <1>5. CASE o # c
    <2>1. file'[o] = file[o] /\ discarded'[o] = discarded[o]
      BY <1>0, <1>1, <1>3, <1>5
    <2>2. ~Begun(p, o) /\ ~Begun(p, o)'
      BY <1>2, <1>5 DEF Begun
    <2>. QED
      BY <1>0, <1>1, <1>4, <1>5, <2>1, <2>2, BalanceIdle
  <1>6. CASE o = c /\ begun[p]
    <2>1. Undumped(p, o) = 0
      BY <1>1, <1>6 DEF Stepping, UndumpedAt
    <2>2. discarded'[o] = discarded[o] /\ executed'[o] = executed[o] /\ counts'[p][o] = counts[p][o]
      BY <1>1, <1>3, <1>6
    <2>3. Begun(p, o) /\ Begun(p, o)'
      BY <1>1, <1>2, <1>6 DEF Begun
    <2>4. /\ Total(o) \in Nat /\ Total(o)' \in Nat
          /\ Total(o)' + Undumped(p, o) + discarded[o] = Total(o) + Undumped(p, o)' + discarded'[o]
      BY <1>0, TotalChange
    <2>5. Total(o)' = Total(o)
      <3>1. Total(o)' + discarded[o] = Total(o) + discarded[o] /\ discarded[o] \in Nat
        BY <1>0, <1>4, <1>6, <2>1, <2>2, <2>4
      <3>. QED
        BY <2>4, <3>1
    <2>6. ASSUME NEW q \in Procs, Begun(q, o)' PROVE q = p
      <3> SUFFICES ASSUME q # p PROVE FALSE
        OBVIOUS
      <3>1. Begun(q, o)
        BY <1>0, <2>6 DEF Begun, Same, Current
      <3>. QED
        BY <1>0, <2>3, <3>1, OneBegun
    <2>7. executed[o] = SumFunction(counts[p][o]) + Total(o)
      BY <1>0, <2>3 DEF BalanceAt
    <2>. QED
      BY <2>2, <2>3, <2>5, <2>6, <2>7 DEF BalanceAt
  <1>7. CASE o = c /\ ~begun[p]
    <2>1. SumFunction(counts[p][o]) = object[p].sum_all + Kept(f, stamp)
      BY <1>1, <1>7 DEF Stepping, IndInv, Writing, WriteOk
    <2>2. InFile(file[o]) \in Nat /\ file[o] = f
      BY <1>0, <1>7, BalanceNat
    <2>3. Begun(p, o)' /\ counts'[p][o] = counts[p][o] /\ executed'[o] = executed[o]
      BY <1>1, <1>2, <1>7 DEF Begun
    <2>4. CASE lost
      <3>1. Kept(f, stamp) = 0 /\ discarded'[o] = discarded[o] + InFile(file[o])
        BY <1>0, <1>3, <1>7, <2>2, <2>4 DEF Kept
      <3>2. InFile(file[o]) = 0 + InFile(file[o])
        BY <2>2
      <3>3. SumFunction(counts[p][o]) = object[p].sum_all + 0
        BY <2>1, <3>1
      <3>4. 0 \in Nat
        OBVIOUS
      <3>. QED
        BY <1>0, <1>1, <1>7, <2>2, <2>3, <3>1, <3>2, <3>3, <3>4, BalanceOpened
    <2>5. CASE ~lost
      <3>1. Kept(f, stamp) = InFile(file[o]) /\ discarded'[o] = discarded[o] + 0
        BY <1>0, <1>3, <1>7, <2>2, <2>5 DEF Kept
      <3>2. InFile(file[o]) = InFile(file[o]) + 0
        BY <2>2
      <3>3. SumFunction(counts[p][o]) = object[p].sum_all + InFile(file[o])
        BY <2>1, <3>1
      <3>4. 0 \in Nat
        OBVIOUS
      <3>. QED
        BY <1>0, <1>1, <1>7, <2>2, <2>3, <3>1, <3>2, <3>3, <3>4, BalanceOpened
    <2>. QED
      BY <2>4, <2>5
  <1>. QED
    BY <1>5, <1>6, <1>7

\* The balance when a file is closed: all its counters are in place.
LEMMA BalanceCloses ==
  ASSUME NEW p \in Procs, NEW o \in Objects, Stepping(p, o), gcov_close(p)
  PROVE  BalanceAt(o)'
  <1> USE DEF progVars, dumpVars, writeVars, envVars, ghostVars
  <1>0. /\ Types /\ Lists /\ Locks /\ Types' /\ Lists' /\ ListOk(p) /\ BalanceAt(o)
        /\ pc \in [Procs -> Places]
        /\ \A q \in Procs : q # p => Same(q)
    BY DEF Stepping, IndInv, Lists, Types
  <1>1. /\ pc[p] = "write" /\ pc[p] \in Dumping /\ pending[p] = <<>> /\ NextFile(p)
        /\ UNCHANGED <<counts, file, executed, discarded>>
    BY DEF gcov_close, Dumping
  <1>2. /\ o = Current(p) => Undumped(p, o)' = 0
        /\ o # Current(p) => Undumped(p, o)' = Undumped(p, o)
    BY <1>0, <1>1, UndumpedNextFile
  <1>3. ~Begun(p, o)'
    BY <1>0, <1>1 DEF Begun, NextFile
  <1>4. CASE o # Current(p)
    BY <1>0, <1>1, <1>2, <1>3, <1>4, BalanceIdle DEF Begun
  <1>5. CASE o = Current(p)
    <2>1. begun[p] /\ Planned(file[o], pending[p], eof_pos[p], Stamp[version[p]][o], counts[p][o])
      BY <1>1, <1>5 DEF Stepping, IndInv, Writing, WriteOk
    <2>2. Begun(p, o)
      BY <1>1, <1>5, <2>1 DEF Begun
    <2>3. Undumped(p, o) = 0
      BY <1>1, <1>5, <2>1 DEF Stepping, UndumpedAt
    <2>4. /\ file[o] \in Seq(Cells) /\ pending[p] \in Seq(BlockSet) /\ eof_pos[p] \in Nat
          /\ Stamp[version[p]][o] \in Nat /\ counts[p][o] \in Seq(Nat)
      BY <1>0, GcovAssumption DEF Types
    <2>5. InFile(file[o]) = SumFunction(counts[p][o])
      <3>1. pending[p] = <<>> \/ (eof_pos[p] # 0 /\ Len(pending[p]) <= 1)
        BY <1>1
      <3>. QED
        BY <2>1, <2>4, <3>1, PlannedDone
    <2>6. Undumped(p, o) + discarded[o] = Undumped(p, o)' + discarded'[o]
      BY <1>1, <1>2, <1>5, <2>3
    <2>. QED
      BY <1>0, <1>1, <1>3, <2>2, <2>5, <2>6, BalanceClosed
  <1>. QED
    BY <1>4, <1>5

\* The balance when a dump ends: the process has nothing left.
LEMMA BalanceEnds ==
  ASSUME NEW p \in Procs, NEW o \in Objects, Stepping(p, o),
         finish_exit(p) \/ finish_flush(p) \/ __gcov_exec(p)
  PROVE  BalanceAt(o)'
  <1> USE DEF progVars, dumpVars, writeVars, envVars, ghostVars
  <1>0. /\ Types /\ Lists /\ Types' /\ Lists' /\ ListOk(p) /\ pc \in [Procs -> Places]
        /\ version[p] \in Versions /\ counts \in [Procs -> [Objects -> Seq(Nat)]]
    BY DEF Stepping, IndInv, Lists, Types
  <1>1. pc[p] \in {"ended", "exec"} /\ UNCHANGED <<file, executed, discarded>>
    BY DEF finish_exit, finish_flush, __gcov_exec
  <1>2. pc'[p] \in {"done", "count", "fork", "exec"}
    <2>1. CASE finish_exit(p) \/ __gcov_exec(p)
      BY <1>0, <2>1 DEF finish_exit, __gcov_exec, Gone, Goto
    <2>2. CASE finish_flush(p)
      <3>1. after[p] \in {"flush", "fork", "exec"}
        BY <1>0, <2>2 DEF finish_flush, ListOk, Types
      <3>. QED
        BY <1>0, <2>2, <3>1 DEF finish_flush, Goto
    <2>. QED
      BY <2>1, <2>2
  <1>3. SumFunction(counts'[p][o]) = 0
    <2>1. CASE finish_exit(p) \/ finish_flush(p)
      <3>1. counts'[p] = Zero(version[p])
        BY <1>0, <2>1 DEF finish_exit, finish_flush, Gone, __gcov_flush
      <3>. QED
        BY <1>0, <3>1, ZeroType
    <2>2. CASE __gcov_exec(p)
      BY <1>0, <2>2 DEF __gcov_exec, ListOk
    <2>. QED
      BY <2>1, <2>2
  <1>4. Undumped(p, o) = 0
    BY <1>1 DEF Stepping, UndumpedAt, Dumping, Opening
  <1>5. Undumped(p, o)' = 0
    BY <1>2, <1>3 DEF Stepping, UndumpedAt, Dumping, Opening
  <1>6. ~Begun(p, o) /\ ~Begun(p, o)'
    BY <1>1, <1>2 DEF Begun
  <1>. QED
    BY <1>0, <1>1, <1>4, <1>5, <1>6, BalanceIdle DEF Stepping

\* The balance when a process is killed: what it had not begun to write is given up,
\* and a file whose counters are all in place is whole.
LEMMA BalanceKilled ==
  ASSUME NEW p \in Procs, NEW o \in Objects \ torn', Stepping(p, o), kill(p)
  PROVE  BalanceAt(o)'
  <1> USE DEF progVars, dumpVars, writeVars, envVars, ghostVars
  <1>0. /\ Types /\ Lists /\ Locks /\ Types' /\ Lists' /\ ListOk(p) /\ BalanceAt(o)
        /\ pc \in [Procs -> Places] /\ o \in Objects
        /\ \A q \in Procs : q # p => Same(q)
    BY DEF Stepping, IndInv, Lists, Types
  <1>1. /\ pc'[p] = "done" /\ UNCHANGED <<file, executed>>
        /\ discarded'[o] = discarded[o] + Undumped(p, o)
    BY <1>0 DEF kill, Gone, Discard
  <1>2. Undumped(p, o)' = 0
    BY <1>1 DEF Stepping, UndumpedAt, Dumping, Opening
  <1>3. ~Begun(p, o)'
    BY <1>1 DEF Begun
  <1>4. /\ executed[o] \in Nat /\ discarded[o] \in Nat /\ Undumped(p, o) \in Nat
    BY <1>0, BalanceNat
  <1>5. Undumped(p, o) + discarded[o] = Undumped(p, o)' + discarded'[o]
    BY <1>1, <1>2, <1>4
  <1>6. CASE ~Begun(p, o)
    <2>1. executed'[o] + Undumped(p, o) + discarded[o] =
            executed[o] + Undumped(p, o)' + discarded'[o]
      BY <1>1, <1>2, <1>4
    <2>. QED
      BY <1>0, <1>1, <1>3, <1>6, <2>1, BalanceKept
  <1>7. CASE Begun(p, o)
    <2>1. pc[p] = "write" /\ o = Current(p) /\ begun[p]
      BY <1>7 DEF Begun
    <2>2. /\ file[o] \in Seq(Cells) /\ pending[p] \in Seq(BlockSet) /\ eof_pos[p] \in Nat
          /\ Stamp[version[p]][o] \in Nat /\ counts[p][o] \in Seq(Nat)
      BY <1>0, GcovAssumption DEF Types
    <2>3. Planned(file[o], pending[p], eof_pos[p], Stamp[version[p]][o], counts[p][o])
      BY <2>1 DEF Stepping, IndInv, Writing, WriteOk
    <2>4. pending[p] = <<>> \/ (eof_pos[p] # 0 /\ Len(pending[p]) <= 1)
      <3>1. ~(pending[p] # <<>> /\ (eof_pos[p] = 0 \/ Len(pending[p]) > 1))
        BY <2>1 DEF kill
      <3>. QED
        BY <2>2, <3>1
    <2>5. InFile(file[o]) = SumFunction(counts[p][o])
      BY <2>2, <2>3, <2>4, PlannedDone
    <2>. QED
      BY <1>0, <1>1, <1>3, <1>5, <1>7, <2>5, BalanceClosed
  <1>. QED
    BY <1>6, <1>7

\* The balance when a process forks: parent and child begin with zero counters.
LEMMA BalanceForked ==
  ASSUME IndInv, Types', Lists', NEW p \in Procs, NEW child \in Procs, Forked(p, child),
         NEW o \in Objects, BalanceAt(o)
  PROVE  BalanceAt(o)'
  <1> USE DEF progVars, dumpVars, writeVars, envVars, ghostVars
  <1>0. Types /\ Lists /\ ListOk(p)
    BY DEF IndInv, Lists
  <1>1. ASSUME NEW q \in Procs PROVE Undumped(q, o)' = Undumped(q, o)
    <2>1. CASE q \in {p, child}
      <3>1. UndumpedAt(q, o) /\ UndumpedAt(q, o)'
        BY <1>0, UndumpedIs, UndumpedNext DEF AllUndumped
      <3>2. pc[q] \in {"fork", "unborn"} /\ pc'[q] = "count" /\ counts'[q] = counts[p]
        BY <2>1 DEF Forked
      <3>3. SumFunction(counts[p][o]) = 0
        BY <1>0 DEF ListOk, Forked
      <3>4. Undumped(q, o) = 0
        BY <3>1, <3>2 DEF UndumpedAt, Dumping, Opening
      <3>. QED
        BY <3>1, <3>2, <3>3, <3>4 DEF UndumpedAt
    <2>2. CASE q \notin {p, child}
      BY <2>2, SameUndumped DEF Forked
    <2>. QED
      BY <2>1, <2>2
  <1>2. Total(o)' = Total(o)
    <2>1. [q \in Procs |-> Undumped(q, o)'] = [q \in Procs |-> Undumped(q, o)]
      BY <1>1
    <2>2. discarded' = discarded
      BY DEF Forked
    <2>. QED
      BY <2>1, <2>2 DEF Total
  <1>3. ASSUME NEW q \in Procs
        PROVE  /\ Begun(q, o)' <=> Begun(q, o)
               /\ Begun(q, o) => counts'[q] = counts[q]
    <2>1. CASE q \in {p, child}
      BY <2>1 DEF Forked, Begun
    <2>2. CASE q \notin {p, child}
      BY <2>2 DEF Forked, Same, Begun, Current
    <2>. QED
      BY <2>1, <2>2
  <1>4. UNCHANGED <<file, executed>>
    BY DEF Forked
  <1>. QED
    BY <1>2, <1>3, <1>4 DEF BalanceAt

\* No step upsets the balance.
LEMMA BalanceStep ==
  ASSUME IndInv, Types', Lists', NEW p \in Procs, Action(p) \/ __gcov_fork(p)
  PROVE  Balance'
  <1> SUFFICES ASSUME NEW o \in Objects \ torn' PROVE BalanceAt(o)'
    BY DEF Balance
  <1>0. Types /\ Lists
    BY DEF IndInv
  <1>1. torn \subseteq torn'
    <2>1. CASE UNCHANGED torn
      BY <2>1
    <2>2. CASE kill(p)
      BY <2>2 DEF kill
    <2>. QED
      BY <1>0, <2>1, <2>2, MergeCases
         DEF Action, DumpStep, __gcov_init, count, gcov_exit, open, access, create_file_directory,
             reopen, write_block, gcov_close, finish_exit, finish_flush, __gcov_exec,
             __gcov_fork, ghostVars
  <1>2. BalanceAt(o)
    BY <1>1 DEF IndInv, Balance
  <1>3. CASE Action(p)
    <2>1. Stepping(p, o)
      BY <1>0, <1>2, <1>3, OnlyOne, UndumpedIs, UndumpedNext DEF Stepping, AllUndumped
    <2>. QED
      BY <1>3, <2>1, BalanceCounts, BalanceOpens, BalanceMerge, BalanceWrites, BalanceCloses,
         BalanceEnds, BalanceKilled DEF Action, DumpStep
  <1>4. CASE __gcov_fork(p)
    BY <1>0, <1>2, <1>4, ForkCases, BalanceForked
  <1>. QED
    BY <1>3, <1>4

-----------------------------------------------------------------------------
(* The invariant *)

\* The first states: types and lists.
LEMMA InitTypes == Init => Types /\ Lists
  <1> SUFFICES ASSUME Init PROVE Types /\ Lists
    OBVIOUS
  <1>1. PICK w \in Worlds :
          /\ pc = [p \in Procs |-> IF p \in w.roots THEN "count" ELSE "unborn"]
          /\ gcov_list = [p \in Procs |-> IF p \in w.roots THEN Reverse(Startup) ELSE <<>>]
          /\ version = w.version /\ disk = w.disk
          /\ flushes = w.flushes /\ kills = w.kills
    BY DEF Init
  <1>2. w.version \in [Procs -> Versions] /\ w.disk.dirs \subseteq Objects
    BY GcovAssumption
  <1>3. Reverse(Startup) \in Seq(Objects) /\ IsInjective(Reverse(Startup))
    BY GcovAssumption, ReverseInjective
  <1>4. pc \in [Procs -> Places] /\ version \in [Procs -> Versions]
    BY <1>1, <1>2 DEF Places
  <1>5. gcov_list \in [Procs -> Seq(Objects)]
    BY <1>1, <1>3
  <1>6. counts \in [Procs -> [Objects -> Seq(Nat)]]
        /\ \A p \in Procs : \A o \in Objects :
             Len(counts[p][o]) = NFunctions[version[p]][o] /\ SumFunction(counts[p][o]) = 0
    <2>1. counts = [p \in Procs |-> Zero(version[p])]
      BY DEF Init
    <2>. QED
      BY <1>4, <2>1, ZeroType
  <1>7. file \in [Objects -> Seq(Cells)]
    <2>1. <<ForeignHead>> \in Seq(Cells) /\ <<>> \in Seq(Cells)
      BY CellsMade
    <2>2. file = [o \in Objects |-> IF o \in disk.foreign THEN <<ForeignHead>> ELSE <<>>]
      BY DEF Init
    <2>. QED
      BY <2>1, <2>2
  <1>8. /\ todo \in [Procs -> Seq(Objects)] /\ pending \in [Procs -> Seq(BlockSet)]
    BY DEF Init
  <1>9. program \in [Procs -> Summaries] /\ object \in [Procs -> Summaries]
    BY NoSummaryType DEF Init
  <1>10. /\ after \in [Procs -> {"none", "exit", "flush", "fork", "exec"}]
         /\ begun \in [Procs -> BOOLEAN] /\ eof_pos \in [Procs -> Nat]
         /\ lock \in [Objects -> Procs \cup {Nobody}]
         /\ executed \in [Objects -> Nat] /\ discarded \in [Objects -> Nat]
         /\ torn \subseteq Objects /\ skipped \subseteq Objects
    BY DEF Init
  <1>11. dirs \subseteq Objects
    BY <1>1, <1>2 DEF Init
  <1>12. Types
    BY <1>4, <1>5, <1>6, <1>7, <1>8, <1>9, <1>10, <1>11 DEF Types
  <1>13. ASSUME NEW p \in Procs PROVE ListOk(p)
    <2>1. todo[p] = <<>> /\ pc[p] \in {"count", "unborn"}
      BY <1>1 DEF Init
    <2>2. IsInjective(gcov_list[p])
      <3>1. IsInjective(<<>>)
        BY DEF IsInjective
      <3>. QED
        BY <1>1, <1>3, <3>1
    <2>3. SuffixOf(<<>>, gcov_list[p])
      BY <1>5, SuffixEnds
    <2>. QED
      BY <1>6, <2>1, <2>2, <2>3 DEF ListOk, Dumping, Opening
  <1>. QED
    BY <1>12, <1>13 DEF Lists

\* The first states satisfy the invariant.
LEMMA InitInv == Init => IndInv
  <1> SUFFICES ASSUME Init PROVE IndInv
    OBVIOUS
  <1>1. Types /\ Lists
    BY InitTypes
  <1>2. \A p \in Procs : pc[p] \in {"count", "unborn"}
    BY DEF Init
  <1>3. \A o \in Objects : lock[o] = Nobody /\ executed[o] = 0 /\ discarded[o] = 0
    BY DEF Init
  <1>4. Locks
    BY <1>2, <1>3, GcovAssumption DEF Locks
  <1>5. Reasons
    BY <1>2 DEF Reasons, Init
  <1>6. Foreign
    <2>1. disk.foreign \subseteq Objects
      BY GcovAssumption DEF Init
    <2>. QED
      BY <1>2, <2>1 DEF Foreign, Init
  <1>7. Writing
    BY <1>2 DEF Writing, WriteOk
  <1>8. ASSUME NEW o \in Objects PROVE BalanceAt(o)
    <2>1. InFile(file[o]) = 0
      <3>1. Functional(file[o]) = {}
        <4>1. file[o] = <<ForeignHead>> \/ file[o] = <<>>
          BY DEF Init
        <4>2. CASE file[o] = <<>>
          BY <4>2 DEF Functional
        <4>3. CASE file[o] = <<ForeignHead>>
          BY <4>3 DEF Functional, ForeignHead
        <4>. QED
          BY <4>1, <4>2, <4>3
      <3>2. file[o] \in Seq(Cells)
        BY <1>1 DEF Types
      <3>. QED
        BY <3>1, <3>2, InFileNat
    <2>2. ASSUME NEW p \in Procs PROVE Undumped(p, o) = 0
      <3>1. UndumpedAt(p, o)
        BY <1>1, UndumpedIs DEF AllUndumped
      <3>2. SumFunction(counts[p][o]) = 0
        <4>1. counts[p] = Zero(version[p]) /\ version[p] \in Versions
          BY <1>1 DEF Init, Types
        <4>. QED
          BY <4>1, ZeroType
      <3>. QED
        BY <1>2, <3>1, <3>2 DEF UndumpedAt, Dumping, Opening
    <2>3. SumFunction([p \in Procs |-> Undumped(p, o)]) = 0
      <3>1. [p \in Procs |-> Undumped(p, o)] = [p \in Procs |-> 0]
        BY <2>2
      <3>2. IsFiniteSet(Procs)
        BY GcovAssumption
      <3>. QED
        BY <3>1, <3>2, SumZero
    <2>4. Total(o) = 0
      BY <1>3, <2>3 DEF Total
    <2>. QED
      BY <1>2, <1>3, <2>1, <2>4 DEF BalanceAt, Begun
  <1>9. Balance
    BY <1>8 DEF Balance
  <1>. QED
    BY <1>1, <1>4, <1>5, <1>6, <1>7, <1>9 DEF IndInv

\* Stuttering keeps the invariant.
LEMMA Stutters == IndInv /\ UNCHANGED vars => IndInv'
  <1> SUFFICES ASSUME IndInv, UNCHANGED vars PROVE IndInv'
    OBVIOUS
  <1> USE DEF vars, progVars, dumpVars, writeVars, envVars, ghostVars
  <1>1. Types' /\ Locks' /\ Reasons' /\ Foreign'
    BY DEF IndInv, Types, Locks, Reasons, Foreign, Current
  <1>2. \A q \in Procs : Same(q)
    BY DEF Same
  <1>3. Lists'
    BY <1>2, SameList DEF IndInv, Lists
  <1>4. Writing'
    BY <1>2, SameWrite DEF IndInv, Writing
  <1>5. Balance'
    <2>1. ASSUME NEW o \in Objects PROVE Total(o)' = Total(o)
      BY <1>2, SameUndumped DEF Total
    <2>2. ASSUME NEW o \in Objects, NEW p \in Procs PROVE Begun(p, o)' <=> Begun(p, o)
      BY DEF Begun, Current
    <2>. QED
      BY <2>1, <2>2 DEF IndInv, Balance, BalanceAt
  <1>. QED
    BY <1>1, <1>3, <1>4, <1>5 DEF IndInv

\* Every step keeps the invariant.
LEMMA NextInv == IndInv /\ Next => IndInv'
  <1> SUFFICES ASSUME IndInv, Next PROVE IndInv'
    OBVIOUS
  <1>1. PICK p \in Procs : Action(p) \/ __gcov_fork(p)
    BY DEF Next, Action
  <1>2. Types' /\ Lists'
    BY <1>1, TypesStep, ListsStep
  <1>3. Locks' /\ Reasons' /\ Foreign'
    BY <1>1, LocksStep, ReasonsStep, ForeignStep
  <1>4. Writing' /\ Balance'
    BY <1>1, <1>2, WritingStep, BalanceStep
  <1>. QED
    BY <1>2, <1>3, <1>4 DEF IndInv

\* The invariant holds in every state of the run-time, whatever the processes do.
THEOREM Invariance == Spec => []IndInv
  BY InitInv, NextInv, Stutters, PTL DEF Spec

-----------------------------------------------------------------------------
(* Files that can be read: the invariant *)

\* The runs of the programs whose summaries are at A to B.
RunsAt(f, D) == SumFunction([i \in D |-> f[i].sum.runs])
Runs(f, a, b) == RunsAt(f, a..b)

\* A file begins with its head, M functions, and the summary of the object.
Begins(f, m) ==
  /\ m + 2 <= Len(f) /\ f[1].kind = "head"
  /\ \A k \in 1..m : f[k + 1].kind = "function"
  /\ f[m + 2].kind = "object" /\ f[m + 2].sum.num = m /\ f[m + 2].sum.sum_all = InFile(f)

\* Summaries of different programs, from A up to the end at E.
Listed(f, a, e) ==
  /\ a <= e /\ e <= Len(f) + 1 /\ Cell(f, e) = End
  /\ \A i \in a..(e - 1) : f[i].kind = "program"
  /\ \A i, j \in a..(e - 1) : f[i].crc = f[j].crc => i = j

\* A whole file; if it was CUT, a run may be missing from the summary of its program.
Whole(f, m, e, iscut) ==
  /\ Begins(f, m) /\ Listed(f, m + 3, e)
  /\ Runs(f, m + 3, e - 1) <= f[m + 2].sum.runs
  /\ ~iscut => Runs(f, m + 3, e - 1) = f[m + 2].sum.runs

\* What gcov can read or leaves alone.
Readable(f, iscut) ==
  f = <<>> \/ f[1].kind = "foreign" \/ \E m \in Nat : \E e \in Nat : Whole(f, m, e, iscut)

\* The first K of the blocks PEND make H of F: what they write is in H, and what
\* they do not write is there already.
Towards(f, pend, k, h) ==
  /\ Len(f) <= Len(h)
  /\ \A b \in 1..k : \A i \in Extent(pend[b]) :
       i \in 1..Len(h) /\ pend[b].cells[i - pend[b].at + 1] = h[i]
  /\ \A i \in 1..Len(h) :
       (i \in 1..Len(f) /\ f[i] = h[i]) \/ \E b \in 1..k : i \in Extent(pend[b])

\* The blocks still to be written make a file that can be read; so do those before
\* the last one, if that one follows gcov_seek.
PlanOk(p) ==
  pc[p] = "write" /\ Current(p) \notin torn =>
    LET f == file[Current(p)]
    IN  /\ \E h \in Seq(Cells) : /\ Readable(h, Current(p) \in cut)
                                 /\ Towards(f, pending[p], Len(pending[p]), h)
        /\ eof_pos[p] # 0 /\ pending[p] # <<>> =>
             \E h \in Seq(Cells) : /\ Readable(h, TRUE)
                                   /\ Towards(f, pending[p], Len(pending[p]) - 1, h)

\* A file that nobody has begun to write can be read.
FileOk(o) ==
  o \notin torn /\ (\A p \in Procs : ~Begun(p, o)) => Readable(file[o], o \in cut)

\* All files, and all plans.
ReadInv == (\A p \in Procs : PlanOk(p)) /\ (\A o \in Objects : FileOk(o))

-----------------------------------------------------------------------------
(* Blocks *)

\* One sequence after another.
LEMMA Joined ==
  ASSUME NEW S, NEW s \in Seq(S), NEW t \in Seq(S)
  PROVE  /\ s \o t \in Seq(S) /\ Len(s \o t) = Len(s) + Len(t)
         /\ \A i \in 1..(Len(s) + Len(t)) :
              (s \o t)[i] = IF i <= Len(s) THEN s[i] ELSE t[i - Len(s)]
  <1>1. s \o t \in Seq(S) /\ Len(s \o t) = Len(s) + Len(t)
    OBVIOUS
  <1>2. \A i \in 1..(Len(s) + Len(t)) :
          (s \o t)[i] = IF i <= Len(s) THEN s[i] ELSE t[i - Len(s)]
    OBVIOUS
  <1>. QED
    BY <1>1, <1>2

\* A file that nothing more is written to.
LEMMA TowardsDone ==
  ASSUME NEW f \in Seq(Cells), NEW h \in Seq(Cells), NEW pend, Towards(f, pend, 0, h)
  PROVE  f = h
  <1>1. Len(f) \in Nat /\ Len(h) \in Nat /\ Len(f) <= Len(h)
    BY DEF Towards
  <1>2. \A i \in 1..Len(h) : i \in 1..Len(f) /\ f[i] = h[i]
    <2>1. 1..0 = {}
      OBVIOUS
    <2>. QED
      BY <2>1 DEF Towards
  <1>3. Len(f) = Len(h)
    <2> SUFFICES ASSUME Len(f) < Len(h) PROVE FALSE
      BY <1>1
    <2>1. Len(h) \in 1..Len(h)
      BY <1>1
    <2>. QED
      BY <1>1, <1>2, <2>1
  <1>. QED
    BY <1>2, <1>3

\* Writing the first of the blocks.
LEMMA TowardsWrite ==
  ASSUME NEW f \in Seq(Cells), NEW h \in Seq(Cells), NEW pend \in Seq(BlockSet),
         NEW k \in 1..Len(pend), Towards(f, pend, k, h),
         \A i \in 1..(pend[1].at - 1) : i \in 1..Len(f)
  PROVE  Towards(Overwrite(f, pend[1].at, pend[1].cells), Tail(pend), k - 1, h)
  <1> DEFINE b1 == pend[1]
             g == Overwrite(f, b1.at, b1.cells)
             rest == Tail(pend)
             x == b1.at + Len(b1.cells) - 1
  <1>1. /\ Len(pend) \in Nat \ {0} /\ Len(rest) = Len(pend) - 1
        /\ \A b \in 1..(Len(pend) - 1) : rest[b] = pend[b + 1]
        /\ b1 \in BlockSet /\ Len(f) \in Nat /\ Len(h) \in Nat
    OBVIOUS
  <1>2. b1.at \in Nat \ {0} /\ b1.cells \in Seq(Cells) /\ Len(b1.cells) \in Nat
    BY <1>1 DEF BlockSet
  <1>3. Extent(b1) = b1.at..x /\ x \in Nat
    BY <1>2 DEF Extent
  <1>4. /\ g \in Seq(Cells) /\ Len(g) = IF Len(f) >= x THEN Len(f) ELSE x
        /\ \A i \in b1.at..x : g[i] = b1.cells[i - b1.at + 1]
        /\ \A i \in (1..Len(f)) \ (b1.at..x) : g[i] = f[i]
    BY <1>2, OverwriteIs
  <1>5. /\ Len(f) <= Len(h)
        /\ \A b \in 1..k : \A i \in Extent(pend[b]) :
             i \in 1..Len(h) /\ pend[b].cells[i - pend[b].at + 1] = h[i]
        /\ \A i \in 1..Len(h) :
             (i \in 1..Len(f) /\ f[i] = h[i]) \/ \E b \in 1..k : i \in Extent(pend[b])
    BY DEF Towards
  <1> HIDE DEF g, rest, x
  <1>6. \A i \in Extent(b1) : i \in 1..Len(h) /\ i \in 1..Len(g) /\ g[i] = h[i]
    <2>1. 1 \in 1..k
      BY <1>1
    <2>2. \A i \in b1.at..x : i \in 1..Len(g)
      BY <1>1, <1>2, <1>3, <1>4
    <2>. QED
      BY <1>3, <1>4, <1>5, <2>1, <2>2
  <1>7. Len(g) <= Len(h)
    <2>1. CASE Len(f) >= x
      BY <2>1, <1>4, <1>5
    <2>2. CASE Len(f) < x
      <3>1. x \in Extent(b1)
        <4>1. ~(x < b1.at)
          <5> SUFFICES ASSUME x < b1.at PROVE FALSE
            OBVIOUS
          <5>0. x = b1.at + Len(b1.cells) - 1
            BY DEF x
          <5>1. x = b1.at - 1 /\ x >= 1
            BY ONLY <5>0, <1>1, <1>2, <1>3, <2>2, x < b1.at
          <5>2. x \in 1..(b1.at - 1)
            BY <5>1, <1>3
          <5>3. x \in 1..Len(f)
            BY <5>2
          <5>. QED
            BY <5>3, <2>2, <1>1
        <4>. QED
          BY <4>1, <1>2, <1>3
      <3>. QED
        BY <3>1, <2>2, <1>1, <1>3, <1>4, <1>6
    <2>. QED
      BY <2>1, <2>2, <1>1, <1>3
  <1>8. ASSUME NEW b \in 1..(k - 1), NEW i \in Extent(rest[b])
        PROVE  i \in 1..Len(h) /\ rest[b].cells[i - rest[b].at + 1] = h[i]
    <2>1. b + 1 \in 1..k /\ rest[b] = pend[b + 1]
      BY <1>1
    <2>. QED
      BY <2>1, <1>5
  <1>9. ASSUME NEW i \in 1..Len(h)
        PROVE  (i \in 1..Len(g) /\ g[i] = h[i]) \/ \E b \in 1..(k - 1) : i \in Extent(rest[b])
    <2>1. CASE i \in Extent(b1)
      BY <2>1, <1>6
    <2>2. CASE i \notin Extent(b1) /\ i \in 1..Len(f) /\ f[i] = h[i]
      <3>1. g[i] = f[i]
        BY <2>2, <1>3, <1>4
      <3>2. i \in 1..Len(g)
        BY <2>2, <1>1, <1>3, <1>4
      <3>. QED
        BY <3>1, <3>2, <2>2
    <2>3. CASE i \notin Extent(b1) /\ \E b \in 1..k : i \in Extent(pend[b])
      <3>1. PICK b \in 1..k : i \in Extent(pend[b])
        BY <2>3
      <3>2. b # 1
        BY <2>3, <3>1
      <3>3. b - 1 \in 1..(k - 1) /\ b - 1 \in 1..(Len(pend) - 1) /\ (b - 1) + 1 = b
        BY <3>2, <1>1
      <3>4. rest[b - 1] = pend[b]
        BY <3>3, <1>1
      <3>. QED
        BY <3>1, <3>3, <3>4
    <2>. QED
      BY <2>1, <2>2, <2>3, <1>5
  <1>10. Towards(g, rest, k - 1, h)
    BY <1>7, <1>8, <1>9 DEF Towards
  <1>. QED
    BY <1>10 DEF g, rest

\* The blocks of CELLS write them over the file from its beginning.
LEMMA TowardsBlocks ==
  ASSUME NEW f \in Seq(Cells), NEW cells \in Seq(Cells), NEW pend, NEW k, 
         k = Len(Blocks(1, cells)), \A b \in 1..k : pend[b] = Blocks(1, cells)[b]
  PROVE  /\ Overwrite(f, 1, cells) \in Seq(Cells)
         /\ Towards(f, pend, k, Overwrite(f, 1, cells))
         /\ Len(Overwrite(f, 1, cells)) = IF Len(f) >= Len(cells) THEN Len(f) ELSE Len(cells)
         /\ \A i \in 1..Len(cells) : Overwrite(f, 1, cells)[i] = cells[i]
         /\ \A i \in 1..Len(f) : i > Len(cells) => Overwrite(f, 1, cells)[i] = f[i]
  <1> DEFINE B == Blocks(1, cells)
             g == Overwrite(f, 1, cells)
             n == Len(cells)
  <1>1. /\ B \in Seq(BlockSet)
        /\ \A b \in 1..Len(B) : \A i \in Extent(B[b]) :
             i \in 1..n /\ B[b].cells[i - B[b].at + 1] = cells[i]
        /\ \A i \in 1..n : \E b \in 1..Len(B) : i \in Extent(B[b])
    BY BlocksCover
  <1>2. n \in Nat /\ Len(f) \in Nat /\ 1 + Len(cells) - 1 = n /\ k = Len(B)
        /\ \A b \in 1..k : pend[b] = B[b]
    OBVIOUS
  <1>3. /\ g \in Seq(Cells) /\ Len(g) = IF Len(f) >= n THEN Len(f) ELSE n
        /\ \A i \in 1..n : g[i] = cells[i - 1 + 1]
        /\ \A i \in (1..Len(f)) \ (1..n) : g[i] = f[i]
    <2>1. \A i \in 1..(1 - 1) : i \in 1..Len(f)
      OBVIOUS
    <2>. QED
      BY <1>2, <2>1, OverwriteIs
  <1> HIDE DEF B, g, n
  <1>4. \A i \in 1..n : g[i] = cells[i] /\ i \in 1..Len(g)
    BY <1>2, <1>3
  <1>5. \A i \in 1..Len(f) : i > n => g[i] = f[i]
    BY <1>2, <1>3
  <1>6. ASSUME NEW b \in 1..k, NEW i \in Extent(pend[b])
        PROVE  i \in 1..Len(g) /\ pend[b].cells[i - pend[b].at + 1] = g[i]
    <2>1. pend[b] = B[b] /\ b \in 1..Len(B)
      BY <1>2
    <2>2. i \in 1..n /\ B[b].cells[i - B[b].at + 1] = cells[i]
      BY <1>1, <2>1
    <2>. QED
      BY <1>4, <2>1, <2>2
  <1>7. ASSUME NEW i \in 1..Len(g)
        PROVE  (i \in 1..Len(f) /\ f[i] = g[i]) \/ \E b \in 1..k : i \in Extent(pend[b])
    <2>1. CASE i \in 1..n
      BY <2>1, <1>1, <1>2
    <2>2. CASE i \notin 1..n
      <3>1. i \in 1..Len(f) /\ i > n
        BY <2>2, <1>2, <1>3
      <3>. QED
        BY <3>1, <1>5
    <2>. QED
      BY <2>1, <2>2
  <1>8. Len(f) <= Len(g)
    BY <1>2, <1>3
  <1>9. Towards(f, pend, k, g)
    BY <1>6, <1>7, <1>8 DEF Towards
  <1>. QED
    BY <1>3, <1>4, <1>5, <1>9 DEF g, n

\* The data of a file: its head, the counters C and the summary OBJ.
HasData(h, stamp, c, obj) ==
  Len(c) + 2 <= Len(h) /\ \A i \in 1..(Len(c) + 2) : h[i] = Data(stamp, c, obj)[i]

\* The file that is written anew.
IsNew(h, stamp, c, crc, obj, prg) ==
  /\ HasData(h, stamp, c, obj) /\ Len(c) + 4 <= Len(h)
  /\ h[Len(c) + 3] = ProgramCell(crc, prg) /\ h[Len(c) + 4] = End

\* What is left of F when its data are written, and when also the summary of the
\* program is, at POS.
IsHalf(g, f, stamp, c, obj) ==
  /\ HasData(g, stamp, c, obj) /\ Len(g) = Len(f)
  /\ \A i \in (Len(c) + 3)..Len(f) : g[i] = f[i]
IsMerged(h, f, stamp, c, crc, obj, prg, pos, own) ==
  /\ HasData(h, stamp, c, obj) /\ Len(f) <= Len(h)
  /\ own => Len(h) = Len(f)
  /\ ~own => pos + 1 <= Len(h) /\ h[pos + 1] = End
  /\ h[pos] = ProgramCell(crc, prg)
  /\ \A i \in (Len(c) + 3)..Len(f) : i # pos /\ (own \/ i # pos + 1) => h[i] = f[i]

\* The blocks of a file that is written anew at one go, and what comes of it.
LEMMA TowardsAll ==
  ASSUME NEW f \in Seq(Cells), NEW stamp \in Nat, NEW c \in Seq(Nat), NEW crc \in Seq(Objects),
         NEW obj \in Summaries, NEW prg \in Summaries,
         NEW B, B = NewBlocks(stamp, c, crc, obj, prg, 0, FALSE)
  PROVE  \E h \in Seq(Cells) : Towards(f, B, Len(B), h) /\ IsNew(h, stamp, c, crc, obj, prg)
  <1> DEFINE n == Len(c)
             d == Data(stamp, c, obj)
             x == ProgramCell(crc, prg)
             rest == <<x>> \o <<End>>
             all == d \o rest
             h == Overwrite(f, 1, all)
  <1>1. n \in Nat /\ d \in Seq(Cells) /\ Len(d) = n + 2
    BY DataFits
  <1>2. x \in Cells /\ End \in Cells
    BY CellsMade
  <1>3. B = Blocks(1, all)
    BY DEF NewBlocks, Data
  <1> HIDE DEF d, x, n
  <1>4. rest \in Seq(Cells) /\ Len(rest) = 2 /\ rest[1] = x /\ rest[2] = End
    BY <1>2
  <1> HIDE DEF rest
  <1>5. /\ all \in Seq(Cells) /\ Len(all) = n + 4
        /\ \A i \in 1..(n + 2) : all[i] = d[i]
        /\ all[n + 3] = x /\ all[n + 4] = End
    <2>a. d \in Seq(Cells) /\ rest \in Seq(Cells) /\ Len(d) = n + 2 /\ Len(rest) = 2
      BY <1>1, <1>4
    <2>b. /\ all \in Seq(Cells) /\ Len(all) = Len(d) + Len(rest)
          /\ \A i \in 1..(Len(d) + Len(rest)) :
               all[i] = IF i <= Len(d) THEN d[i] ELSE rest[i - Len(d)]
      BY <2>a, Joined
    <2>1. all \in Seq(Cells) /\ Len(all) = n + 4
      BY <2>a, <2>b, <1>1
    <2>2. \A i \in 1..(n + 4) : all[i] = IF i <= n + 2 THEN d[i] ELSE rest[i - (n + 2)]
      BY <2>a, <2>b, <1>1
    <2>3. n + 3 \in 1..(n + 4) /\ n + 4 \in 1..(n + 4) /\ (n + 3) - (n + 2) = 1
          /\ (n + 4) - (n + 2) = 2
      BY <1>1
    <2> HIDE DEF all
    <2>4. all[n + 3] = rest[1] /\ all[n + 4] = rest[2]
      BY <1>1, <2>2, <2>3
    <2>5. \A i \in 1..(n + 2) : all[i] = d[i]
      BY <1>1, <2>2
    <2>. QED
      BY <1>4, <2>1, <2>4, <2>5
  <1> HIDE DEF all, h
  <1>6. /\ h \in Seq(Cells) /\ Towards(f, B, Len(B), h)
        /\ Len(h) = IF Len(f) >= n + 4 THEN Len(f) ELSE n + 4
        /\ \A i \in 1..(n + 4) : h[i] = all[i]
    <2>1. Len(B) = Len(Blocks(1, all)) /\ \A b \in 1..Len(B) : B[b] = Blocks(1, all)[b]
      BY <1>3
    <2>2. /\ h \in Seq(Cells) /\ Towards(f, B, Len(B), h)
          /\ Len(h) = IF Len(f) >= Len(all) THEN Len(f) ELSE Len(all)
          /\ \A i \in 1..Len(all) : h[i] = all[i]
      BY <1>5, <2>1, TowardsBlocks DEF h
    <2>3. Len(all) = n + 4
      BY <1>5
    <2>. QED
      BY <2>2, <2>3
  <1>7. Len(f) \in Nat
    OBVIOUS
  <1>8. n + 4 <= Len(h)
    BY <1>1, <1>6, <1>7
  <1>9. /\ \A i \in 1..(n + 2) : h[i] = d[i]
        /\ h[n + 3] = x /\ h[n + 4] = End
    BY <1>1, <1>5, <1>6
  <1>10. IsNew(h, stamp, c, crc, obj, prg)
    <2>1. n + 2 <= Len(h)
      BY <1>1, <1>6, <1>8
    <2>. QED
      BY <1>8, <1>9, <2>1 DEF n, d, x, IsNew, HasData
  <1>. QED
    BY <1>6, <1>10

\* The blocks of a file that is merged: first what is before the summaries of the
\* programs, which gives G, then that of the program, which gives H.
LEMMA TowardsMerged ==
  ASSUME NEW f \in Seq(Cells), NEW stamp \in Nat, NEW c \in Seq(Nat), NEW crc \in Seq(Objects),
         NEW obj \in Summaries, NEW prg \in Summaries, NEW pos \in Nat, NEW own \in BOOLEAN,
         Len(c) + 3 <= pos, pos <= Len(f) + 1, own => pos <= Len(f),
         NEW B, B = NewBlocks(stamp, c, crc, obj, prg, pos, own)
  PROVE  /\ Len(B) \in Nat \ {0}
         /\ \E g \in Seq(Cells) : Towards(f, B, Len(B) - 1, g) /\ IsHalf(g, f, stamp, c, obj)
         /\ \E h \in Seq(Cells) : /\ Towards(f, B, Len(B), h)
                                  /\ IsMerged(h, f, stamp, c, crc, obj, prg, pos, own)
  <1> DEFINE n == Len(c)
             d == Data(stamp, c, obj)
             x == ProgramCell(crc, prg)
             rest == <<x>> \o (IF own THEN <<>> ELSE <<End>>)
             A == Blocks(1, d)
             k == Len(A)
             last == [at |-> pos, cells |-> rest]
             g == Overwrite(f, 1, d)
             h == Overwrite(g, pos, rest)
             r == Len(rest)
  <1>1. n \in Nat /\ d \in Seq(Cells) /\ Len(d) = n + 2 /\ n + 3 <= pos
    BY DataFits
  <1>2. x \in Cells /\ End \in Cells
    BY CellsMade
  <1>3. B = A \o <<last>>
    BY <1>1 DEF NewBlocks, Data
  <1> HIDE DEF d, x, n
  <1>4. /\ rest \in Seq(Cells) /\ rest[1] = x
        /\ own => r = 1
        /\ ~own => r = 2 /\ rest[2] = End
    BY <1>2
  <1> HIDE DEF rest
  <1>5. /\ A \in Seq(BlockSet) /\ k \in Nat
        /\ \A b \in 1..k : \A i \in Extent(A[b]) :
             i \in 1..(n + 2) /\ A[b].cells[i - A[b].at + 1] = d[i]
        /\ \A i \in 1..(n + 2) : \E b \in 1..k : i \in Extent(A[b])
    <2>1. /\ A \in Seq(BlockSet)
          /\ \A b \in 1..Len(A) : \A i \in Extent(A[b]) :
               i \in 1..Len(d) /\ A[b].cells[i - A[b].at + 1] = d[i]
          /\ \A i \in 1..Len(d) : \E b \in 1..Len(A) : i \in Extent(A[b])
      BY <1>1, BlocksCover
    <2> HIDE DEF A
    <2>2. Len(d) = n + 2
      BY <1>1
    <2>. QED
      BY <2>1, <2>2
  <1>6. r \in Nat /\ r \in 1..2
    BY <1>4
  <1> HIDE DEF A, k, r
  <1>7. last \in BlockSet /\ last.at = pos /\ last.cells = rest
    BY <1>1, <1>4 DEF BlockSet
  <1>8. Extent(last) = pos..(pos + r - 1)
    BY <1>7 DEF Extent, r
  <1> HIDE DEF last
  <1>9. Len(B) = k + 1 /\ B[k + 1] = last /\ \A b \in 1..k : B[b] = A[b]
    BY <1>3, <1>5, <1>7 DEF k
  <1>10. Len(f) \in Nat /\ n + 2 <= Len(f) /\ pos <= Len(f) + 1
    BY <1>1
  <1>11. /\ g \in Seq(Cells) /\ Towards(f, B, k, g) /\ Len(g) = Len(f)
         /\ \A i \in 1..(n + 2) : g[i] = d[i]
         /\ \A i \in 1..Len(f) : i > n + 2 => g[i] = f[i]
    <2>1. k = Len(Blocks(1, d)) /\ \A b \in 1..k : B[b] = Blocks(1, d)[b]
      BY <1>9 DEF k, A
    <2>2. /\ g \in Seq(Cells) /\ Towards(f, B, k, g)
          /\ Len(g) = IF Len(f) >= Len(d) THEN Len(f) ELSE Len(d)
          /\ \A i \in 1..Len(d) : g[i] = d[i]
          /\ \A i \in 1..Len(f) : i > Len(d) => g[i] = f[i]
      BY <1>1, <2>1, TowardsBlocks
    <2> HIDE DEF g
    <2>3. Len(f) >= Len(d)
      BY <1>1, <1>10
    <2>. QED
      BY <2>2, <2>3, <1>1
  <1> HIDE DEF g
  <1>12. /\ h \in Seq(Cells)
         /\ Len(h) = IF Len(g) >= pos + r - 1 THEN Len(g) ELSE pos + r - 1
         /\ \A i \in pos..(pos + r - 1) : h[i] = rest[i - pos + 1]
         /\ \A i \in (1..Len(g)) \ (pos..(pos + r - 1)) : h[i] = g[i]
    <2>1. pos \in Nat \ {0} /\ \A i \in 1..(pos - 1) : i \in 1..Len(g)
      BY <1>1, <1>10, <1>11
    <2>. QED
      BY <1>4, <1>11, <2>1, OverwriteIs DEF r
  <1> HIDE DEF h
  <1>13. /\ Len(f) <= Len(h) /\ (own => Len(h) = Len(f)) /\ (~own => pos + 1 <= Len(h))
         /\ pos + r - 1 <= Len(h)
    BY <1>4, <1>6, <1>10, <1>11, <1>12
  <1>14. \A i \in 1..(n + 2) : h[i] = d[i] /\ i \in 1..Len(h)
    <2> SUFFICES ASSUME NEW i \in 1..(n + 2) PROVE h[i] = d[i] /\ i \in 1..Len(h)
      OBVIOUS
    <2>1. i \in (1..Len(g)) \ (pos..(pos + r - 1))
      BY <1>1, <1>6, <1>10, <1>11
    <2>. QED
      BY <2>1, <1>1, <1>11, <1>12, <1>13
  <1>15. h[pos] = x /\ (~own => h[pos + 1] = End)
    <2>1. pos \in pos..(pos + r - 1) /\ pos - pos + 1 = 1
      BY <1>6
    <2>2. h[pos] = rest[1]
      BY <1>12, <2>1
    <2>3. ASSUME ~own PROVE h[pos + 1] = End
      <3>1. pos + 1 \in pos..(pos + r - 1) /\ (pos + 1) - pos + 1 = 2
        BY <1>4, <2>3
      <3>2. h[pos + 1] = rest[2]
        BY <1>12, <3>1
      <3>. QED
        BY <1>4, <2>3, <3>2
    <2>. QED
      BY <1>4, <2>2, <2>3
  <1>16. ASSUME NEW i \in (n + 3)..Len(f), i # pos, own \/ i # pos + 1
         PROVE  h[i] = f[i]
    <2>1. i \in (1..Len(g)) \ (pos..(pos + r - 1))
      <3>0. i \in 1..Len(g)
        BY <1>1, <1>10, <1>11
      <3>1. CASE own
        <4>1. pos + r - 1 = pos
          BY <3>1, <1>4
        <4>. QED
          BY <3>0, <4>1, <1>16
      <3>2. CASE ~own
        <4>1. pos + r - 1 = pos + 1 /\ i # pos + 1
          BY <3>2, <1>4, <1>16
        <4>. QED
          BY <3>0, <4>1, <1>16
      <3>. QED
        BY <3>1, <3>2
    <2>2. i \in 1..Len(f) /\ i > n + 2
      BY <1>1, <1>10
    <2>. QED
      BY <2>1, <2>2, <1>11, <1>12
  <1>17. Towards(f, B, k + 1, h)
    <2>1. ASSUME NEW b \in 1..(k + 1), NEW i \in Extent(B[b])
          PROVE  i \in 1..Len(h) /\ B[b].cells[i - B[b].at + 1] = h[i]
      <3>1. CASE b \in 1..k
        <4>1. B[b] = A[b]
          BY <3>1, <1>9
        <4>2. i \in 1..(n + 2) /\ A[b].cells[i - A[b].at + 1] = d[i]
          BY <3>1, <4>1, <1>5
        <4>. QED
          BY <4>1, <4>2, <1>14
      <3>2. CASE b = k + 1
        <4>1. B[b] = last /\ i \in pos..(pos + r - 1)
          BY <3>2, <1>8, <1>9
        <4>2. h[i] = rest[i - pos + 1] /\ last.cells[i - last.at + 1] = rest[i - pos + 1]
          BY <4>1, <1>7, <1>12
        <4>3. i \in 1..Len(h)
          BY <4>1, <1>1, <1>6, <1>13
        <4>. QED
          BY <4>1, <4>2, <4>3
      <3>. QED
        BY <3>1, <3>2, <1>5
    <2>2. ASSUME NEW i \in 1..Len(h)
          PROVE  (i \in 1..Len(f) /\ f[i] = h[i]) \/ \E b \in 1..(k + 1) : i \in Extent(B[b])
      <3>1. CASE i \in 1..(n + 2)
        <4>1. PICK b \in 1..k : i \in Extent(A[b])
          <5>1. \A j \in 1..(n + 2) : \E b \in 1..k : j \in Extent(A[b])
            BY <1>5
          <5>. QED
            BY ONLY <3>1, <5>1
        <4>2. b \in 1..(k + 1) /\ B[b] = A[b]
          BY <1>5, <1>9
        <4>. QED
          BY <4>1, <4>2
      <3>2. CASE i \in pos..(pos + r - 1)
        <4>1. k + 1 \in 1..(k + 1)
          BY <1>5
        <4>. QED
          BY <3>2, <4>1, <1>8, <1>9
      <3>3. CASE i \notin 1..(n + 2) /\ i \notin pos..(pos + r - 1)
        <4>1. i \in 1..Len(f) /\ i > n + 2 /\ i \in (1..Len(g)) \ (pos..(pos + r - 1))
          BY <3>3, <1>1, <1>6, <1>10, <1>11, <1>12
        <4>2. h[i] = g[i] /\ g[i] = f[i]
          BY <4>1, <1>11, <1>12
        <4>. QED
          BY <4>1, <4>2
      <3>. QED
        BY <3>1, <3>2, <3>3
    <2>. QED
      BY <1>13, <2>1, <2>2 DEF Towards
  <1>18. Len(B) \in Nat \ {0} /\ Len(B) - 1 = k
    BY <1>5, <1>9
  <1>19. \A i \in (n + 3)..Len(f) : g[i] = f[i]
    <2> SUFFICES ASSUME NEW i \in (n + 3)..Len(f) PROVE g[i] = f[i]
      OBVIOUS
    <2>1. i \in 1..Len(f) /\ i > n + 2
      BY <1>1, <1>10
    <2>. QED
      BY <1>11, <2>1
  <1>20. /\ Towards(f, B, Len(B) - 1, g) /\ Len(g) = Len(f) /\ g \in Seq(Cells)
         /\ \A i \in 1..(n + 2) : g[i] = d[i]
    BY <1>11, <1>18
  <1>21. Towards(f, B, Len(B), h) /\ h \in Seq(Cells)
    BY <1>9, <1>12, <1>17
  <1>22. \A i \in 1..(n + 2) : h[i] = d[i]
    BY <1>14
  <1>23. IsHalf(g, f, stamp, c, obj)
    BY <1>10, <1>19, <1>20 DEF n, d, IsHalf, HasData
  <1>24. IsMerged(h, f, stamp, c, crc, obj, prg, pos, own)
    <2>1. n + 2 <= Len(h)
      BY <1>1, <1>10, <1>13
    <2>. QED
      BY <1>13, <1>15, <1>16, <1>22, <2>1 DEF n, d, x, IsMerged, HasData
  <1>. QED
    BY <1>18, <1>20, <1>21, <1>23, <1>24

-----------------------------------------------------------------------------
(* Summaries *)

\* One more term.
LEMMA SumExtend ==
  ASSUME NEW D, IsFiniteSet(D), NEW E, NEW x \in E, x \notin D,
         \A y : y \in E <=> y \in D \/ y = x,
         NEW f \in [D -> Nat], NEW h \in [E -> Nat], \A y \in D : h[y] = f[y]
  PROVE  SumFunction(h) = SumFunction(f) + h[x]
  <1>1. IsFiniteSet(E)
    <2>1. E = D \cup {x}
      OBVIOUS
    <2>. QED
      BY <2>1, FS_AddElement
  <1>2. E \in SUBSET E /\ x \in E /\ E \ {x} = D /\ D \in SUBSET E
    OBVIOUS
  <1>3. Partial(h)[E] = h[x] + Partial(h)[E \ {x}]
    BY ONLY <1>1, <1>2, h \in [E -> Nat], PartialTake
  <1>4. Partial(h)[D] = Partial(f)[D]
    <2>1. DOMAIN h = E /\ DOMAIN f = D /\ D \subseteq E
      BY <1>2
    <2>. QED
      BY <1>1, <2>1, PartialAgree
  <1>5. SumFunction(h) = Partial(h)[E] /\ SumFunction(f) = Partial(f)[D]
    BY <1>2, SumIsPartial
  <1>6. Partial(f)[D] \in Nat /\ h[x] \in Nat
    <2>1. D \in SUBSET D
      OBVIOUS
    <2>. QED
      BY <1>2, <2>1, PartialAny
  <1>. QED
    BY ONLY <1>2, <1>3, <1>4, <1>5, <1>6

\* The same summaries have the same runs.
LEMMA RunsSame ==
  ASSUME NEW f, NEW h, NEW a, NEW b, \A i \in a..b : h[i] = f[i]
  PROVE  Runs(h, a, b) = Runs(f, a, b)
  <1>1. [i \in a..b |-> h[i].sum.runs] = [i \in a..b |-> f[i].sum.runs]
    OBVIOUS
  <1>. QED
    BY <1>1 DEF Runs, RunsAt

\* Runs are natural numbers.
LEMMA RunsNat ==
  ASSUME NEW f, NEW D, IsFiniteSet(D), \A i \in D : f[i].sum.runs \in Nat
  PROVE  RunsAt(f, D) \in Nat /\ (D = {} => RunsAt(f, D) = 0)
  <1> DEFINE r == [i \in D |-> f[i].sum.runs]
  <1>1. r \in [D -> Nat]
    OBVIOUS
  <1> HIDE DEF r
  <1>2. SumFunction(r) \in Nat /\ (D = {} => SumFunction(r) = 0)
    BY <1>1, SumNat
  <1>. QED
    BY <1>2 DEF r, RunsAt

\* The runs with those of one more cell.
LEMMA RunsExtend ==
  ASSUME NEW f, NEW h, NEW D, NEW E, NEW x \in E, NEW n \in Nat, IsFiniteSet(D), x \notin D,
         \A y : y \in E <=> y \in D \/ y = x,
         \A i \in D : f[i].sum.runs \in Nat /\ h[i] = f[i], h[x].sum.runs = n
  PROVE  RunsAt(h, E) = RunsAt(f, D) + n
  <1> DEFINE r == [i \in D |-> f[i].sum.runs]
             t == [i \in E |-> h[i].sum.runs]
  <1>1. /\ r \in [D -> Nat] /\ t \in [E -> Nat]
        /\ \A y \in D : t[y] = r[y]
    OBVIOUS
  <1>2. t[x] = n
    OBVIOUS
  <1> HIDE DEF r, t
  <1>3. SumFunction(t) = SumFunction(r) + t[x]
    BY <1>1, SumExtend
  <1>. QED
    BY <1>2, <1>3 DEF r, t, RunsAt

\* The runs when one cell has one more.
LEMMA RunsReplace ==
  ASSUME NEW f, NEW h, NEW D, NEW x \in D, IsFiniteSet(D),
         \A i \in D : f[i].sum.runs \in Nat /\ (i # x => h[i] = f[i]),
         h[x].sum.runs = f[x].sum.runs + 1
  PROVE  RunsAt(h, D) = RunsAt(f, D) + 1
  <1> DEFINE r == [i \in D |-> f[i].sum.runs]
             t == [i \in D |-> h[i].sum.runs]
  <1>1. /\ r \in [D -> Nat] /\ t \in [D -> Nat]
        /\ \A y \in D : y # x => t[y] = r[y]
    OBVIOUS
  <1>2. t[x] = r[x] + 1 /\ r[x] \in Nat
    OBVIOUS
  <1> HIDE DEF r, t
  <1>3. SumFunction(t) + r[x] = SumFunction(r) + t[x]
    BY <1>1, SumChange
  <1>4. SumFunction(t) \in Nat /\ SumFunction(r) \in Nat
    BY <1>1, SumNat
  <1>5. SumFunction(t) = SumFunction(r) + 1
    BY ONLY <1>2, <1>3, <1>4
  <1>. QED
    BY <1>5 DEF r, t, RunsAt

\* The runs of programs are natural numbers.
LEMMA RunsType ==
  ASSUME NEW f \in Seq(Cells), NEW a \in Nat \ {0}, NEW b \in Nat, b <= Len(f),
         \A i \in a..b : f[i].kind = "program"
  PROVE  /\ \A i \in a..b : f[i].sum.runs \in Nat
         /\ IsFiniteSet(a..b)
         /\ Runs(f, a, b) \in Nat /\ (b < a => Runs(f, a, b) = 0)
  <1>1. Len(f) \in Nat /\ \A i \in 1..Len(f) : f[i] \in Cells
    OBVIOUS
  <1>2. ASSUME NEW i \in a..b PROVE f[i].sum.runs \in Nat
    <2>1. i \in 1..Len(f)
      BY <1>1
    <2>2. f[i].sum \in Summaries
      BY <1>1, <2>1, CellFacts
    <2>. QED
      BY <2>2 DEF Summaries
  <1>3. IsFiniteSet(a..b) /\ (b < a => a..b = {})
    BY FS_Interval
  <1>4. RunsAt(f, a..b) \in Nat /\ (a..b = {} => RunsAt(f, a..b) = 0)
    BY <1>2, <1>3, RunsNat
  <1>. QED
    BY <1>2, <1>3, <1>4 DEF Runs

\* The runs with those of one more program.
LEMMA RunsMore ==
  ASSUME NEW f \in Seq(Cells), NEW h \in Seq(Cells), NEW a \in Nat \ {0}, NEW b \in Nat,
         NEW x \in Nat, x = b + 1,
         a <= x, b <= Len(f), x <= Len(h),
         \A i \in a..b : f[i].kind = "program" /\ h[i] = f[i], h[x].sum.runs = 1
  PROVE  Runs(h, a, x) = Runs(f, a, b) + 1
  <1>1. x \in a..x /\ x \notin a..b /\ \A y : y \in a..x <=> y \in a..b \/ y = x
    OBVIOUS
  <1>2. IsFiniteSet(a..b) /\ \A i \in a..b : f[i].sum.runs \in Nat
    <2>1. \A i \in a..b : f[i].kind = "program"
      OBVIOUS
    <2>. QED
      BY <2>1, RunsType
  <1>3. \A i \in a..b : f[i].sum.runs \in Nat /\ h[i] = f[i]
    BY <1>2
  <1>4. RunsAt(h, a..x) = RunsAt(f, a..b) + 1
    <2> DEFINE D == a..b
               E == a..x
    <2>1. /\ IsFiniteSet(D) /\ x \in E /\ x \notin D /\ (\A y : y \in E <=> y \in D \/ y = x)
          /\ (\A i \in D : f[i].sum.runs \in Nat /\ h[i] = f[i])
          /\ h[x].sum.runs = 1
      BY <1>1, <1>2, <1>3
    <2> HIDE DEF D, E
    <2>2. RunsAt(h, E) = RunsAt(f, D) + 1
      BY ONLY <2>1, RunsExtend
    <2>. QED
      BY ONLY <2>2 DEF D, E
  <1>. QED
    BY <1>4 DEF Runs

\* The runs when those of one program change.
LEMMA RunsChange ==
  ASSUME NEW f \in Seq(Cells), NEW h \in Seq(Cells), NEW a \in Nat \ {0}, NEW b \in Nat,
         b <= Len(f), b <= Len(h), NEW x \in a..b,
         \A i \in a..b : f[i].kind = "program" /\ (i # x => h[i] = f[i]), h[x].kind = "program",
         h[x].sum.runs = f[x].sum.runs + 1
  PROVE  Runs(h, a, b) = Runs(f, a, b) + 1
  <1>1. IsFiniteSet(a..b) /\ \A i \in a..b : f[i].sum.runs \in Nat
    BY RunsType
  <1>2. \A i \in a..b : f[i].sum.runs \in Nat /\ (i # x => h[i] = f[i])
    BY <1>1
  <1>3. RunsAt(h, a..b) = RunsAt(f, a..b) + 1
    BY <1>1, <1>2, RunsReplace, ZenonT(60)
  <1>. QED
    BY <1>3 DEF Runs

\* A file begins as it should once the data are written.
LEMMA DataBegins ==
  ASSUME NEW h \in Seq(Cells), NEW stamp \in Nat, NEW c \in Seq(Nat), NEW obj \in Summaries,
         HasData(h, stamp, c, obj), obj.num = Len(c), obj.sum_all = SumFunction(c)
  PROVE  Begins(h, Len(c)) /\ h[Len(c) + 2].sum = obj
  <1> DEFINE n == Len(c)
  <1>1. n \in Nat /\ \A k \in 1..n : c[k] \in Nat
    OBVIOUS
  <1>d. n + 2 <= Len(h) /\ \A i \in 1..(n + 2) : h[i] = Data(stamp, c, obj)[i]
    BY DEF HasData
  <1>2. \A i \in 1..(n + 2) : Fits(h[i], i, stamp, c)
    BY <1>d, DataFits
  <1>3. h[n + 2] = ObjectCell(obj)
    <2>1. n + 2 \in 1..(n + 2)
      BY <1>1
    <2>. QED
      BY <1>d, <2>1, DataFits
  <1>4. InFile(h) = SumFunction(c)
    BY <1>d, <1>2, InFileFits
  <1>5. h[n + 2].kind = "object" /\ h[n + 2].sum = obj
    BY <1>3 DEF ObjectCell
  <1>6. h[1].kind = "head"
    BY <1>1, <1>2, CellsMade DEF Fits
  <1>7. ASSUME NEW k \in 1..n PROVE h[k + 1].kind = "function"
    <2>1. k + 1 \in 1..(n + 2) /\ k + 1 \in 2..(n + 1) /\ (k + 1) - 1 = k
      BY <1>1
    <2>2. h[k + 1] = FunctionCell(c[k])
      BY <1>2, <2>1 DEF Fits
    <2>. QED
      BY <1>1, <2>2, CellsMade
  <1>. QED
    BY <1>d, <1>4, <1>5, <1>6, <1>7 DEF Begins


-----------------------------------------------------------------------------
(* Files that are written can be read *)

\* A file that is written anew.
LEMMA WholeFresh ==
  ASSUME NEW h \in Seq(Cells), NEW n \in Nat, NEW iscut, Begins(h, n), n + 4 <= Len(h),
         h[n + 3].kind = "program", h[n + 4] = End,
         h[n + 3].sum.runs = 1, h[n + 2].sum.runs = 1
  PROVE  Whole(h, n, n + 4, iscut)
  <1>1. Len(h) \in Nat /\ n + 2 \in Nat /\ n + 3 \in Nat \ {0} /\ (n + 2) + 1 = n + 3
    OBVIOUS
  <1>2. \A i \in (n + 3)..(n + 2) : h[i].kind = "program" /\ h[i] = h[i]
    OBVIOUS
  <1>3. Runs(h, n + 3, n + 2) = 0
    BY <1>1, <1>2, RunsType
  <1>4. Runs(h, n + 3, n + 3) = Runs(h, n + 3, n + 2) + 1
    <2> DEFINE a == n + 3
               b == n + 2
    <2>1. /\ a \in Nat \ {0} /\ b \in Nat /\ a = b + 1 /\ a <= a /\ b <= Len(h) /\ a <= Len(h)
          /\ (\A i \in a..b : h[i].kind = "program" /\ h[i] = h[i])
          /\ h[a].sum.runs = 1 /\ h \in Seq(Cells)
      BY <1>1, <1>2
    <2> HIDE DEF a, b
    <2>2. Runs(h, a, a) = Runs(h, a, b) + 1
      BY <2>1, RunsMore
    <2>. QED
      BY <2>2 DEF a, b
  <1>5. Runs(h, n + 3, (n + 4) - 1) = 1
    <2>1. (n + 4) - 1 = n + 3
      OBVIOUS
    <2>. QED
      BY <1>3, <1>4, <2>1
  <1>6. Listed(h, n + 3, n + 4)
    <2>1. n + 4 \in 1..Len(h) /\ n + 4 \in Nat \ {0}
      BY <1>1
    <2>2. Cell(h, n + 4) = End
      BY <2>1, CellIn
    <2>3. \A i \in (n + 3)..((n + 4) - 1) : i = n + 3
      OBVIOUS
    <2>. QED
      BY <1>1, <2>2, <2>3 DEF Listed
  <1>. QED
    BY <1>5, <1>6 DEF Whole

\* A file whose data are written, but the summary of the program is not.
LEMMA WholeHalf ==
  ASSUME NEW f \in Seq(Cells), NEW g \in Seq(Cells), NEW n \in Nat, NEW e \in Nat, NEW iscut,
         Whole(f, n, e, iscut), Begins(g, n), Len(g) = Len(f),
         \A i \in (n + 3)..Len(f) : g[i] = f[i],
         g[n + 2].sum.runs = f[n + 2].sum.runs + 1
  PROVE  Whole(g, n, e, TRUE)
  <1>1. /\ Begins(f, n) /\ n + 3 <= e /\ e <= Len(f) + 1 /\ Cell(f, e) = End
        /\ \A i \in (n + 3)..(e - 1) : f[i].kind = "program"
        /\ \A i, j \in (n + 3)..(e - 1) : f[i].crc = f[j].crc => i = j
        /\ Runs(f, n + 3, e - 1) <= f[n + 2].sum.runs
    BY DEF Whole, Listed
  <1>2. \A i \in (n + 3)..(e - 1) : g[i] = f[i]
    BY <1>1
  <1>3. Runs(g, n + 3, e - 1) = Runs(f, n + 3, e - 1)
    BY <1>2, RunsSame
  <1>4. Cell(g, e) = End
    <2>1. Len(f) \in Nat /\ DOMAIN f = 1..Len(f) /\ DOMAIN g = 1..Len(f)
      OBVIOUS
    <2>2. CASE e <= Len(f)
      BY <1>1, <2>1, <2>2 DEF Cell
    <2>3. CASE ~(e <= Len(f))
      BY <1>1, <2>1, <2>3 DEF Cell
    <2>. QED
      BY <2>2, <2>3
  <1>5. Listed(g, n + 3, e)
    BY <1>1, <1>2, <1>4 DEF Listed
  <1>6. Runs(f, n + 3, e - 1) \in Nat /\ f[n + 2].sum.runs \in Nat
    <2>1. Runs(f, n + 3, e - 1) \in Nat
      <3>1. n + 3 \in Nat \ {0} /\ e - 1 \in Nat /\ e - 1 <= Len(f)
        BY <1>1
      <3>. QED
        BY <1>1, <3>1, RunsType
    <2>2. f[n + 2] \in Cells /\ f[n + 2].kind = "object"
      BY <1>1 DEF Begins
    <2>3. f[n + 2].sum \in Summaries
      BY <2>2, CellFacts
    <2>. QED
      BY <2>1, <2>3 DEF Summaries
  <1>7. Runs(g, n + 3, e - 1) <= g[n + 2].sum.runs
    BY ONLY <1>1, <1>3, <1>6, g[n + 2].sum.runs = f[n + 2].sum.runs + 1
  <1>. QED
    BY <1>5, <1>7 DEF Whole

\* A file with one more program.
LEMMA WholeAppended ==
  ASSUME NEW f \in Seq(Cells), NEW h \in Seq(Cells), NEW n \in Nat, NEW e \in Nat, NEW iscut,
         Whole(f, n, e, iscut), Begins(h, n), e + 1 <= Len(h),
         \A i \in (n + 3)..(e - 1) : h[i] = f[i] /\ f[i].crc # h[e].crc,
         h[e].kind = "program", h[e].sum.runs = 1, h[e + 1] = End,
         h[n + 2].sum.runs = f[n + 2].sum.runs + 1
  PROVE  Whole(h, n, e + 1, iscut)
  <1>1. /\ Begins(f, n) /\ n + 3 <= e /\ e <= Len(f) + 1
        /\ \A i \in (n + 3)..(e - 1) : f[i].kind = "program"
        /\ \A i, j \in (n + 3)..(e - 1) : f[i].crc = f[j].crc => i = j
        /\ Runs(f, n + 3, e - 1) <= f[n + 2].sum.runs
        /\ ~iscut => Runs(f, n + 3, e - 1) = f[n + 2].sum.runs
    BY DEF Whole, Listed
  <1>2. /\ n + 3 \in Nat \ {0} /\ e - 1 \in Nat /\ e - 1 <= Len(f) /\ (e - 1) + 1 = e
        /\ (e + 1) - 1 = e /\ n + 3 <= (e - 1) + 1 /\ (e - 1) + 1 <= Len(h)
        /\ e + 1 \in 1..Len(h) /\ e + 1 \in Nat \ {0}
    <2> DEFINE y == Len(f)
               z == Len(h)
    <2>1. y \in Nat /\ z \in Nat /\ n + 3 <= e /\ e <= y + 1 /\ e + 1 <= z
      BY <1>1
    <2> HIDE DEF y, z
    <2>2. /\ n + 3 \in Nat \ {0} /\ e - 1 \in Nat /\ e - 1 <= y /\ (e - 1) + 1 = e
          /\ (e + 1) - 1 = e /\ n + 3 <= (e - 1) + 1 /\ (e - 1) + 1 <= z
          /\ e + 1 \in 1..z /\ e + 1 \in Nat \ {0}
      BY ONLY n \in Nat, e \in Nat, <2>1
    <2>. QED
      BY ONLY <2>2 DEF y, z
  <1>3. Runs(h, n + 3, e) = Runs(f, n + 3, e - 1) + 1
    <2>1. \A i \in (n + 3)..(e - 1) : f[i].kind = "program" /\ h[i] = f[i]
      BY <1>1
    <2> DEFINE a == n + 3
               b == e - 1
    <2>2. /\ a \in Nat \ {0} /\ b \in Nat /\ e = b + 1 /\ a <= e /\ b <= Len(f) /\ e <= Len(h)
          /\ (\A i \in a..b : f[i].kind = "program" /\ h[i] = f[i])
          /\ h[e].sum.runs = 1 /\ f \in Seq(Cells) /\ h \in Seq(Cells)
      BY <1>1, <1>2, <2>1
    <2> HIDE DEF a, b
    <2>3. Runs(h, a, e) = Runs(f, a, b) + 1
      <3>1. a \in Nat \ {0} /\ b \in Nat /\ e \in Nat /\ e = b + 1
        BY <2>2
      <3>2. a <= e /\ b <= Len(f) /\ e <= Len(h)
        BY ONLY <2>2
      <3>3. \A i \in a..b : f[i].kind = "program" /\ h[i] = f[i]
        BY ONLY <2>2
      <3>4. f \in Seq(Cells) /\ h \in Seq(Cells) /\ h[e].sum.runs = 1
        BY ONLY <2>2
      <3>. QED
        BY ONLY <3>1, <3>2, <3>3, <3>4, RunsMore
    <2>. QED
      BY <2>3 DEF a, b
  <1>4. Cell(h, e + 1) = End
    BY <1>2, CellIn
  <1>5. Listed(h, n + 3, e + 1)
    <2>1. \A i \in (n + 3)..((e + 1) - 1) : i \in (n + 3)..(e - 1) \/ i = e
      BY <1>1
    <2>2. \A i \in (n + 3)..((e + 1) - 1) : h[i].kind = "program"
      BY <1>1, <2>1
    <2>3. ASSUME NEW i \in (n + 3)..((e + 1) - 1), NEW j \in (n + 3)..((e + 1) - 1),
                 h[i].crc = h[j].crc
          PROVE  i = j
      BY <1>1, <2>1, <2>3
    <2>. QED
      BY <1>1, <1>2, <1>4, <2>2, <2>3 DEF Listed
  <1>6. Runs(f, n + 3, e - 1) \in Nat /\ f[n + 2].sum.runs \in Nat
    <2>1. Runs(f, n + 3, e - 1) \in Nat
      BY <1>1, <1>2, RunsType
    <2>2. f[n + 2] \in Cells /\ f[n + 2].kind = "object"
      BY <1>1 DEF Begins
    <2>3. f[n + 2].sum \in Summaries
      BY <2>2, CellFacts
    <2>. QED
      BY <2>1, <2>3 DEF Summaries
  <1>7. Runs(h, n + 3, (e + 1) - 1) = Runs(f, n + 3, e - 1) + 1
    BY <1>2, <1>3
  <1>8. /\ Runs(h, n + 3, (e + 1) - 1) <= h[n + 2].sum.runs
        /\ ~iscut => Runs(h, n + 3, (e + 1) - 1) = h[n + 2].sum.runs
    BY ONLY <1>1, <1>6, <1>7, h[n + 2].sum.runs = f[n + 2].sum.runs + 1
  <1>. QED
    BY <1>5, <1>8 DEF Whole

\* A file with one more run of one of its programs.
LEMMA WholeReplaced ==
  ASSUME NEW f \in Seq(Cells), NEW h \in Seq(Cells), NEW n \in Nat, NEW e \in Nat, NEW iscut,
         Whole(f, n, e, iscut), Begins(h, n), Len(h) = Len(f), NEW x \in (n + 3)..(e - 1),
         \A i \in (n + 3)..Len(f) : i # x => h[i] = f[i],
         h[x].kind = "program", h[x].crc = f[x].crc, h[x].sum.runs = f[x].sum.runs + 1,
         h[n + 2].sum.runs = f[n + 2].sum.runs + 1
  PROVE  Whole(h, n, e, iscut)
  <1>1. /\ Begins(f, n) /\ n + 3 <= e /\ e <= Len(f) + 1 /\ Cell(f, e) = End
        /\ \A i \in (n + 3)..(e - 1) : f[i].kind = "program"
        /\ \A i, j \in (n + 3)..(e - 1) : f[i].crc = f[j].crc => i = j
        /\ Runs(f, n + 3, e - 1) <= f[n + 2].sum.runs
        /\ ~iscut => Runs(f, n + 3, e - 1) = f[n + 2].sum.runs
    BY DEF Whole, Listed
  <1>2. /\ n + 3 \in Nat \ {0} /\ e - 1 \in Nat /\ e - 1 <= Len(f) /\ e - 1 <= Len(h)
        /\ Len(f) \in Nat
    BY <1>1
  <1>3. \A i \in (n + 3)..(e - 1) : f[i].kind = "program" /\ (i # x => h[i] = f[i])
    BY <1>1, <1>2
  <1>4. Runs(h, n + 3, e - 1) = Runs(f, n + 3, e - 1) + 1
    BY <1>2, <1>3, RunsChange
  <1>5. Cell(h, e) = End
    <2>1. DOMAIN f = 1..Len(f) /\ DOMAIN h = 1..Len(f) /\ e # x
      OBVIOUS
    <2>2. CASE e <= Len(f)
      BY <1>1, <1>2, <2>1, <2>2 DEF Cell
    <2>3. CASE ~(e <= Len(f))
      BY <1>1, <1>2, <2>1, <2>3 DEF Cell
    <2>. QED
      BY <2>2, <2>3
  <1>6. \A i \in (n + 3)..(e - 1) : h[i].kind = "program" /\ h[i].crc = f[i].crc
    BY <1>3
  <1>7. Listed(h, n + 3, e)
    BY <1>1, <1>2, <1>5, <1>6 DEF Listed
  <1>8. Runs(f, n + 3, e - 1) \in Nat /\ f[n + 2].sum.runs \in Nat
    <2>1. Runs(f, n + 3, e - 1) \in Nat
      BY <1>1, <1>2, RunsType
    <2>2. f[n + 2] \in Cells /\ f[n + 2].kind = "object"
      BY <1>1 DEF Begins
    <2>3. f[n + 2].sum \in Summaries
      BY <2>2, CellFacts
    <2>. QED
      BY <2>1, <2>3 DEF Summaries
  <1>9. /\ Runs(h, n + 3, e - 1) <= h[n + 2].sum.runs
        /\ ~iscut => Runs(h, n + 3, e - 1) = h[n + 2].sum.runs
    BY ONLY <1>1, <1>4, <1>8, h[n + 2].sum.runs = f[n + 2].sum.runs + 1
  <1>. QED
    BY <1>7, <1>9 DEF Whole

\* What the scan of a whole file finds: the functions are as many as the file's, the
\* summary of the object is the file's, and that of the program, or the end.
LEMMA ScanFinds ==
  ASSUME NEW f \in Seq(Cells), NEW n \in Nat \ {0}, NEW m \in Nat, NEW e \in Nat, NEW iscut,
         Whole(f, m, e, iscut), NEW crc, There(f, n) = 1..n,
         NEW stop, stop = ScanStop(f, crc, n), Cell(f, stop).kind \in {"end", "program"}
  PROVE  /\ n = m /\ ObjectFound(f, n, stop) = f[n + 2].sum
         /\ Cell(f, stop).kind = "end" =>
              stop = e /\ \A i \in (n + 3)..(e - 1) : f[i].crc # crc
         /\ Cell(f, stop).kind = "program" =>
              stop \in (n + 3)..(e - 1) /\ f[stop].crc = crc /\ f[stop].kind = "program"
  <1>1. /\ m + 2 <= Len(f) /\ f[m + 2].kind = "object"
        /\ \A k \in 1..m : f[k + 1].kind = "function"
        /\ m + 3 <= e /\ e <= Len(f) + 1 /\ Cell(f, e) = End
        /\ \A i \in (m + 3)..(e - 1) : f[i].kind = "program"
    BY DEF Whole, Listed, Begins
  <1>2. Len(f) \in Nat /\ \A k \in 1..n : k + 1 \in 1..Len(f) /\ f[k + 1].kind = "function"
    <2>1. Len(f) \in Nat /\ n \in Nat
      OBVIOUS
    <2>2. ASSUME NEW k \in 1..n PROVE k + 1 \in 1..Len(f) /\ f[k + 1].kind = "function"
      <3>1. k \in There(f, n)
        OBVIOUS
      <3>. QED
        BY <2>1, <3>1, ThereIn
    <2>. QED
      BY <2>1, <2>2
  <1>3. n <= m
    <2> SUFFICES ASSUME m + 1 <= n PROVE FALSE
      OBVIOUS
    <2>1. m + 1 \in 1..n /\ (m + 1) + 1 = m + 2
      OBVIOUS
    <2>2. f[m + 2].kind = "function"
      BY <1>2, <2>1
    <2>. QED
      BY <1>1, <2>2
  <1>4. n + 1 <= Len(f)
    <2>1. n \in 1..n
      OBVIOUS
    <2>2. n + 1 \in 1..Len(f)
      BY <1>2, <2>1
    <2>. QED
      BY <1>2, <2>2
  <1>5. /\ stop \in (n + 2)..(Len(f) + 1) /\ ScanEnds(f, crc, stop)
        /\ \A j \in (n + 2)..(stop - 1) : ~ScanEnds(f, crc, j)
    BY <1>4, ScanStops
  <1>6. n = m
    <2> SUFFICES ASSUME n + 1 <= m PROVE FALSE
      BY <1>3
    <2>1. n + 1 \in 1..m /\ (n + 1) + 1 = n + 2 /\ n + 2 \in 1..Len(f) /\ n + 2 \in Nat \ {0}
      BY <1>1, <1>2
    <2>2. f[n + 2].kind = "function" /\ Cell(f, n + 2) = f[n + 2]
      BY <1>1, <2>1, CellIn
    <2>3. ScanEnds(f, crc, n + 2)
      BY <2>2 DEF ScanEnds
    <2>4. stop = n + 2
      <3> SUFFICES ASSUME stop # n + 2 PROVE FALSE
        OBVIOUS
      <3>1. n + 2 \in (n + 2)..(stop - 1)
        BY <1>2, <1>5
      <3>. QED
        BY <1>5, <2>3, <3>1
    <2>. QED
      BY <2>2, <2>4
  <1>7. \A i \in (n + 3)..(e - 1) : f[i].kind = "program" /\ Cell(f, i) = f[i] /\ i \in 1..Len(f)
    <2> SUFFICES ASSUME NEW i \in (n + 3)..(e - 1)
                 PROVE  f[i].kind = "program" /\ Cell(f, i) = f[i] /\ i \in 1..Len(f)
      OBVIOUS
    <2>1. i \in 1..Len(f) /\ i \in Nat \ {0} /\ i \in (m + 3)..(e - 1)
      BY <1>1, <1>2, <1>6
    <2>. QED
      BY <1>1, <2>1, CellIn
  <1>8. f[n + 2].kind = "object" /\ Cell(f, n + 2) = f[n + 2] /\ Cell(f, e).kind = "end"
    <2>1. n + 2 \in 1..Len(f) /\ n + 2 \in Nat \ {0}
      BY <1>1, <1>2, <1>6
    <2>. QED
      BY <1>1, <1>6, <2>1, CellIn, CellsMade
  <1>9. stop \in (n + 3)..e
    <2>1. stop # n + 2
      BY <1>8
    <2>2. stop <= e
      <3> SUFFICES ASSUME e < stop PROVE FALSE
        BY <1>2, <1>5
      <3>1. e \in (n + 2)..(stop - 1)
        BY <1>1, <1>2, <1>5, <1>6
      <3>2. ScanEnds(f, crc, e)
        BY <1>8 DEF ScanEnds
      <3>. QED
        BY <1>5, <3>1, <3>2
    <2>. QED
      BY <1>1, <1>2, <1>5, <2>1, <2>2
  <1>10. ObjectFound(f, n, stop) = f[n + 2].sum
    <2> DEFINE found == {j \in (n + 2)..(stop - 1) : f[j].kind = "object"}
    <2>1. n + 2 \in found
      BY <1>8, <1>9
    <2>2. ASSUME NEW j \in found PROVE j = n + 2
      <3> SUFFICES ASSUME j # n + 2 PROVE FALSE
        OBVIOUS
      <3>1. j \in (n + 3)..(e - 1) /\ f[j].kind = "object"
        BY <1>9, <2>2
      <3>. QED
        BY <1>7, <3>1
    <2>3. found = {n + 2}
      BY <2>1, <2>2
    <2>4. Max(found) = n + 2
      <3>1. found \subseteq Nat /\ found # {} /\ \A y \in found : y <= n + 2
        BY <2>3
      <3>2. n + 2 \in Nat
        OBVIOUS
      <3> HIDE DEF found
      <3>3. Max(found) \in found
        BY <3>1, <3>2, MaxIs
      <3>. QED
        BY <2>3, <3>3
    <2>5. ObjectFound(f, n, stop) = f[Max(found)].sum
      BY <2>1 DEF ObjectFound
    <2> HIDE DEF found
    <2>. QED
      BY <2>4, <2>5
  <1>11. ASSUME Cell(f, stop).kind = "end"
         PROVE  stop = e /\ \A i \in (n + 3)..(e - 1) : f[i].crc # crc
    <2>1. stop = e
      <3> SUFFICES ASSUME stop # e PROVE FALSE
        OBVIOUS
      <3>1. stop \in (n + 3)..(e - 1)
        BY <1>9
      <3>. QED
        BY <1>7, <1>11, <3>1
    <2>2. ASSUME NEW i \in (n + 3)..(e - 1), f[i].crc = crc PROVE FALSE
      <3>1. ScanEnds(f, crc, i)
        BY <1>7, <2>2 DEF ScanEnds
      <3>2. i \in (n + 2)..(stop - 1)
        BY <2>1
      <3>. QED
        BY <1>5, <3>1, <3>2
    <2>. QED
      BY <2>1, <2>2
  <1>12. ASSUME Cell(f, stop).kind = "program"
         PROVE  stop \in (n + 3)..(e - 1) /\ f[stop].crc = crc /\ f[stop].kind = "program"
    <2>1. stop # e
      BY <1>8, <1>12
    <2>2. stop \in (n + 3)..(e - 1)
      BY <1>9, <2>1
    <2>. QED
      BY <1>5, <1>7, <1>12, <2>2 DEF ScanEnds
  <1>. QED
    BY <1>6, <1>10, <1>11, <1>12

\* The parts of a merged summary.
LEMMA MergedParts ==
  ASSUME NEW s \in Summaries, NEW this \in Summaries
  PROVE  /\ Merged(s, this) \in Summaries
         /\ Merged(s, this).num = this.num /\ Merged(s, this).runs = s.runs + 1
         /\ Merged(s, this).sum_all = s.sum_all + this.sum_all
  <1>1. Merged(s, this) \in Summaries
    BY MergedType
  <1>. QED
    BY <1>1 DEF Merged

\* Blocks that make a file that can be read.
Makes(f, B, iscut) ==
  \E h \in Seq(Cells) : Readable(h, iscut) /\ Towards(f, B, Len(B), h)
HalfMakes(f, B) ==
  \E h \in Seq(Cells) : Readable(h, TRUE) /\ Towards(f, B, Len(B) - 1, h)

\* A file that is written anew will be a whole one.
LEMMA FreshMakes ==
  ASSUME NEW f \in Seq(Cells), NEW stamp \in Nat, NEW c \in Seq(Nat), NEW crc \in Seq(Objects),
         NEW this \in Summaries, NEW prog \in Summaries, NEW iscut,
         this.num = Len(c), this.sum_all = SumFunction(c), SumFunction(c) \in Nat
  PROVE  Makes(f, NewBlocks(stamp, c, crc, Merged(NoSummary, this), Merged(NoSummary, prog),
                            0, FALSE), iscut)
  <1> DEFINE obj == Merged(NoSummary, this)
             prg == Merged(NoSummary, prog)
             n == Len(c)
             B == NewBlocks(stamp, c, crc, obj, prg, 0, FALSE)
  <1>1. /\ obj \in Summaries /\ prg \in Summaries /\ obj.num = n /\ obj.runs = 1
        /\ obj.sum_all = SumFunction(c) /\ prg.runs = 1
    <2>1. NoSummary.runs = 0 /\ NoSummary.sum_all = 0
      BY DEF NoSummary
    <2>. QED
      BY <2>1, NoSummaryType, MergedParts
  <1>2. n \in Nat
    OBVIOUS
  <1> HIDE DEF obj, prg
  <1>3. PICK h \in Seq(Cells) : Towards(f, B, Len(B), h) /\ IsNew(h, stamp, c, crc, obj, prg)
    <2>1. B = NewBlocks(stamp, c, crc, obj, prg, 0, FALSE)
      OBVIOUS
    <2> HIDE DEF B
    <2>. QED
      BY <1>1, <2>1, TowardsAll
  <1> HIDE DEF B
  <1>0. /\ HasData(h, stamp, c, obj) /\ n + 4 <= Len(h)
        /\ h[n + 3] = ProgramCell(crc, prg) /\ h[n + 4] = End
    BY <1>3 DEF IsNew
  <1>4. Begins(h, n) /\ h[n + 2].sum = obj
    BY <1>0, <1>1, DataBegins
  <1>5. h[n + 3].kind = "program" /\ h[n + 3].sum.runs = 1 /\ h[n + 2].sum.runs = 1
    BY <1>0, <1>1, <1>4 DEF ProgramCell
  <1>6. Whole(h, n, n + 4, iscut)
    <2> HIDE DEF n
    <2>. QED
      BY <1>0, <1>2, <1>4, <1>5, WholeFresh
  <1>7. Readable(h, iscut)
    <2>1. n + 4 \in Nat
      BY <1>2
    <2>. QED
      BY <1>2, <1>6, <2>1 DEF Readable
  <1>8. Makes(f, B, iscut)
    BY <1>3, <1>7 DEF Makes
  <1>. QED
    BY <1>8 DEF B, obj, prg

\* A file that is merged will be a whole one, and is one before its last block is
\* written, but for the run of the program.
LEMMA MergedMakes ==
  ASSUME NEW f \in Seq(Cells), NEW stamp \in Nat, NEW c \in Seq(Nat), NEW crc \in Seq(Objects),
         NEW this \in Summaries, NEW prog \in Summaries, NEW iscut, NEW own \in BOOLEAN,
         NEW prg \in Summaries, NEW stop, NEW e \in Nat,
         this.num = Len(c), this.sum_all = SumFunction(c), SumFunction(c) \in Nat, Len(c) > 0,
         Whole(f, Len(c), e, iscut), There(f, Len(c)) = 1..Len(c), Cell(f, 1).kind = "head",
         stop = ScanStop(f, crc, Len(c)),
         own => Cell(f, stop).kind = "program" /\ prg = f[stop].sum,
         ~own => Cell(f, stop).kind = "end" /\ prg = NoSummary,
         NEW B, B = NewBlocks(stamp, MergedCounts(f, c), crc,
                              Merged(ObjectFound(f, Len(c), stop), this), Merged(prg, prog),
                              stop, own)
  PROVE  Makes(f, B, iscut) /\ HalfMakes(f, B)
  <1> DEFINE n == Len(c)
             mc == MergedCounts(f, c)
             obj == Merged(ObjectFound(f, n, stop), this)
             new == Merged(prg, prog)
  <1>1. n \in Nat \ {0} /\ n \in Nat
    OBVIOUS
  <1>2. Cell(f, stop).kind \in {"end", "program"}
    OBVIOUS
  <1>3. /\ ObjectFound(f, n, stop) = f[n + 2].sum
        /\ Cell(f, stop).kind = "end" =>
             stop = e /\ \A i \in (n + 3)..(e - 1) : f[i].crc # crc
        /\ Cell(f, stop).kind = "program" =>
             stop \in (n + 3)..(e - 1) /\ f[stop].crc = crc /\ f[stop].kind = "program"
    <2>1. Whole(f, n, e, iscut) /\ There(f, n) = 1..n /\ stop = ScanStop(f, crc, n)
      OBVIOUS
    <2> HIDE DEF n
    <2>. QED
      BY ONLY f \in Seq(Cells), e \in Nat, <1>1, <1>2, <2>1, ScanFinds
  <1>4. /\ n + 2 <= Len(f) /\ f[n + 2].kind = "object" /\ f[n + 2].sum.sum_all = InFile(f)
        /\ n + 3 <= e /\ e <= Len(f) + 1 /\ Len(f) \in Nat
    BY DEF Whole, Begins, Listed
  <1>5. f[n + 2].sum \in Summaries
    <2>1. f[n + 2] \in Cells
      BY <1>1, <1>4
    <2>. QED
      BY <1>4, <2>1, CellFacts
  <1>6. mc \in Seq(Nat) /\ Len(mc) = n
    BY MergedCountsType
  <1>7. SumFunction(mc) = SumFunction(c) + InFile(f)
    BY <1>2, MergedSum
  <1>8. /\ obj \in Summaries /\ new \in Summaries /\ obj.num = Len(mc)
        /\ obj.sum_all = SumFunction(mc) /\ obj.runs = f[n + 2].sum.runs + 1
        /\ new.runs = prg.runs + 1
    <2>1. obj \in Summaries /\ obj.num = n /\ obj.runs = f[n + 2].sum.runs + 1
          /\ obj.sum_all = InFile(f) + SumFunction(c)
      BY <1>3, <1>4, <1>5, MergedParts
    <2>2. new \in Summaries /\ new.runs = prg.runs + 1
      BY MergedParts
    <2>3. InFile(f) \in Nat
      BY <1>4, <1>5 DEF Summaries
    <2>4. InFile(f) + SumFunction(c) = SumFunction(c) + InFile(f)
      BY <2>3
    <2>. QED
      BY <1>6, <1>7, <2>1, <2>2, <2>4
  <1> HIDE DEF obj, new, mc, n
  <1>9. /\ stop \in Nat /\ n + 3 <= stop /\ stop <= Len(f) + 1 /\ (own => stop <= Len(f))
    <2>1. CASE own
      BY <1>1, <1>3, <1>4, <2>1
    <2>2. CASE ~own
      BY <1>1, <1>3, <1>4, <2>2
    <2>. QED
      BY <2>1, <2>2
  <1>10. /\ Len(B) \in Nat \ {0}
         /\ \E g \in Seq(Cells) : Towards(f, B, Len(B) - 1, g) /\ IsHalf(g, f, stamp, mc, obj)
         /\ \E h \in Seq(Cells) : /\ Towards(f, B, Len(B), h)
                                  /\ IsMerged(h, f, stamp, mc, crc, obj, new, stop, own)
    <2>1. B = NewBlocks(stamp, mc, crc, obj, new, stop, own) /\ Len(mc) + 3 <= stop
      BY <1>6, <1>9 DEF n, mc, obj, new
    <2> DEFINE P(x) ==
          /\ Len(B) \in Nat \ {0}
          /\ \E g \in Seq(Cells) : Towards(f, B, Len(B) - 1, g) /\ IsHalf(g, f, stamp, mc, obj)
          /\ \E h \in Seq(Cells) : /\ Towards(f, B, Len(B), h)
                                   /\ IsMerged(h, f, stamp, mc, crc, obj, new, stop, x)
    <2>2. ASSUME own = TRUE PROVE P(TRUE)
      <3>1. B = NewBlocks(stamp, mc, crc, obj, new, stop, TRUE) /\ stop <= Len(f)
        BY <1>9, <2>1, <2>2
      <3>. QED
        BY ONLY f \in Seq(Cells), stamp \in Nat, crc \in Seq(Objects), <1>6, <1>8, <1>9, <2>1,
                <3>1, TowardsMerged
    <2>3. ASSUME own = FALSE PROVE P(FALSE)
      <3>1. B = NewBlocks(stamp, mc, crc, obj, new, stop, FALSE)
        BY <2>1, <2>3
      <3>. QED
        BY ONLY f \in Seq(Cells), stamp \in Nat, crc \in Seq(Objects), <1>6, <1>8, <1>9, <2>1,
                <3>1, TowardsMerged
    <2>. QED
      BY <2>2, <2>3
  <1>11. ASSUME NEW h \in Seq(Cells), HasData(h, stamp, mc, obj)
         PROVE  Begins(h, n) /\ h[n + 2].sum.runs = f[n + 2].sum.runs + 1
    <2>1. Begins(h, Len(mc)) /\ h[Len(mc) + 2].sum = obj
      BY <1>6, <1>8, <1>11, DataBegins
    <2>. QED
      BY <1>6, <1>8, <2>1
  <1>12. HalfMakes(f, B)
    <2>1. PICK g \in Seq(Cells) : Towards(f, B, Len(B) - 1, g) /\ IsHalf(g, f, stamp, mc, obj)
      BY <1>10
    <2>i. /\ HasData(g, stamp, mc, obj) /\ Len(g) = Len(f)
          /\ \A i \in (n + 3)..Len(f) : g[i] = f[i]
      BY <1>6, <2>1 DEF IsHalf
    <2>2. Begins(g, n) /\ g[n + 2].sum.runs = f[n + 2].sum.runs + 1
      BY <1>11, <2>i
    <2>3. Whole(f, n, e, iscut)
      BY DEF n
    <2>4. Whole(g, n, e, TRUE)
      BY <1>1, <2>i, <2>2, <2>3, WholeHalf
    <2>5. Readable(g, TRUE)
      BY <1>1, <2>4 DEF Readable
    <2>. QED
      BY <2>1, <2>5 DEF HalfMakes
  <1>13. Makes(f, B, iscut)
    <2>0. PICK h \in Seq(Cells) : /\ Towards(f, B, Len(B), h)
                                  /\ IsMerged(h, f, stamp, mc, crc, obj, new, stop, own)
      BY <1>10
    <2>1. /\ HasData(h, stamp, mc, obj) /\ Len(f) <= Len(h)
          /\ own => Len(h) = Len(f)
          /\ ~own => stop + 1 <= Len(h) /\ h[stop + 1] = End
          /\ h[stop] = ProgramCell(crc, new)
          /\ \A i \in (n + 3)..Len(f) : i # stop /\ (own \/ i # stop + 1) => h[i] = f[i]
      BY <1>6, <2>0 DEF IsMerged
    <2>2. Begins(h, n) /\ h[n + 2].sum.runs = f[n + 2].sum.runs + 1
      BY <1>11, <2>1
    <2>3. Whole(f, n, e, iscut)
      BY DEF n
    <2>4. h[stop].kind = "program" /\ h[stop].crc = crc /\ h[stop].sum = new
      BY <2>1 DEF ProgramCell
    <2>5. CASE own
      <3>1. stop \in (n + 3)..(e - 1) /\ f[stop].crc = crc
        BY <1>3, <2>5
      <3>2. h[stop].crc = f[stop].crc /\ h[stop].sum.runs = f[stop].sum.runs + 1
        BY <1>8, <2>4, <2>5, <3>1
      <3>3. \A i \in (n + 3)..Len(f) : i # stop => h[i] = f[i]
        BY <2>1, <2>5
      <3>4. Len(h) = Len(f)
        BY <2>1, <2>5
      <3>5. Whole(h, n, e, iscut)
        BY <1>1, <2>2, <2>3, <2>4, <3>1, <3>2, <3>3, <3>4, WholeReplaced
      <3>6. Readable(h, iscut)
        BY <1>1, <3>5 DEF Readable
      <3>. QED
        BY <2>0, <3>6 DEF Makes
    <2>6. CASE ~own
      <3>1. stop = e /\ \A i \in (n + 3)..(e - 1) : f[i].crc # crc
        BY <1>3, <2>6
      <3>2. h[e].sum.runs = 1
        <4>1. prg.runs = 0
          BY <2>6 DEF NoSummary
        <4>. QED
          BY <1>8, <2>4, <3>1, <4>1
      <3>3. \A i \in (n + 3)..(e - 1) : h[i] = f[i] /\ f[i].crc # h[e].crc
        <4> SUFFICES ASSUME NEW i \in (n + 3)..(e - 1)
                     PROVE  h[i] = f[i] /\ f[i].crc # h[e].crc
          OBVIOUS
        <4>1. i \in (n + 3)..Len(f) /\ i # e /\ i # e + 1
          BY <1>1, <1>4
        <4>. QED
          BY <2>1, <2>4, <3>1, <4>1
      <3>4. e + 1 <= Len(h) /\ h[e + 1] = End /\ h[e].kind = "program"
        BY <2>1, <2>4, <2>6, <3>1
      <3>5. Whole(h, n, e + 1, iscut)
        BY <1>1, <2>2, <2>3, <3>2, <3>3, <3>4, WholeAppended
      <3>6. Readable(h, iscut)
        <4>1. e + 1 \in Nat
          OBVIOUS
        <4>. QED
          BY <1>1, <3>5, <4>1 DEF Readable
      <3>. QED
        BY <2>0, <3>6 DEF Makes
    <2>. QED
      BY <2>5, <2>6
  <1>. QED
    BY <1>12, <1>13

-----------------------------------------------------------------------------
(* Every step keeps files readable *)

\* A file that was torn or cut stays so.
LEMMA GhostsGrow ==
  ASSUME Types, Lists, NEW p \in Procs, Action(p) \/ __gcov_fork(p)
  PROVE  torn \subseteq torn' /\ cut \subseteq cut' /\ (kill(p) \/ UNCHANGED <<torn, cut>>)
  <1> USE DEF progVars, dumpVars, writeVars, envVars, ghostVars
  <1>1. CASE \E o \in Objects : __gcov_init(p, o) \/ \E k \in 1..MaxFunctions : count(p, o, k)
    BY <1>1 DEF __gcov_init, count
  <1>2. CASE \E why \in {"exit", "flush", "fork", "exec"} : gcov_exit(p, why)
    BY <1>2 DEF gcov_exit
  <1>3. CASE open(p) \/ access(p)
    BY <1>3 DEF open, access
  <1>4. CASE create_file_directory(p) \/ reopen(p)
    BY <1>4 DEF create_file_directory, reopen
  <1>5. CASE merge(p)
    BY <1>5, MergeCases
  <1>6. CASE write_block(p) \/ gcov_close(p)
    BY <1>6 DEF write_block, gcov_close
  <1>7. CASE finish_exit(p) \/ finish_flush(p)
    BY <1>7 DEF finish_exit, finish_flush
  <1>8. CASE __gcov_exec(p) \/ __gcov_fork(p)
    BY <1>8 DEF __gcov_exec, __gcov_fork
  <1>9. CASE kill(p)
    BY <1>9 DEF kill
  <1>. QED
    BY <1>1, <1>2, <1>3, <1>4, <1>5, <1>6, <1>7, <1>8, <1>9 DEF Action, DumpStep

\* A plan for a file, in terms of what the blocks make of it.
LEMMA PlanIs ==
  ASSUME NEW p
  PROVE  PlanOk(p) <=>
           (pc[p] = "write" /\ Current(p) \notin torn =>
              /\ Makes(file[Current(p)], pending[p], Current(p) \in cut)
              /\ eof_pos[p] # 0 /\ pending[p] # <<>> => HalfMakes(file[Current(p)], pending[p]))
  BY DEF PlanOk, Makes, HalfMakes
LEMMA PlanIsNext ==
  ASSUME NEW p
  PROVE  PlanOk(p)' <=>
           (pc'[p] = "write" /\ Current(p)' \notin torn' =>
              /\ Makes(file'[Current(p)'], pending'[p], Current(p)' \in cut')
              /\ eof_pos'[p] # 0 /\ pending'[p] # <<>> =>
                   HalfMakes(file'[Current(p)'], pending'[p]))
  BY DEF PlanOk, Makes, HalfMakes

\* What merge writes makes a file that can be read, if the file it found can be.
LEMMA OldMakes ==
  ASSUME NEW f \in Seq(Cells), NEW stamp \in Nat, NEW c \in Seq(Nat), NEW crc \in Seq(Objects),
         NEW this \in Summaries, NEW prog \in Summaries, NEW iscut, NEW own, own \in BOOLEAN,
         NEW prg \in Summaries, NEW n, n = Len(c), n \in Nat \ {0},
         NEW stop, stop = ScanStop(f, crc, n),
         this.num = n, this.sum_all = SumFunction(c), SumFunction(c) \in Nat,
         Readable(f, iscut), Cell(f, 1).kind = "head", There(f, n) = 1..n,
         own => Cell(f, stop).kind = "program" /\ prg = f[stop].sum,
         ~own => Cell(f, stop).kind = "end" /\ prg = NoSummary,
         NEW mc, mc = MergedCounts(f, c), NEW obj, obj = ObjectFound(f, n, stop),
         NEW B, B = NewBlocks(stamp, mc, crc, Merged(obj, this), Merged(prg, prog), stop, own)
  PROVE  Makes(f, B, iscut) /\ HalfMakes(f, B)
  <1>1. f # <<>> /\ f[1].kind # "foreign"
    <2>1. 1 \in 1..Len(f) /\ Cell(f, 1) = f[1]
      BY CellIn
    <2>. QED
      BY <2>1
  <1>2. PICK m \in Nat : \E e \in Nat : Whole(f, m, e, iscut)
    BY <1>1 DEF Readable
  <1>3. PICK e \in Nat : Whole(f, m, e, iscut)
    BY <1>2
  <1>4. Cell(f, stop).kind \in {"end", "program"}
    OBVIOUS
  <1>5. n = m
    BY ONLY f \in Seq(Cells), n \in Nat \ {0}, m \in Nat, e \in Nat, <1>3, <1>4,
            There(f, n) = 1..n, stop = ScanStop(f, crc, n), ScanFinds
  <1>6. Whole(f, Len(c), e, iscut) /\ Len(c) > 0 /\ this.num = Len(c)
        /\ There(f, Len(c)) = 1..Len(c) /\ stop = ScanStop(f, crc, Len(c))
        /\ obj = ObjectFound(f, Len(c), stop)
    BY <1>3, <1>5
  <1>7. ASSUME own = TRUE PROVE Makes(f, B, iscut) /\ HalfMakes(f, B)
    <2>1. Cell(f, stop).kind = "program" /\ prg = f[stop].sum
      BY <1>7
    <2>2. B = NewBlocks(stamp, MergedCounts(f, c), crc, Merged(ObjectFound(f, Len(c), stop), this),
                        Merged(prg, prog), stop, TRUE)
      BY <1>6, <1>7
    <2>. QED
      BY ONLY f \in Seq(Cells), stamp \in Nat, c \in Seq(Nat), crc \in Seq(Objects),
              this \in Summaries, prog \in Summaries, prg \in Summaries, e \in Nat,
              this.sum_all = SumFunction(c), SumFunction(c) \in Nat, Cell(f, 1).kind = "head",
              <1>6, <2>1, <2>2, MergedMakes
  <1>8. ASSUME own = FALSE PROVE Makes(f, B, iscut) /\ HalfMakes(f, B)
    <2>1. Cell(f, stop).kind = "end" /\ prg = NoSummary
      BY <1>8
    <2>2. B = NewBlocks(stamp, MergedCounts(f, c), crc, Merged(ObjectFound(f, Len(c), stop), this),
                        Merged(prg, prog), stop, FALSE)
      BY <1>6, <1>8
    <2>. QED
      BY <1>6, <2>1, <2>2, MergedMakes
  <1>. QED
    BY <1>7, <1>8

\* What rewrite plans.
LEMMA RewritePlans ==
  ASSUME Types, NEW p \in Procs, NEW m, NEW obj, NEW prg, NEW pos, NEW own,
         rewrite(p, m, obj, prg, pos, own), ~read_fatal(p),
         NEW B, B = NewBlocks(Stamp[version[p]][Current(p)], m, gcov_list[p],
                              Merged(obj, ObjectTotals(p, Current(p))),
                              Merged(prg, program[p]), pos, own)
  PROVE  pending'[p] = B /\ eof_pos'[p] = pos /\ Current(p)' = Current(p)
  <1>1. Rewritten(p, m, obj, prg, pos, own)
    BY RewriteCases
  <1>2. pending \in [Procs -> Seq(BlockSet)] /\ eof_pos \in [Procs -> Nat]
    BY DEF Types
  <1>3. pending' = [pending EXCEPT ![p] = B] /\ eof_pos' = [eof_pos EXCEPT ![p] = pos]
        /\ todo' = todo
    BY <1>1 DEF Rewritten, Goto
  <1>. QED
    BY <1>2, <1>3 DEF Current

\* merge plans to make a file that can be read.
LEMMA MergePlans ==
  ASSUME IndInv, NEW p \in Procs, FileOk(Current(p)), merge(p), pc'[p] = "write"
  PROVE  PlanOk(p)'
  <1> DEFINE o == Current(p)
             f == file[o]
             c == counts[p][o]
             n == Len(c)
             stamp == Stamp[version[p]][o]
             old == Cell(f, 1).kind = "head" /\ f[1].stamp = stamp
             merged == MergedCounts(f, c)
             stop == ScanStop(f, gcov_list[p], n)
             obj == ObjectFound(f, n, stop)
             this == ObjectTotals(p, o)
             iscut == o \in cut
  <1>0. Types /\ Lists /\ Locks /\ ListOk(p) /\ Counted
    BY DEF IndInv, Lists, ListOk, Counted
  <1>1. pc[p] = "merge" /\ UNCHANGED <<file, torn, cut>>
    BY DEF merge
  <1>2. pc[p] \in Dumping
    BY <1>1 DEF Dumping, Opening
  <1>3. o \in Objects
    BY <1>0, <1>2, CurrentType
  <1>4. /\ f \in Seq(Cells) /\ version[p] \in Versions /\ gcov_list[p] \in Seq(Objects)
        /\ program[p] \in Summaries /\ pc \in [Procs -> Places]
        /\ pending \in [Procs -> Seq(BlockSet)] /\ eof_pos \in [Procs -> Nat]
    BY <1>0, <1>3 DEF Types
  <1>5. c \in Seq(Nat) /\ n \in Nat \ {0} /\ n = NFunctions[version[p]][o] /\ SumFunction(c) \in Nat
    BY <1>0, <1>3, CountersType
  <1>6. stamp \in Nat
    BY <1>3, <1>4, GcovAssumption
  <1>7. this \in Summaries /\ this.sum_all = SumFunction(c) /\ this.num = n
    BY <1>0, <1>3, ObjectTotalsType
  <1>8. ~read_fatal(p)
    BY <1>4 DEF read_fatal, NextFile
  <1>9. \/ /\ ~NotAGcovFile(f) /\ ~old
           /\ rewrite(p, c, NoSummary, NoSummary, 0, FALSE)
        \/ /\ old /\ There(f, n) = 1..n /\ Cell(f, stop).kind = "end"
           /\ rewrite(p, merged, obj, NoSummary, stop, FALSE)
        \/ /\ old /\ There(f, n) = 1..n /\ Cell(f, stop).kind = "program"
           /\ rewrite(p, merged, obj, f[stop].sum, stop, TRUE)
    BY <1>5, <1>8 DEF merge, There, MergedCounts
  <1>10. file'[o] = f /\ torn' = torn /\ (o \in cut') = iscut
    BY <1>1
  <1> HIDE DEF merged, stop, obj, this, old
  <1>11. ASSUME NEW own, own = FALSE, rewrite(p, c, NoSummary, NoSummary, 0, own)
         PROVE  PlanOk(p)'
    <2> DEFINE B == NewBlocks(stamp, c, gcov_list[p], Merged(NoSummary, this),
                              Merged(NoSummary, program[p]), 0, own)
    <2>1. pending'[p] = B /\ eof_pos'[p] = 0 /\ Current(p)' = o
      BY <1>0, <1>8, <1>11, RewritePlans DEF this
    <2>2. Makes(f, NewBlocks(stamp, c, gcov_list[p], Merged(NoSummary, this),
                             Merged(NoSummary, program[p]), 0, FALSE), iscut)
      BY <1>4, <1>5, <1>6, <1>7, FreshMakes
    <2>3. Makes(f, B, iscut)
      BY <1>11, <2>2
    <2> HIDE DEF B
    <2>. QED
      BY <1>1, <1>10, <2>1, <2>3, PlanIsNext
  <1>12. ASSUME NEW prg \in Summaries, NEW own, own \in BOOLEAN, o \notin torn,
                old, There(f, n) = 1..n,
                own => Cell(f, stop).kind = "program" /\ prg = f[stop].sum,
                ~own => Cell(f, stop).kind = "end" /\ prg = NoSummary,
                rewrite(p, merged, obj, prg, stop, own)
         PROVE  PlanOk(p)'
    <2> DEFINE B == NewBlocks(stamp, merged, gcov_list[p], Merged(obj, this),
                              Merged(prg, program[p]), stop, own)
    <2>1. pending'[p] = B /\ eof_pos'[p] = stop /\ Current(p)' = o
      BY <1>0, <1>8, <1>12, RewritePlans DEF this
    <2>2. Readable(f, iscut)
      <3>1. ASSUME NEW q \in Procs, Begun(q, o) PROVE FALSE
        <4>1. lock[o] = q /\ lock[o] = p
          BY <1>0, <1>1, <1>3, <3>1 DEF Begun, Locks
        <4>. QED
          BY <1>1, <3>1, <4>1 DEF Begun
      <3>. QED
        BY <1>12, <3>1 DEF FileOk
    <2>3. merged = MergedCounts(f, c) /\ obj = ObjectFound(f, n, stop)
          /\ stop = ScanStop(f, gcov_list[p], n) /\ Cell(f, 1).kind = "head"
      BY <1>12 DEF merged, obj, stop, old
    <2>4. B = NewBlocks(stamp, merged, gcov_list[p], Merged(obj, this),
                        Merged(prg, program[p]), stop, own)
      OBVIOUS
    <2> HIDE DEF B, f, c, n, stamp, iscut
    <2>5. n = Len(c)
      BY DEF n
    <2>6. Makes(f, B, iscut) /\ HalfMakes(f, B)
      <3> DEFINE crc == gcov_list[p]
                 prog == program[p]
      <3>1. /\ f \in Seq(Cells) /\ stamp \in Nat /\ c \in Seq(Nat) /\ crc \in Seq(Objects)
            /\ this \in Summaries /\ prog \in Summaries /\ prg \in Summaries
            /\ n \in Nat \ {0} /\ stop = ScanStop(f, crc, n)
            /\ this.num = n /\ this.sum_all = SumFunction(c) /\ SumFunction(c) \in Nat
            /\ There(f, n) = 1..n /\ own \in BOOLEAN
            /\ B = NewBlocks(stamp, merged, crc, Merged(obj, this), Merged(prg, prog), stop, own)
        BY <1>4, <1>5, <1>6, <1>7, <1>12, <2>3, <2>4 DEF f, c, n, stamp
      <3>2. /\ own => Cell(f, stop).kind = "program" /\ prg = f[stop].sum
            /\ ~own => Cell(f, stop).kind = "end" /\ prg = NoSummary
        BY <1>12 DEF f
      <3> HIDE DEF crc, prog
      <3>. QED
        BY ONLY <2>2, <2>3, <2>5, <3>1, <3>2, OldMakes
    <2>. QED
      BY <1>1, <1>10, <2>1, <2>6, PlanIsNext DEF f, iscut
  <1>13. CASE o \in torn
    <2>1. todo' = todo
      BY <1>8, <1>9 DEF rewrite, Goto
    <2>. QED
      BY <1>10, <1>13, <2>1 DEF PlanOk, Current
  <1>14. CASE o \notin torn /\ old /\ There(f, n) = 1..n /\ Cell(f, stop).kind = "end"
              /\ rewrite(p, merged, obj, NoSummary, stop, FALSE)
    <2> DEFINE own == FALSE
    <2>1. own = FALSE /\ own \in BOOLEAN /\ rewrite(p, merged, obj, NoSummary, stop, own)
      BY <1>14
    <2> HIDE DEF own
    <2>2. NoSummary \in Summaries
      BY NoSummaryType
    <2>. QED
      BY <1>12, <1>14, <2>1, <2>2
  <1>15. CASE o \notin torn /\ old /\ There(f, n) = 1..n /\ Cell(f, stop).kind = "program"
              /\ rewrite(p, merged, obj, f[stop].sum, stop, TRUE)
    <2> DEFINE own == TRUE
    <2>1. own = TRUE /\ own \in BOOLEAN /\ rewrite(p, merged, obj, f[stop].sum, stop, own)
      BY <1>15
    <2> HIDE DEF own
    <2>2. f[stop].sum \in Summaries
      <3>1. stop \in DOMAIN f /\ f[stop].kind = "program"
        BY <1>15 DEF Cell, End
      <3>2. f[stop] \in Cells
        BY <1>4, <3>1
      <3>. QED
        BY <3>1, <3>2, CellFacts
    <2>. QED
      BY <1>12, <1>15, <2>1, <2>2
  <1>16. CASE rewrite(p, c, NoSummary, NoSummary, 0, FALSE)
    <2> DEFINE own == FALSE
    <2>1. own = FALSE /\ rewrite(p, c, NoSummary, NoSummary, 0, own)
      BY <1>16
    <2> HIDE DEF own
    <2>. QED
      BY <1>11, <2>1
  <1>. QED
    BY <1>9, <1>13, <1>14, <1>15, <1>16

\* write_block goes on with the plan.
LEMMA WritePlans ==
  ASSUME IndInv, NEW p \in Procs, PlanOk(p), write_block(p)
  PROVE  PlanOk(p)'
  <1> DEFINE o == Current(p)
             f == file[o]
             pend == pending[p]
             g == Overwrite(f, pend[1].at, pend[1].cells)
  <1>0. Types /\ ListOk(p) /\ Writing
    BY DEF IndInv, Lists
  <1>1. /\ pc[p] = "write" /\ pend # <<>>
        /\ file' = [file EXCEPT ![o] = Overwrite(@, pend[1].at, pend[1].cells)]
        /\ pending' = [pending EXCEPT ![p] = Tail(@)]
        /\ UNCHANGED <<todo, eof_pos, torn, cut>>
    BY DEF write_block
  <1>2. o \in Objects
    BY <1>0, <1>1, CurrentType DEF Dumping
  <1>3. /\ f \in Seq(Cells) /\ pend \in Seq(BlockSet)
        /\ file \in [Objects -> Seq(Cells)] /\ pending \in [Procs -> Seq(BlockSet)]
    BY <1>0, <1>2 DEF Types
  <1>4. file'[o] = g /\ pending'[p] = Tail(pend) /\ Current(p)' = o
    BY <1>1, <1>2, <1>3 DEF Current
  <1>5. Len(pend) \in Nat \ {0} /\ Len(Tail(pend)) = Len(pend) - 1
        /\ (Tail(pend) # <<>> => Len(pend) - 1 \in 1..Len(pend))
    BY <1>1, <1>3
  <1>6. \A i \in 1..(pend[1].at - 1) : i \in 1..Len(f)
    <2>1. Planned(f, pend, eof_pos[p], Stamp[version[p]][o], counts[p][o])
      BY <1>0, <1>1 DEF Writing, WriteOk
    <2>2. \A i \in 1..(pend[1].at - 1) :
            i \in 1..Len(f) \/ \E a \in 1..(1 - 1) : i \in Extent(pend[a])
      BY <1>5, <2>1 DEF Planned
    <2>. QED
      BY <2>2
  <1>7. ASSUME o \notin torn PROVE Makes(g, Tail(pend), o \in cut)
    <2>1. Makes(f, pend, o \in cut)
      BY <1>1, <1>7, PlanIs
    <2>2. PICK h \in Seq(Cells) : Readable(h, o \in cut) /\ Towards(f, pend, Len(pend), h)
      BY <2>1 DEF Makes
    <2>3. Len(pend) \in 1..Len(pend)
      BY <1>5
    <2>4. Towards(g, Tail(pend), Len(pend) - 1, h)
      BY <1>3, <1>6, <2>2, <2>3, TowardsWrite
    <2>. QED
      BY <1>5, <2>2, <2>4 DEF Makes
  <1>8. ASSUME o \notin torn, eof_pos[p] # 0, Tail(pend) # <<>> PROVE HalfMakes(g, Tail(pend))
    <2>1. HalfMakes(f, pend)
      BY <1>1, <1>8, PlanIs
    <2>2. PICK h \in Seq(Cells) : Readable(h, TRUE) /\ Towards(f, pend, Len(pend) - 1, h)
      BY <2>1 DEF HalfMakes
    <2>3. Len(pend) - 1 \in 1..Len(pend)
      BY <1>5, <1>8
    <2>4. Towards(g, Tail(pend), (Len(pend) - 1) - 1, h)
      BY <1>3, <1>6, <2>2, <2>3, TowardsWrite
    <2>. QED
      BY <1>5, <2>2, <2>4 DEF HalfMakes
  <1> HIDE DEF g
  <1>. QED
    BY <1>1, <1>4, <1>7, <1>8, PlanIsNext

\* The plan of a process that does nothing, for a file that stays as it is.
LEMMA SamePlan ==
  ASSUME NEW q, Same(q), PlanOk(q), torn \subseteq torn', cut \subseteq cut',
         pc[q] = "write" => file'[Current(q)] = file[Current(q)]
  PROVE  PlanOk(q)'
  <1> SUFFICES ASSUME pc'[q] = "write", Current(q)' \notin torn'
               PROVE  /\ Makes(file'[Current(q)'], pending'[q], Current(q)' \in cut')
                      /\ eof_pos'[q] # 0 /\ pending'[q] # <<>> =>
                           HalfMakes(file'[Current(q)'], pending'[q])
    BY PlanIsNext
  <1>1. /\ pc[q] = "write" /\ Current(q)' = Current(q) /\ pending'[q] = pending[q]
        /\ eof_pos'[q] = eof_pos[q]
    BY DEF Same, Current
  <1>2. /\ file'[Current(q)'] = file[Current(q)] /\ Current(q) \notin torn
        /\ Current(q) \in cut => Current(q)' \in cut'
    BY <1>1
  <1>3. /\ Makes(file[Current(q)], pending[q], Current(q) \in cut)
        /\ eof_pos[q] # 0 /\ pending[q] # <<>> => HalfMakes(file[Current(q)], pending[q])
    BY <1>1, <1>2, PlanIs
  <1>4. Makes(file[Current(q)], pending[q], Current(q)' \in cut')
    <2>1. PICK h \in Seq(Cells) : Readable(h, Current(q) \in cut)
                                  /\ Towards(file[Current(q)], pending[q], Len(pending[q]), h)
      BY <1>3 DEF Makes
    <2>2. Readable(h, Current(q)' \in cut')
      BY <1>2, <2>1 DEF Readable, Whole
    <2>. QED
      BY <2>1, <2>2 DEF Makes
  <1>. QED
    BY <1>1, <1>2, <1>3, <1>4

\* Every step keeps the plans.
LEMMA PlansStep ==
  ASSUME IndInv, ReadInv, NEW p \in Procs, Action(p) \/ __gcov_fork(p)
  PROVE  \A q \in Procs : PlanOk(q)'
  <1>0. Types /\ Lists /\ Locks /\ ListOk(p)
    BY DEF IndInv, Lists
  <1>1. torn \subseteq torn' /\ cut \subseteq cut'
    BY <1>0, GhostsGrow
  <1>2. ASSUME NEW q \in Procs, q # p, pc[q] = "write"
        PROVE  file'[Current(q)] = file[Current(q)]
    <2>1. CASE file' = file
      BY <2>1
    <2>2. CASE write_block(p)
      <3>1. Current(p) # Current(q)
        BY <1>0, <1>2, <2>2, OneWriter DEF write_block
      <3>2. Current(q) \in Objects
        BY <1>0, <1>2, CurrentType DEF Lists, Dumping
      <3>. QED
        BY <1>0, <2>2, <3>1, <3>2 DEF write_block, Types
    <2>. QED
      BY <1>0, <2>1, <2>2, FileKept
  <1>3. ASSUME Action(p), pc'[p] = "write" PROVE PlanOk(p)'
    <2>1. CASE merge(p)
      <3>1. Current(p) \in Objects
        BY <1>0, <2>1, CurrentType DEF merge, Dumping, Opening
      <3>2. FileOk(Current(p))
        BY <3>1 DEF ReadInv
      <3>. QED
        BY <1>3, <2>1, <3>2, MergePlans
    <2>2. CASE write_block(p)
      BY <2>2, WritePlans DEF ReadInv
    <2>. QED
      BY <1>0, <1>3, <2>1, <2>2, WritesFrom
  <1> SUFFICES ASSUME NEW q \in Procs PROVE PlanOk(q)'
    OBVIOUS
  <1>4. PlanOk(q)
    BY DEF ReadInv
  <1>5. CASE Action(p) /\ q = p
    BY <1>3, <1>5, PlanIsNext
  <1>6. CASE Action(p) /\ q # p
    BY <1>0, <1>1, <1>2, <1>4, <1>6, OnlyOne, SamePlan
  <1>7. CASE __gcov_fork(p)
    <2>1. PICK child \in Procs : Forked(p, child)
      BY <1>0, <1>7, ForkCases
    <2>2. CASE q \in {p, child}
      BY <2>1, <2>2, PlanIsNext DEF Forked
    <2>3. CASE q \notin {p, child}
      BY <1>1, <1>2, <1>4, <2>1, <2>3, SamePlan DEF Forked
    <2>. QED
      BY <2>2, <2>3
  <1>. QED
    BY <1>5, <1>6, <1>7

\* A process that writes a file goes on with it, closes it or is killed.
LEMMA WritesTo ==
  ASSUME NEW p, Action(p), pc[p] = "write"
  PROVE  write_block(p) \/ gcov_close(p) \/ kill(p)
  <1>1. ~(\E o \in Objects : __gcov_init(p, o) \/ \E k \in 1..MaxFunctions : count(p, o, k))
    BY DEF __gcov_init, count
  <1>2. ~(\E why \in {"exit", "flush", "fork", "exec"} : gcov_exit(p, why))
    BY DEF gcov_exit
  <1>3. ~(open(p) \/ access(p) \/ create_file_directory(p) \/ reopen(p) \/ merge(p))
    BY DEF open, access, create_file_directory, reopen, merge
  <1>4. ~(finish_exit(p) \/ finish_flush(p) \/ __gcov_exec(p))
    BY DEF finish_exit, finish_flush, __gcov_exec
  <1>. QED
    BY <1>1, <1>2, <1>3, <1>4 DEF Action, DumpStep

\* Blocks that are all written have made a file that can be read.
LEMMA MadeAll ==
  ASSUME NEW f \in Seq(Cells), NEW B, NEW iscut
  PROVE  /\ Makes(f, B, iscut) /\ Len(B) = 0 => Readable(f, iscut)
         /\ HalfMakes(f, B) /\ Len(B) = 1 => Readable(f, TRUE)
  <1>1. ASSUME Makes(f, B, iscut), Len(B) = 0 PROVE Readable(f, iscut)
    <2>1. PICK h \in Seq(Cells) : Readable(h, iscut) /\ Towards(f, B, 0, h)
      BY <1>1 DEF Makes
    <2>. QED
      BY <2>1, TowardsDone
  <1>2. ASSUME HalfMakes(f, B), Len(B) = 1 PROVE Readable(f, TRUE)
    <2>1. PICK h \in Seq(Cells) : Readable(h, TRUE) /\ Towards(f, B, 1 - 1, h)
      BY <1>2 DEF HalfMakes
    <2>2. Towards(f, B, 0, h)
      BY <2>1
    <2>. QED
      BY <2>1, <2>2, TowardsDone
  <1>. QED
    BY <1>1, <1>2

\* Every step leaves files that can be read.
LEMMA FilesStep ==
  ASSUME IndInv, ReadInv, NEW p \in Procs, Action(p) \/ __gcov_fork(p)
  PROVE  \A o \in Objects : FileOk(o)'
  <1>0. Types /\ Lists /\ Locks /\ ListOk(p)
    BY DEF IndInv, Lists
  <1>1. torn \subseteq torn' /\ cut \subseteq cut' /\ (kill(p) \/ UNCHANGED <<torn, cut>>)
    BY <1>0, GhostsGrow
  <1> SUFFICES ASSUME NEW o \in Objects, o \notin torn', \A q \in Procs : ~Begun(q, o)'
               PROVE  Readable(file'[o], o \in cut')
    BY DEF FileOk
  <1>2. o \notin torn /\ (o \in cut => o \in cut') /\ file[o] \in Seq(Cells)
    BY <1>0, <1>1 DEF Types
  <1>3. CASE \A q \in Procs : ~Begun(q, o)
    <2>1. Readable(file[o], o \in cut)
      BY <1>2, <1>3 DEF ReadInv, FileOk
    <2>2. file'[o] = file[o]
      <3>1. CASE write_block(p)
        <4>1. /\ pc'[p] = "write" /\ Current(p)' = Current(p) /\ begun'[p]
              /\ file' = [file EXCEPT ![Current(p)] =
                            Overwrite(@, pending[p][1].at, pending[p][1].cells)]
          BY <1>0, <3>1 DEF write_block, Types, Current
        <4>2. o # Current(p)
          BY <4>1 DEF Begun
        <4>. QED
          BY <1>0, <4>1, <4>2 DEF Types
      <3>. QED
        BY <1>0, <3>1, FileKept
    <2>3. Readable(file[o], o \in cut')
      BY <1>2, <2>1 DEF Readable, Whole
    <2>. QED
      BY <2>2, <2>3
  <1>4. ASSUME NEW q \in Procs, Begun(q, o) PROVE Readable(file'[o], o \in cut')
    <2>1. ~Same(q)
      BY <1>4 DEF Begun, Same, Current
    <2>2. q = p /\ Action(p)
      <3>1. CASE __gcov_fork(p)
        <4>1. PICK child \in Procs : Forked(p, child)
          BY <1>0, <3>1, ForkCases
        <4>. QED
          BY <1>4, <2>1, <4>1 DEF Forked, Begun
      <3>2. CASE Action(p)
        BY <1>0, <2>1, <3>2, OnlyOne
      <3>. QED
        BY <3>1, <3>2
    <2>3. pc[p] = "write" /\ o = Current(p) /\ begun[p]
      BY <1>4, <2>2 DEF Begun
    <2>4. ~write_block(p)
      <3>1. ~Begun(p, o)'
        OBVIOUS
      <3>. QED
        BY <1>0, <2>3, <3>1 DEF write_block, Begun, Types, Current
    <2>5. gcov_close(p) \/ kill(p)
      BY <2>2, <2>3, <2>4, WritesTo
    <2>6. file'[o] = file[o]
      BY <1>0, <2>4, FileKept
    <2>7. /\ Makes(file[o], pending[p], o \in cut)
          /\ eof_pos[p] # 0 /\ pending[p] # <<>> => HalfMakes(file[o], pending[p])
      BY <1>2, <2>3, PlanIs DEF ReadInv
    <2>8. CASE pending[p] = <<>>
      <3>1. Len(pending[p]) = 0
        BY <2>8
      <3>2. Readable(file[o], o \in cut)
        BY <1>2, <2>7, <3>1, MadeAll
      <3>3. Readable(file[o], o \in cut')
        BY <1>2, <3>2 DEF Readable, Whole
      <3>. QED
        BY <2>6, <3>3
    <2>9. CASE pending[p] # <<>>
      <3>1. kill(p)
        BY <2>5, <2>9 DEF gcov_close
      <3>2. o \in cut' /\ eof_pos[p] # 0 /\ ~(Len(pending[p]) > 1)
        BY <2>3, <2>9, <3>1 DEF kill
      <3>3. Len(pending[p]) = 1
        <4>1. pending[p] \in Seq(BlockSet)
          BY <1>0 DEF Types
        <4>2. Len(pending[p]) \in Nat \ {0}
          BY <2>9, <4>1
        <4> DEFINE n == Len(pending[p])
        <4>3. n \in Nat \ {0} /\ ~(n > 1)
          BY <3>2, <4>2
        <4> HIDE DEF n
        <4>4. n = 1
          BY <4>3
        <4>. QED
          BY <4>4 DEF n
      <3>4. Readable(file[o], TRUE)
        BY <1>2, <2>7, <2>9, <3>2, <3>3, MadeAll
      <3>5. Readable(file[o], o \in cut')
        BY <3>2, <3>4 DEF Readable, Whole
      <3>. QED
        BY <2>6, <3>5
    <2>. QED
      BY <2>8, <2>9
  <1>. QED
    BY <1>3, <1>4

\* At first nobody writes, and there are no data files.
LEMMA InitReadable == Init => ReadInv
  <1> SUFFICES ASSUME Init PROVE ReadInv
    OBVIOUS
  <1>1. ASSUME NEW p \in Procs PROVE pc[p] # "write"
    BY DEF Init
  <1>2. ASSUME NEW o \in Objects PROVE Readable(file[o], o \in cut)
    <2>1. file[o] = <<>> \/ file[o] = <<ForeignHead>>
      BY DEF Init
    <2>2. <<ForeignHead>>[1].kind = "foreign"
      BY DEF ForeignHead
    <2>. QED
      BY <2>1, <2>2 DEF Readable
  <1>. QED
    BY <1>1, <1>2 DEF ReadInv, PlanOk, FileOk

\* Files can be read and plans are good in every state.
LEMMA ReadInvariance == Spec => []ReadInv
  <1>1. IndInv /\ ReadInv /\ Next => ReadInv'
    <2> SUFFICES ASSUME IndInv, ReadInv, Next PROVE ReadInv'
      OBVIOUS
    <2>1. PICK p \in Procs : Action(p) \/ __gcov_fork(p)
      BY DEF Next, Action
    <2>2. \A q \in Procs : PlanOk(q)'
      BY <2>1, PlansStep
    <2>3. \A o \in Objects : FileOk(o)'
      BY <2>1, FilesStep
    <2>. QED
      BY <2>2, <2>3 DEF ReadInv
  <1>2. ReadInv /\ UNCHANGED vars => ReadInv'
    <2> SUFFICES ASSUME ReadInv, UNCHANGED vars PROVE ReadInv'
      OBVIOUS
    <2> USE DEF vars, progVars, dumpVars, writeVars, envVars, ghostVars
    <2>1. ASSUME NEW q \in Procs PROVE PlanOk(q)'
      <3>1. Same(q)
        BY DEF Same
      <3>. QED
        BY <3>1, SamePlan DEF ReadInv
    <2>2. ASSUME NEW o \in Objects PROVE FileOk(o)'
      <3>1. \A q \in Procs : Begun(q, o)' <=> Begun(q, o)
        BY DEF Begun, Current
      <3>. QED
        BY <3>1 DEF ReadInv, FileOk
    <2>. QED
      BY <2>1, <2>2 DEF ReadInv
  <1>. QED
    BY <1>1, <1>2, InitReadable, Invariance, PTL DEF Spec

\* The functions that gcov reads of a whole file.
LEMMA FunctionsRead ==
  ASSUME NEW f \in Seq(Cells), NEW m \in Nat, Begins(f, m)
  PROVE  Cardinality({i \in DOMAIN f : \A j \in 2..i : f[j].kind = "function"}) - 1 = m
  <1> DEFINE S == {i \in DOMAIN f : \A j \in 2..i : f[j].kind = "function"}
  <1>1. DOMAIN f = 1..Len(f) /\ Len(f) \in Nat
    OBVIOUS
  <1>2. /\ m + 2 <= Len(f) /\ f[m + 2].kind = "object"
        /\ \A k \in 1..m : f[k + 1].kind = "function"
    BY DEF Begins
  <1>3. S \subseteq 1..(m + 1)
    <2> SUFFICES ASSUME NEW i \in 1..Len(f), \A j \in 2..i : f[j].kind = "function", i > m + 1
                 PROVE  FALSE
      BY <1>1
    <2>1. m + 2 \in 2..i
      OBVIOUS
    <2>. QED
      BY <1>2, <2>1
  <1>4. 1..(m + 1) \subseteq S
    <2>1. ASSUME NEW i \in 1..(m + 1), NEW j \in 2..i PROVE f[j].kind = "function"
      <3>1. j - 1 \in 1..m /\ (j - 1) + 1 = j
        OBVIOUS
      <3>. QED
        BY <1>2, <3>1
    <2>2. \A i \in 1..(m + 1) : i \in DOMAIN f
      BY <1>1, <1>2
    <2>. QED
      BY <2>1, <2>2
  <1>5. S = 1..(m + 1)
    BY <1>3, <1>4
  <1>6. Cardinality(1..(m + 1)) = m + 1
    <2>1. 1 \in Int /\ m + 1 \in Int /\ ~(1 > m + 1) /\ (m + 1) - 1 + 1 = m + 1
      OBVIOUS
    <2>. QED
      BY <2>1, FS_Interval
  <1> HIDE DEF S
  <1>7. Cardinality(S) - 1 = m
    BY <1>5, <1>6
  <1>. QED
    BY <1>7 DEF S

-----------------------------------------------------------------------------
(* What it shows *)

\* The files are locked by who merges or writes them, and the dumps work through
\* lists that end as gcov_list does.
THEOREM TypeCorrect == Spec => []TypeOK
  <1>1. IndInv => TypeOK
    <2> SUFFICES ASSUME IndInv PROVE TypeOK
      OBVIOUS
    <2>0. Types /\ Lists /\ Locks
      BY DEF IndInv
    <2>1. ASSUME NEW p \in Procs
          PROVE  /\ ToSet(gcov_list[p]) \subseteq Objects
                 /\ IsSuffix(todo[p], gcov_list[p])
                 /\ \/ todo[p] # <<>>
                    \/ pc[p] \notin {"open", "access", "mkdir", "reopen", "merge", "write"}
      <3>1. gcov_list[p] \in Seq(Objects) /\ todo[p] \in Seq(Objects) /\ ListOk(p)
        BY <2>0 DEF Types, Lists
      <3>2. ToSet(gcov_list[p]) \subseteq Objects
        BY <3>1 DEF ToSet
      <3>3. IsSuffix(todo[p], gcov_list[p])
        BY <3>1, SuffixIs DEF ListOk
      <3>. QED
        BY <3>1, <3>2, <3>3 DEF ListOk, Dumping, Opening
    <2>2. pc \in [Procs -> {"unborn", "count", "open", "access", "mkdir", "reopen", "merge", "write",
                            "ended", "fork", "exec", "done"}]
      BY <2>0 DEF Types, Places, Dumping, Opening
    <2>. QED
      BY <2>0, <2>1, <2>2 DEF TypeOK, Types, Locks
  <1>. QED
    BY <1>1, Invariance, PTL

\* Conservation of the counts: whatever processes dump, fork, exec or are killed at
\* once, what was executed is in the file, in memory or given up, exactly once.
THEOREM CountsConserved == Spec => []Conserved
  <1>1. IndInv => Conserved
    <2> SUFFICES ASSUME IndInv, NEW o \in Objects \ torn,
                        \A p \in Procs : ~(pc[p] = "write" /\ o = Current(p) /\ begun[p]
                                           /\ pending[p] # <<>>)
                 PROVE  executed[o] = InFile(file[o]) + SumFunction([p \in Procs |-> Undumped(p, o)])
                                        + discarded[o]
      BY DEF Conserved
    <2>0. Types /\ Lists /\ BalanceAt(o)
      BY DEF IndInv, Balance
    <2>1. executed[o] = InFile(file[o]) + Total(o)
      <3>1. CASE \A p \in Procs : ~Begun(p, o)
        BY <2>0, <3>1 DEF BalanceAt
      <3>2. ASSUME NEW p \in Procs, Begun(p, o) PROVE executed[o] = InFile(file[o]) + Total(o)
        <4>1. pc[p] = "write" /\ o = Current(p) /\ pending[p] = <<>>
          BY <3>2 DEF Begun
        <4>2. Planned(file[o], pending[p], eof_pos[p], Stamp[version[p]][o], counts[p][o])
          BY <4>1 DEF IndInv, Writing, WriteOk
        <4>3. /\ file[o] \in Seq(Cells) /\ pending[p] \in Seq(BlockSet) /\ eof_pos[p] \in Nat
              /\ Stamp[version[p]][o] \in Nat /\ counts[p][o] \in Seq(Nat)
          BY <2>0, GcovAssumption DEF Types
        <4>4. pending[p] = <<>> \/ (eof_pos[p] # 0 /\ Len(pending[p]) <= 1)
          BY <4>1
        <4>5. InFile(file[o]) = SumFunction(counts[p][o])
          BY <4>2, <4>3, <4>4, PlannedDone
        <4>. QED
          BY <2>0, <3>2, <4>5 DEF BalanceAt
      <3>. QED
        BY <3>1, <3>2
    <2>2. InFile(file[o]) \in Nat /\ discarded[o] \in Nat
      BY <2>0, BalanceNat
    <2> DEFINE u == [p \in Procs |-> Undumped(p, o)]
    <2>3. SumFunction(u) \in Nat
      <3>1. u \in [Procs -> Nat]
        BY <2>0, BalanceNat
      <3>2. IsFiniteSet(Procs)
        BY GcovAssumption
      <3> HIDE DEF u
      <3>. QED
        BY <3>1, <3>2, SumNat
    <2>4. Total(o) = SumFunction(u) + discarded[o]
      BY DEF Total
    <2> HIDE DEF u
    <2>5. executed[o] = InFile(file[o]) + SumFunction(u) + discarded[o]
      BY <2>1, <2>2, <2>3, <2>4
    <2>. QED
      BY <2>5 DEF u
  <1>. QED
    BY <1>1, Invariance, PTL

\* Processes that make the same directory do not make each other skip a file.
THEOREM SkippedRightly == Spec => []SkippedForAReason
  <1>1. IndInv => SkippedForAReason
    BY DEF IndInv, Reasons, SkippedForAReason
  <1>. QED
    BY <1>1, Invariance, PTL

\* A file that is not a data file of gcov is as it was.
THEOREM ForeignKept == Spec => ForeignFilesKept
  <1>1. IndInv /\ [Next]_vars => [\A o \in disk.foreign : file'[o] = file[o]]_file
    <2> SUFFICES ASSUME IndInv, Next, NEW o \in disk.foreign PROVE file'[o] = file[o]
      BY DEF vars, envVars
    <2>1. PICK p \in Procs : Action(p) \/ __gcov_fork(p)
      BY DEF Next, Action
    <2>2. file' = file \/ write_block(p)
      BY <2>1, FileKept DEF IndInv
    <2>3. CASE write_block(p)
      <3>1. pc[p] = "write"
            /\ file' = [file EXCEPT ![Current(p)] =
                          Overwrite(@, pending[p][1].at, pending[p][1].cells)]
        BY <2>3 DEF write_block
      <3>2. Current(p) \notin disk.foreign /\ o \in Objects
        BY <3>1 DEF IndInv, Foreign
      <3>. QED
        BY <3>1, <3>2 DEF IndInv, Types
    <2>. QED
      BY <2>2, <2>3
  <1>. QED
    BY <1>1, Invariance, PTL DEF Spec, ForeignFilesKept

\* A data file that nobody writes can be read by gcov: whatever processes dump into
\* it, one after the other and some of them killed, merge, write_block and gcov_close
\* leave functions, a summary of the object that fits them, and one summary for each
\* program, with the runs of all the dumps that were not killed.
THEOREM FilesCanBeRead == Spec => []FilesReadable
  <1>1. IndInv /\ ReadInv => FilesReadable
    <2> SUFFICES ASSUME IndInv, ReadInv, NEW o \in Objects \ torn,
                        lock[o] = Nobody, file[o] # <<>>, file[o][1].kind = "head"
                 PROVE  LET f == file[o]
                            n == Cardinality({i \in DOMAIN f : \A j \in 2..i : f[j].kind = "function"})
                                   - 1
                        IN  \E e \in 1..(Len(f) + 1) :
                              /\ f[n + 2].kind = "object" /\ f[n + 2].sum.sum_all = InFile(f)
                              /\ f[n + 2].sum.num = n
                              /\ Cell(f, e) = End /\ Programs(f, n, e) = (n + 3)..(e - 1)
                              /\ \A i, j \in Programs(f, n, e) : f[i].crc = f[j].crc => i = j
                              /\ LET runs == SumFunction([i \in Programs(f, n, e) |-> f[i].sum.runs])
                                 IN  /\ runs <= f[n + 2].sum.runs
                                     /\ o \notin cut => runs = f[n + 2].sum.runs
      BY DEF FilesReadable
    <2> DEFINE f == file[o]
               n == Cardinality({i \in DOMAIN f : \A j \in 2..i : f[j].kind = "function"}) - 1
    <2>1. f \in Seq(Cells) /\ Locks
      BY DEF IndInv, Types
    <2>2. \A q \in Procs : ~Begun(q, o)
      <3>1. ASSUME NEW q \in Procs, Begun(q, o) PROVE FALSE
        <4>1. lock[o] = q
          BY <2>1, <3>1 DEF Begun, Locks
        <4>. QED
          BY <4>1, GcovAssumption
      <3>. QED
        BY <3>1
    <2>3. Readable(f, o \in cut)
      BY <2>2 DEF ReadInv, FileOk
    <2>4. PICK m \in Nat : \E e \in Nat : Whole(f, m, e, o \in cut)
      BY <2>3 DEF Readable
    <2>5. PICK e \in Nat : Whole(f, m, e, o \in cut)
      BY <2>4
    <2>6. n = m
      BY <2>1, <2>5, FunctionsRead DEF Whole
    <2> HIDE DEF f, n
    <2>7. /\ f[n + 2].kind = "object" /\ f[n + 2].sum.sum_all = InFile(f) /\ f[n + 2].sum.num = n
      BY <2>5, <2>6 DEF Whole, Begins
    <2>8. /\ e \in 1..(Len(f) + 1) /\ Cell(f, e) = End
          /\ \A i \in (n + 3)..(e - 1) : f[i].kind = "program"
          /\ \A i, j \in (n + 3)..(e - 1) : f[i].crc = f[j].crc => i = j
      BY <2>1, <2>5, <2>6 DEF Whole, Listed
    <2>9. Programs(f, n, e) = (n + 3)..(e - 1)
      BY <2>8 DEF Programs
    <2>10. /\ SumFunction([i \in Programs(f, n, e) |-> f[i].sum.runs]) <= f[n + 2].sum.runs
           /\ o \notin cut =>
                SumFunction([i \in Programs(f, n, e) |-> f[i].sum.runs]) = f[n + 2].sum.runs
      BY <2>5, <2>6, <2>9 DEF Whole, Runs, RunsAt
    <2>11. \E x \in 1..(Len(f) + 1) :
              /\ f[n + 2].kind = "object" /\ f[n + 2].sum.sum_all = InFile(f)
              /\ f[n + 2].sum.num = n
              /\ Cell(f, x) = End /\ Programs(f, n, x) = (n + 3)..(x - 1)
              /\ \A i, j \in Programs(f, n, x) : f[i].crc = f[j].crc => i = j
              /\ SumFunction([i \in Programs(f, n, x) |-> f[i].sum.runs]) <= f[n + 2].sum.runs
              /\ o \notin cut =>
                   SumFunction([i \in Programs(f, n, x) |-> f[i].sum.runs]) = f[n + 2].sum.runs
      BY <2>7, <2>8, <2>9, <2>10
    <2>. QED
      BY <2>11 DEF f, n
  <1>. QED
    BY <1>1, Invariance, ReadInvariance, PTL

=============================================================================
