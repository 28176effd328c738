-------------------------------- MODULE Gcov --------------------------------
(***************************************************************************)
(* The profile run-time of instrumented programs (gcc/libgcov.c over       *)
(* gcc/gcov-io.c): processes count, and when they exit, fork or exec they  *)
(* merge what they counted into one data file per object file.  Files are  *)
(* locked (GCOV_LOCKED).                                                   *)
(*                                                                         *)
(* A file is a sequence of cells: its head (magic and stamp), one cell per *)
(* function with its counter, the summary of the object file, one summary  *)
(* per program the object was linked into, and the zero word at the end.   *)
(* All counters are of the kind that __gcov_merge_add merges.  The CRC of  *)
(* the object file names is the list of the names.                         *)
(***************************************************************************)
EXTENDS Naturals, Sequences, SequencesExt, FiniteSets, FiniteSetsExt, Functions

CONSTANTS
  Procs,
  Objects,      \* object files, each with a data file of its own
  Versions,     \* builds of the program
  Worlds,       \* the processes that are started, what they run, the file system
                \* (which data files are something else, cannot be opened, have a
                \* directory, cannot get one), and the bounds: of dumps before the
                \* end of a process, and of kills
  Startup,      \* the objects linked, in the order of their constructors
  Late,         \* the objects a process may load later
  Stamp,        \* [Versions -> [Objects -> Nat]], when the object was compiled
  NFunctions,   \* [Versions -> [Objects -> Nat]]
  MaxFunctions, \* a bound of NFunctions
  BlockSize,    \* GCOV_BLOCK_SIZE, in cells
  MaxCount,     \* what a process counts before it dumps
  Nobody

ASSUME GcovAssumption ==
  /\ IsFiniteSet(Procs)
  /\ Startup \in Seq(Objects) /\ IsInjective(Startup)   \* __gcov_init takes an object once
  /\ Late \subseteq Objects
  /\ Stamp \in [Versions -> [Objects -> Nat]]
  /\ NFunctions \in [Versions -> [Objects -> 1..MaxFunctions]]
  /\ Worlds \subseteq [roots : SUBSET Procs, version : [Procs -> Versions],
                       disk : [foreign : SUBSET Objects, noopen : SUBSET Objects,
                               dirs : SUBSET Objects, nodir : SUBSET Objects],
                       flushes : Nat, kills : Nat]
  /\ MaxFunctions \in Nat
  /\ BlockSize \in Nat \ {0}
  /\ MaxCount \in Nat
  /\ Nobody \notin Procs

VARIABLES
  pc,        \* where the process is
  version,   \* the build it runs
  gcov_list, \* the objects __gcov_init has seen, the last first
  counts,    \* the counters in memory, per object and function
  after,     \* what follows the dump: exit, flush, fork or exec
  todo,      \* the rest of gcov_list that gcov_exit has to merge
  program,   \* this_program, the totals of this execution
  object,    \* this_object, those of the current object
  pending,   \* the blocks still to be written to the current file
  begun,     \* a block of it has been written
  eof_pos,   \* where its summary is written, 0 if right after the rest
  file,      \* [Objects -> the cells of the data file]
  disk,      \* the file system
  dirs,      \* the data files whose directory exists
  lock,      \* [Objects -> the process that holds the lock of the file]
  flushes,   \* the dumps before the end of a process that are left
  kills,     \* the kills that are left
  executed,  \* ghost: how often the functions of the object were counted
  discarded, \* ghost: the counts given up, with a message or a process
  torn,      \* ghost: files whose writer died between two blocks of counters
  cut,       \* ghost: files whose writer died before their last block
  skipped    \* ghost: files skipped because they could not be opened

progVars == <<version, gcov_list, flushes, kills>>
dumpVars == <<after, program>>
writeVars == <<object, pending, begun, eof_pos>>
envVars == <<file, disk, dirs, lock>>
ghostVars == <<executed, discarded, torn, cut, skipped>>
vars == <<pc, counts, todo, progVars, dumpVars, writeVars, envVars, ghostVars>>

-----------------------------------------------------------------------------
(* Files and summaries *)

FileHead(stamp) == [kind |-> "head", stamp |-> stamp]
ForeignHead == [kind |-> "foreign"]
FunctionCell(n) == [kind |-> "function", count |-> n]
ObjectCell(s) == [kind |-> "object", sum |-> s]
ProgramCell(crc, s) == [kind |-> "program", crc |-> crc, sum |-> s]
End == [kind |-> "end"]

\* gcov_read_unsigned returns zero past the end of the file.
Cell(f, i) == IF i \in DOMAIN f THEN f[i] ELSE End

\* The effect of writing CELLS at position I; files are never truncated.
Overwrite(f, i, cells) ==
  [j \in 1..Max({Len(f), i + Len(cells) - 1}) |->
     IF j \in i..(i + Len(cells) - 1) THEN cells[j - i + 1] ELSE f[j]]

\* The blocks gcov_write_words cuts CELLS into, each with its position.
Blocks(i, cells) ==
  [b \in 1..((Len(cells) + BlockSize - 1) \div BlockSize) |->
     [at |-> i + (b - 1) * BlockSize,
      cells |-> SubSeq(cells, (b - 1) * BlockSize + 1, Min({b * BlockSize, Len(cells)}))]]

NoSummary == [num |-> 0, runs |-> 0, sum_all |-> 0, run_max |-> 0, sum_max |-> 0]
Largest(c) == Max(Range(c))

\* The totals of one execution: of an object, and of the program.
ObjectTotals(p, o) ==
  [NoSummary EXCEPT !.num = Len(counts[p][o]), !.sum_all = SumFunction(counts[p][o]),
                    !.run_max = Largest(counts[p][o])]
ProgramTotals(p) ==
  LET t == [o \in ToSet(gcov_list[p]) |-> ObjectTotals(p, o)]
  IN  [NoSummary EXCEPT !.num = SumFunction([o \in DOMAIN t |-> t[o].num]),
                        !.sum_all = SumFunction([o \in DOMAIN t |-> t[o].sum_all]),
                        !.run_max = Max({0} \cup {t[o].run_max : o \in DOMAIN t})]

\* The summary of an execution merged into that of the earlier ones.
Merged(s, this) ==
  [num     |-> this.num,
   runs    |-> s.runs + 1,
   sum_all |-> s.sum_all + this.sum_all,
   run_max |-> Max({s.run_max, this.run_max}),
   sum_max |-> s.sum_max + this.run_max]

\* The summaries after the N functions of a file are scanned up to that of the
\* program CRC, to the end or to something unexpected.
ScanEnds(f, crc, i) ==
  \/ Cell(f, i).kind \notin {"object", "program"}
  \/ Cell(f, i).kind = "program" /\ f[i].crc = crc
ScanStop(f, crc, n) ==
  CHOOSE i \in (n + 2)..(Len(f) + 1) :
    ScanEnds(f, crc, i) /\ \A j \in (n + 2)..(i - 1) : ~ScanEnds(f, crc, j)
ObjectFound(f, n, stop) ==
  LET found == {j \in (n + 2)..(stop - 1) : f[j].kind = "object"}
  IN  IF found = {} THEN NoSummary ELSE f[Max(found)].sum

-----------------------------------------------------------------------------
(* The processes *)

Zero(v) == [o \in Objects |-> [k \in 1..NFunctions[v][o] |-> 0]]

Init ==
  /\ \E w \in Worlds :
       /\ pc = [p \in Procs |-> IF p \in w.roots THEN "count" ELSE "unborn"]
       /\ gcov_list = [p \in Procs |-> IF p \in w.roots THEN Reverse(Startup) ELSE <<>>]
       /\ version = w.version /\ disk = w.disk
       /\ flushes = w.flushes /\ kills = w.kills
  /\ counts = [p \in Procs |-> Zero(version[p])]
  /\ after = [p \in Procs |-> "none"]
  /\ todo = [p \in Procs |-> <<>>]
  /\ program = [p \in Procs |-> NoSummary]
  /\ object = [p \in Procs |-> NoSummary]
  /\ pending = [p \in Procs |-> <<>>]
  /\ begun = [p \in Procs |-> FALSE]
  /\ eof_pos = [p \in Procs |-> 0]
  /\ file = [o \in Objects |-> IF o \in disk.foreign THEN <<ForeignHead>> ELSE <<>>]
  /\ dirs = disk.dirs
  /\ lock = [o \in Objects |-> Nobody]
  /\ executed = [o \in Objects |-> 0]
  /\ discarded = [o \in Objects |-> 0]
  /\ torn = {} /\ cut = {} /\ skipped = {}

\* The program runs an instrumented function.
count(p, o, k) ==
  /\ pc[p] = "count"
  /\ o \in ToSet(gcov_list[p]) /\ k \in DOMAIN counts[p][o]
  /\ ProgramTotals(p).sum_all < MaxCount
  /\ counts' = [counts EXCEPT ![p][o][k] = @ + 1]
  /\ executed' = [executed EXCEPT ![o] = @ + 1]
  /\ UNCHANGED <<pc, todo, progVars, dumpVars, writeVars, envVars, discarded, torn, cut, skipped>>

\* A constructor of an object that is loaded later.  (One that another version of
\* GCC compiled is not added to the list, and is not in Objects.)
__gcov_init(p, o) ==
  /\ pc[p] = "count"
  /\ o \in Late \ ToSet(gcov_list[p])
  /\ gcov_list' = [gcov_list EXCEPT ![p] = <<o>> \o @]
  /\ UNCHANGED <<pc, counts, todo, version, flushes, kills, dumpVars, writeVars, envVars, ghostVars>>

\* gcov_exit, called at exit, by __gcov_flush, or by the wrappers of fork and exec.
gcov_exit(p, why) ==
  /\ pc[p] = "count" /\ gcov_list[p] # <<>>
  /\ \/ why = "exit" /\ UNCHANGED flushes
     \/ why # "exit" /\ flushes > 0 /\ flushes' = flushes - 1
  /\ after' = [after EXCEPT ![p] = why]
  /\ todo' = [todo EXCEPT ![p] = gcov_list[p]]
  /\ program' = [program EXCEPT ![p] = ProgramTotals(p)]
  /\ pc' = [pc EXCEPT ![p] = "open"]
  /\ UNCHANGED <<counts, version, gcov_list, kills, writeVars, envVars, ghostVars>>

Current(p) == todo[p][1]
NextFile(p) ==
  /\ todo' = [todo EXCEPT ![p] = Tail(@)]
  /\ pc' = [pc EXCEPT ![p] = IF Len(todo[p]) = 1 THEN "ended" ELSE "open"]
Goto(p, where) == pc' = [pc EXCEPT ![p] = where] /\ UNCHANGED todo

\* ghost: what P has counted of O and not yet brought to the file.
Undumped(p, o) ==
  CASE pc[p] = "count" -> SumFunction(counts[p][o])
    [] pc[p] \in {"open", "access", "mkdir", "reopen", "merge"} /\ o \in ToSet(todo[p])
         -> SumFunction(counts[p][o])
    [] pc[p] = "write" /\ o = Current(p) /\ ~begun[p] -> object[p].sum_all
    [] pc[p] = "write" /\ o \in ToSet(Tail(todo[p])) -> SumFunction(counts[p][o])
    [] OTHER -> 0

Discard(p, os) ==
  discarded' = [o \in Objects |-> IF o \in os THEN discarded[o] + Undumped(p, o) ELSE discarded[o]]

\* "Skip" and "Cannot open": the file is left out.
Skip(p) ==
  /\ skipped' = skipped \cup {Current(p)}
  /\ Discard(p, {Current(p)})
  /\ NextFile(p)

-----------------------------------------------------------------------------
(* Opening a file *)

\* Faulty form, for mutation: the file is not locked.
gcov_open_Unlocked(p) ==
  /\ Current(p) \in dirs \ disk.noopen
  /\ lock' = [lock EXCEPT ![Current(p)] = p]
  /\ Goto(p, "merge")

\* gcov_open succeeds: it waits for the lock.
gcov_open(p) ==
  /\ Current(p) \in dirs \ disk.noopen
  /\ lock[Current(p)] = Nobody
  /\ lock' = [lock EXCEPT ![Current(p)] = p]
  /\ Goto(p, "merge")

open(p) ==
  /\ pc[p] = "open"
  /\ \/ gcov_open(p)
     \/ Current(p) \notin dirs \ disk.noopen /\ Goto(p, "access") /\ UNCHANGED lock
  /\ UNCHANGED <<counts, progVars, dumpVars, writeVars, file, disk, dirs, ghostVars>>

\* create_file_directory: the directory is looked for, then made.
access(p) ==
  /\ pc[p] = "access"
  /\ Goto(p, IF Current(p) \in dirs THEN "reopen" ELSE "mkdir")
  /\ UNCHANGED <<counts, progVars, dumpVars, writeVars, envVars, ghostVars>>

\* Faulty form, for mutation: a directory that another process made is an error.
mkdir_Exclusive(p) ==
  \/ /\ Current(p) \notin disk.nodir /\ Current(p) \notin dirs
     /\ dirs' = dirs \cup {Current(p)}
     /\ Goto(p, "reopen")
     /\ UNCHANGED <<discarded, skipped>>
  \/ Current(p) \in disk.nodir \cup dirs /\ Skip(p) /\ UNCHANGED dirs

\* EEXIST is no error: the directory might have been made by another process.
mkdir(p) ==
  \/ /\ Current(p) \notin disk.nodir
     /\ dirs' = dirs \cup {Current(p)}
     /\ Goto(p, "reopen")
     /\ UNCHANGED <<discarded, skipped>>
  \/ Current(p) \in disk.nodir /\ Skip(p) /\ UNCHANGED dirs

create_file_directory(p) ==
  /\ pc[p] = "mkdir"
  /\ mkdir(p)
  /\ UNCHANGED <<counts, progVars, dumpVars, writeVars, file, disk, lock, executed, torn, cut>>

reopen(p) ==
  /\ pc[p] = "reopen"
  /\ \/ gcov_open(p) /\ UNCHANGED <<discarded, skipped>>
     \/ Current(p) \notin dirs \ disk.noopen /\ Skip(p) /\ UNCHANGED lock
  /\ UNCHANGED <<counts, progVars, dumpVars, writeVars, file, disk, dirs, executed, torn, cut>>

-----------------------------------------------------------------------------
(* Merging and writing a file *)

\* Faulty form, for mutation: the file stays open and locked.
read_fatal_Leaks(p) ==
  /\ Discard(p, {Current(p)})
  /\ NextFile(p)
  /\ UNCHANGED <<writeVars, lock>>

\* read_fatal: the file is closed and left as it is.
read_fatal(p) ==
  /\ lock' = [lock EXCEPT ![Current(p)] = Nobody]
  /\ Discard(p, {Current(p)})
  /\ NextFile(p)
  /\ UNCHANGED writeVars

\* Faulty form, for mutation: the new summary is written over that of the first
\* program found.
NewBlocks_FirstProgram(stamp, c, crc, obj, prg, pos, own) ==
  LET data == <<FileHead(stamp)>> \o [k \in DOMAIN c |-> FunctionCell(c[k])] \o <<ObjectCell(obj)>>
      rest == <<ProgramCell(crc, prg)>> \o (IF own THEN <<>> ELSE <<End>>)
  IN  Blocks(1, data \o rest)

\* The file as it is written anew: up to the object's summary, then the program's at
\* POS, if the file had an end.  What follows gcov_seek fits into one block.
NewBlocks(stamp, c, crc, obj, prg, pos, own) ==
  LET data == <<FileHead(stamp)>> \o [k \in DOMAIN c |-> FunctionCell(c[k])] \o <<ObjectCell(obj)>>
      rest == <<ProgramCell(crc, prg)>> \o (IF own THEN <<>> ELSE <<End>>)
  IN  IF pos = 0 THEN Blocks(1, data \o rest)
                 ELSE Blocks(1, data) \o <<[at |-> pos, cells |-> rest]>>

\* rewrite: OBJ and PRG are the summaries found, C the merged counters; OWN says
\* that PRG was found at POS.  (The comparison with the summary of the first file
\* of the dump only prints a message.)
rewrite(p, c, obj, prg, pos, own) ==
  LET o == Current(p)
      this == ObjectTotals(p, o)
      newPrg == Merged(prg, program[p])
  IN
  \/ /\ \/ obj.runs > 0 /\ obj.num # this.num
        \/ prg.runs > 0 /\ prg.num # program[p].num
     /\ read_fatal(p)
  \/ /\ obj.runs > 0 => obj.num = this.num
     /\ prg.runs > 0 => prg.num = program[p].num
     /\ object' = [object EXCEPT ![p] = this]
     /\ pending' = [pending EXCEPT ![p] =
                      NewBlocks(Stamp[version[p]][o], c, gcov_list[p],
                                Merged(obj, this), newPrg, pos, own)]
     /\ eof_pos' = [eof_pos EXCEPT ![p] = pos]
     /\ begun' = [begun EXCEPT ![p] = FALSE]
     /\ Goto(p, "write")
     /\ UNCHANGED <<lock, discarded>>

\* Faulty form, for mutation: a file without the magic number is written over.
NotAGcovFile_Never(f) == FALSE

NotAGcovFile(f) == Cell(f, 1).kind = "foreign"

\* What gcov_exit does with an open file, up to writing it.
merge(p) ==
  LET o == Current(p)
      f == file[o]
      n == NFunctions[version[p]][o]
      there == {k \in 1..n : \A i \in 1..k : Cell(f, i + 1).kind = "function"}
      merged == [k \in 1..n |-> IF k \in there THEN counts[p][o][k] + f[k + 1].count
                                ELSE counts[p][o][k]]
      stop == ScanStop(f, gcov_list[p], n)
      obj == ObjectFound(f, n, stop)
      fresh == Cell(f, 1).kind = "end"
      old == Cell(f, 1).kind = "head" /\ f[1].stamp = Stamp[version[p]][o]
  IN
  /\ pc[p] = "merge"
  /\ \/ /\ NotAGcovFile(f)
        /\ read_fatal(p) /\ UNCHANGED counts
     \/ /\ ~NotAGcovFile(f) /\ ~old   \* new, or of a different compilation
        /\ rewrite(p, counts[p][o], NoSummary, NoSummary, 0, FALSE)
        /\ UNCHANGED counts
     \/ /\ old
        /\ counts' = [counts EXCEPT ![p][o] = merged]
        /\ \/ /\ \/ there # 1..n
                 \/ there = 1..n /\ Cell(f, stop).kind \notin {"end", "program"}
              /\ read_fatal(p)
           \/ /\ there = 1..n /\ Cell(f, stop).kind = "end"
              /\ rewrite(p, merged, obj, NoSummary, stop, FALSE)
           \/ /\ there = 1..n /\ Cell(f, stop).kind = "program"
              /\ rewrite(p, merged, obj, f[stop].sum, stop, TRUE)
  /\ UNCHANGED <<progVars, after, program, file, disk, dirs, executed, torn, cut, skipped>>

\* The counters of a file: the functions after its head.
InFile(f) ==
  SumFunction([i \in {j \in DOMAIN f : /\ f[j].kind = "function"
                                       /\ \A k \in 1..j : f[k].kind \in {"head", "function"}}
                 |-> f[i].count])

\* gcov_write_block.  The counts of another compilation go with the first block.
write_block(p) ==
  /\ pc[p] = "write" /\ pending[p] # <<>>
  /\ LET o == Current(p)
         block == pending[p][1]
         lost == file[o] # <<>> /\ file[o][1] # FileHead(Stamp[version[p]][o])
     IN  /\ file' = [file EXCEPT ![o] = Overwrite(@, block.at, block.cells)]
         /\ discarded' = IF ~begun[p] /\ lost
                         THEN [discarded EXCEPT ![o] = @ + InFile(file[o])] ELSE discarded
  /\ pending' = [pending EXCEPT ![p] = Tail(@)]
  /\ begun' = [begun EXCEPT ![p] = TRUE]
  /\ UNCHANGED <<pc, counts, todo, progVars, dumpVars, object, eof_pos, disk, dirs, lock, executed, torn, cut, skipped>>

gcov_close(p) ==
  /\ pc[p] = "write" /\ pending[p] = <<>>
  /\ lock' = [lock EXCEPT ![Current(p)] = Nobody]
  /\ NextFile(p)
  /\ UNCHANGED <<counts, progVars, dumpVars, writeVars, file, disk, dirs, ghostVars>>

-----------------------------------------------------------------------------
(* The end of a dump *)

\* Faulty form, for mutation: the counters are not reset.
__gcov_flush_Keeps(p) == UNCHANGED counts

\* The end of __gcov_flush: the counters are reset, whatever became of the files.
__gcov_flush(p) == counts' = [counts EXCEPT ![p] = Zero(version[p])]

\* The local variables of gcov_exit are gone.
Return(p) ==
  /\ after' = [after EXCEPT ![p] = "none"]
  /\ program' = [program EXCEPT ![p] = NoSummary]
  /\ object' = [object EXCEPT ![p] = NoSummary]
  /\ pending' = [pending EXCEPT ![p] = <<>>]
  /\ begun' = [begun EXCEPT ![p] = FALSE]
  /\ eof_pos' = [eof_pos EXCEPT ![p] = 0]

\* The process has ended, and its memory is gone.
Gone(p) ==
  /\ pc' = [pc EXCEPT ![p] = "done"]
  /\ todo' = [todo EXCEPT ![p] = <<>>]
  /\ counts' = [counts EXCEPT ![p] = Zero(version[p])]

finish_exit(p) ==
  /\ pc[p] = "ended" /\ after[p] = "exit"
  /\ Gone(p) /\ Return(p)
  /\ UNCHANGED <<progVars, envVars, ghostVars>>

finish_flush(p) ==
  /\ pc[p] = "ended" /\ after[p] # "exit"
  /\ __gcov_flush(p)
  /\ Goto(p, IF after[p] = "flush" THEN "count" ELSE after[p])
  /\ Return(p)
  /\ UNCHANGED <<progVars, envVars, ghostVars>>

\* The call of fork, after the flush: the child is a copy of its parent.
__gcov_fork(p) ==
  /\ pc[p] = "fork"
  /\ \/ \E child \in Procs :
          /\ pc[child] = "unborn"
          /\ pc' = [pc EXCEPT ![p] = "count", ![child] = "count"]
          /\ version' = [version EXCEPT ![child] = version[p]]
          /\ gcov_list' = [gcov_list EXCEPT ![child] = gcov_list[p]]
          /\ counts' = [counts EXCEPT ![child] = counts[p]]
     \/ /\ pc' = [pc EXCEPT ![p] = "count"]
        /\ UNCHANGED <<version, gcov_list, counts>>
  /\ UNCHANGED <<todo, flushes, kills, dumpVars, writeVars, envVars, ghostVars>>

\* The call of exec, after the flush: it returns only if it fails.
__gcov_exec(p) ==
  /\ pc[p] = "exec"
  /\ \E where \in {"done", "count"} : Goto(p, where)
  /\ UNCHANGED <<counts, progVars, dumpVars, writeVars, envVars, ghostVars>>

\* A signal ends the process; the system releases its lock.
kill(p) ==
  /\ kills > 0 /\ pc[p] \notin {"unborn", "done"}
  /\ kills' = kills - 1
  /\ Gone(p) /\ Return(p)
  /\ lock' = [o \in Objects |-> IF lock[o] = p THEN Nobody ELSE lock[o]]
  /\ Discard(p, Objects)
  /\ LET unfinished == pc[p] = "write" /\ begun[p] /\ pending[p] # <<>>
     IN  /\ cut' = IF unfinished THEN cut \cup {Current(p)} ELSE cut
         /\ torn' = IF unfinished /\ (eof_pos[p] = 0 \/ Len(pending[p]) > 1)
                    THEN torn \cup {Current(p)} ELSE torn
  /\ UNCHANGED <<version, gcov_list, flushes, file, disk, dirs, executed, skipped>>

DumpStep(p) ==
  \/ open(p) \/ access(p) \/ create_file_directory(p) \/ reopen(p)
  \/ merge(p) \/ write_block(p) \/ gcov_close(p)
  \/ finish_exit(p) \/ finish_flush(p)

Next ==
  \E p \in Procs :
    \/ \E o \in Objects : __gcov_init(p, o) \/ \E k \in 1..MaxFunctions : count(p, o, k)
    \/ \E why \in {"exit", "flush", "fork", "exec"} : gcov_exit(p, why)
    \/ DumpStep(p)
    \/ __gcov_fork(p) \/ __gcov_exec(p)
    \/ kill(p)

Spec == Init /\ [][Next]_vars

\* A process that dumps its counters goes on with it.
FairSpec == Spec /\ \A p \in Procs : WF_vars(DumpStep(p))

-----------------------------------------------------------------------------
(* Properties *)

\* State types.
TypeOK ==
  /\ pc \in [Procs -> {"unborn", "count", "open", "access", "mkdir", "reopen", "merge", "write",
                       "ended", "fork", "exec", "done"}]
  /\ \A p \in Procs :
       /\ ToSet(gcov_list[p]) \subseteq Objects
       /\ IsSuffix(todo[p], gcov_list[p])
       /\ todo[p] # <<>> \/ pc[p] \notin {"open", "access", "mkdir", "reopen", "merge", "write"}
       /\ \A o \in Objects :
            (lock[o] = p) <=> (pc[p] \in {"merge", "write"} /\ o = Current(p))
  /\ dirs \subseteq Objects /\ skipped \subseteq Objects

\* Nothing that was counted is lost, and nothing counted twice, by any interleaving
\* of the dumps of several processes, with forks, flushes and kills in between: it is
\* in the file, still in memory, or was given up for a file that cannot be merged.
\* Nothing is said of a torn file: a writer that is killed between two blocks of
\* counters leaves part of the new counts over part of the old ones.
Conserved ==
  \A o \in Objects \ torn :
    (\A p \in Procs : ~(pc[p] = "write" /\ o = Current(p) /\ begun[p] /\ pending[p] # <<>>))
      => executed[o] = InFile(file[o]) + SumFunction([p \in Procs |-> Undumped(p, o)])
                         + discarded[o]

\* A data file that nobody writes is one that gcov can read: the functions, one
\* summary of the object that fits them, one summary for each program, and the end.
\* Every dump has counted as a run of its program, unless it was killed.  Torn files
\* are left out, as in Conserved.
Programs(f, n, e) == {i \in (n + 3)..(e - 1) : f[i].kind = "program"}
FilesReadable ==
  \A o \in Objects \ torn :
    lock[o] = Nobody /\ file[o] # <<>> /\ file[o][1].kind = "head" =>
      LET f == file[o]
          n == Cardinality({i \in DOMAIN f : \A j \in 2..i : f[j].kind = "function"}) - 1
      IN  \E e \in 1..(Len(f) + 1) :
            /\ f[n + 2].kind = "object" /\ f[n + 2].sum.sum_all = InFile(f) /\ f[n + 2].sum.num = n
            /\ Cell(f, e) = End /\ Programs(f, n, e) = (n + 3)..(e - 1)
            /\ \A i, j \in Programs(f, n, e) : f[i].crc = f[j].crc => i = j
            /\ LET runs == SumFunction([i \in Programs(f, n, e) |-> f[i].sum.runs])
               IN  runs <= f[n + 2].sum.runs /\ (o \notin cut => runs = f[n + 2].sum.runs)

\* A file that is not a data file of gcov is never written.
ForeignFilesKept == [][\A o \in disk.foreign : file'[o] = file[o]]_file

\* A file is only skipped when it, or its directory, cannot be made: processes that
\* make the same directory do not hinder each other.
SkippedForAReason == skipped \subseteq disk.noopen \cup disk.nodir

\* Every dump ends, though it waits for the locks of others.
DumpsEnd ==
  \A p \in Procs : pc[p] = "open" ~> pc[p] \in {"count", "fork", "exec", "done"}

=============================================================================
