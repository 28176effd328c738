# TLA+ specifications of gcc-cil

The repository is GCC 4.1 with two front ends that compile CIL (ECMA 335, the
byte code of .NET) to native code:

* `src/gcc/scil`, the *SCIL* front end for small systems. Its upper half, the CIL
  Reader Adaption Layer (CRAL), reads assemblies; its lower half, the SCIL
  interface, builds trees for GCC.
* `src/gcc/cil`, the older *CIL* front end, with a run-time library in
  `src/libruntime`.

Everything else in `src` (the GCC middle end and back ends, libcpp, libiberty,
libmudflap, libssp, fixincludes) was imported with GCC, and
`src/gcc/cil/image`, `include` and `support` come from Portable.NET. The front ends,
the repository's own work, are modelled first. Of the imported parts three
are modelled for themselves or because the front ends rest on them: the hash
tables of libiberty (`hashtab.c`), which all of GCC uses;
the profile run-time (`libgcov.c` over `gcov-io.c`), the part of GCC in which
processes run concurrently and may die; and the searches `ILMemberGetBase` and
`ILClassGetMethodImpl` of Portable.NET, which decide dispatch. What the tree builder
uses of GCC (`build`, `save_expr`, `append_to_statement_list`) and the order in
which `gimplify.c` evaluates a tree are modelled with it.

## 1. Inventory

| Component | State | Operations | What must be right |
|---|---|---|---|
| SCIL evaluation stack, `scil-evalstack.c` | one array of variables per stack type, the virtual stack | push, pop, copy, set, clear, get a variable | a push overwrites no live value; no index beyond `max_stack` |
| SCIL instructions, `scil-instructions.c` | statement list, stack saved for each label, forced labels | one function per CIL operation, labels, gotos | the virtual stack is as high as CIL's on all paths; generated code computes what CIL says; gotos keep their labels |
| CRAL, `scil-pnet.c` | user data of methods, fields and classes; queue of deferred methods | `cral_parse_file`, `parse_method`, `parse_vtable`, `register_*`, the instructions that refer to other items | everything referred to is compiled, once; the loop ends; vtables dispatch rightly |
| SCIL classes and methods, `scil-class.c`, `scil-method.c`, `scil-mono.c` | TYPE_BINFO, vtables, DECL_INITIAL, the generated `main` | layout, vtable slots, start and complete a definition, entry point, class constructors | nothing is used before it exists; `main` runs each constructor once, before the entry point |
| CIL classes, `parse_assembly.c` | `method->index`, `method->count`, vtable entries | `parse_class`, `parse_interface`, index and vtable computation | indices used by calls fit the vtables built earlier |
| CIL run-time library, `libruntime.c` | inited classes, interface ids and offsets, run-time vtables | `newobj`, `init_class`, `init_interface`, `setup_interface_offsets` | an interface call finds the implementation of the object's class |
| CIL translation of methods, `parse_instr.c`, `instr.c`, `stack.c`, `build_trees.c` | stack of trees, function body | one case per opcode, tree builders | trees evaluated late have the effects of CIL, in its order |
| registration and mangling, `scil-mangle.c` with parts of `scil-class.c`, `scil-method.c` | trees by dotted name, overload lists, compression stack | `register_*`, `scil_mangle_*`, `scil_get_label_id` | each method has a tree and a name of its own; a name does not depend on the order |
| hash tables, `libiberty/hashtab.c` | array with empty and deleted entries, two counts | find, insert, remove, empty, traverse, rebuild | a set for its callers; searches end |
| profile run-time, `gcc/libgcov.c`, `gcc/gcov-io.c` | counters in each process; data files, their locks and directories | `__gcov_init`, `gcov_exit`, `__gcov_flush`, the wrappers of fork and exec | nothing counted is lost or doubled; files stay readable; dumps end |
| type nodes, attributes, built-ins, language hooks | none that changes | | not modelled |

Both front ends are sequential programs that run once. What is hard in them is
not concurrency but *order*: a label may be met before or after its branches, a
class before or after its base is needed, a method may be found first by a call,
by a vtable or by a class constructor; state (`method->index`, the saved stack
of a label, `inited`) is computed at one time and used at another; and trees are
built at one time and evaluated at another. In the front ends nothing is persisted,
and there are no messages and no timeouts. The profile run-time is different: its
processes share files, wait for locks and can be killed at any moment.
`PROJECT.json` lists the places under `hazards`.

How the parts interact: `parse_method` (CRAL) calls one SCIL operation per CIL
instruction; the operations that name a method, class or field call back into
CRAL (`register_*`, `parse_vtable`), which may queue methods. In the CIL front
end, `parse_classes` fixes all indices and vtables before `parse_all_methods`
translates bodies that use them; the run-time library meets those vtables when
the program runs.

## 2. Modules

| Module | Models | Extends |
|---|---|---|
| `ScilMethod` | translation of one method by the SCIL interface: the virtual stack, labels, every operation | |
| `ScilExec` | the generated statements, executed in step with the CIL program | `ScilMethod` |
| `ScilExec_proofs` | theorems about `ScilMethod` and `ScilExec` | `ScilExec`, `TLAPS` |
| `CralDriver` | the driver: queue, registration, vtables, class constructors, `main` | |
| `CralDriver_proofs` | theorems about it | `CralDriver`, `TLAPS` |
| `CilVtables` | indices and vtables of the CIL front end | |
| `CilRuntime` | `libruntime.c` on the vtables of `CilVtables` | `CilVtables` |
| `CilRuntime_proofs` | theorems about both | `CilRuntime`, `NaturalLemmas` |
| `CilMethod` | translation of one method by the CIL front end: the stack of trees | |
| `CilMethod_proofs` | theorems about it | `CilMethod`, `TLAPS` |
| `CilExec` | the trees, executed as GCC orders them, beside the CIL program | `CilMethod` |
| `ScilMangle` | registration of classes and methods by name, assembler names | |
| `ScilMangle_proofs` | theorems about it | `ScilMangle`, `NaturalLemmas` |
| `ElementSet` | what a hash table promises: a set | |
| `Hashtab` | the hash tables of libiberty; an instance of `ElementSet` is its abstract specification | |
| `Hashtab_proofs` | the refinement, the counts and the searches, proved | `Hashtab`, `NaturalLemmas` |
| `Gcov` | the profile run-time: processes, counters, data files and their locks | |
| `Gcov_proofs` | theorems about it | `Gcov`, `NaturalLemmas` |
| `NaturalLemmas` | facts about natural numbers, finite sums, iteration and folds that the proofs share | `TLAPS` |
| `MC...` | instances for TLC | |

A definition has the name of the C function it stands for where there is one.
Definitions whose names end in `_Something` and are commented "faulty form, for
mutation" are not part of the model: they are plausible mistakes that the
properties must notice.

**ScilMethod.** `stack` is the virtual stack: a sequence of stack variables, each
known by its type and its index in the typed stack. `data` is SCIL_DECL_DATA of
the labels, `forced` FORCED_LABEL, `body` the statement list. Each step parses one
instruction: `scil_set_label`, then the handler. The program is not given; every
step chooses the next instruction among all that a verifier would allow. `cil`,
`expected` and `falls` are the verifier's view (ECMA 335 III.1.7 and III.1.8) and
are not used by the code. **ScilExec** adds values: `store` holds the stack
variables, `gvars` the variables of the generated code, and one step executes one
CIL instruction and the statements made for it. Integers have their width and are
sign- or zero-extended and truncated as the casts in the code do; the number of values
of each type is the constant `Size`, scaled down in the runs (int8 has 2 bits, int16
3, int32 4). `brtrue` and `brfalse` test what `pop_convert` to `scil_bool_type` leaves
of a value (`BoolConvert`): its low byte where the conversion is executed, its low bit where
GCC folds it, and either is possible. The ghost `truths` says that only 0 and 1 have been
tested so far. `ExecAssumption` asks that the sizes are ordered as the precisions are
and `LiteralAssumption` that a literal has its type's width, as `scil_push_int` gives it.

**CralDriver.** What method bodies refer to is not fixed either: while `current`
is parsed each step picks an instruction that names a method, class or field
(`instr_call`, `instr_callvirt`, `instr_newobj`, `instr_ldsfld`), or the end of
the body. `parse_vtable` recurses to the base class first; `pending` holds the
classes it still has to do. `status = "crashed"` is the use of a null pointer.

**CilVtables, CilRuntime.** `prog` is one of many class hierarchies; classes are
parsed in every order that the recursion of `parse_class` permits, then objects
are created in every order. The offset tables are indexed by interface ids.
`MaxId` stands for the 1000 that `make_mono_class` writes. `ProgramAssumption` says what a
class file is: bases end, lists have no repetition, only classes have new slots.
`PlainAssumption` says for which programs the properties are stated: the root class has a
virtual method and lists no interface, as `System.Object`; a method is a new slot exactly
if no base has one of its name; and a class implements the interfaces it lists by new
slots of its own, with different names for different interfaces. Of the other programs
the code handles some only (section 4). `IdAssumption` asks that there are no more interfaces than ids.

**CilMethod, CilExec.** A tree is a record (TREE_CODE, a number, operands), with the
flags TREE_SIDE_EFFECTS and TREE_INVARIANT computed as `build` does. Each step is
one round of `parse_instructions`: `make_label`, then the instruction, written as
the composition of the functions of `build_trees.c`. `InstructionAssumption` says what
the CIL reader hands over: a branch names an instruction, a call its number of
arguments. `CilExec` defines two
interpreters: one runs the CIL code with a stack of values, the other the trees in
the order of `gimplify.c` (operands from left to right, the function's address
before the arguments, the left side of an assignment before the right, a SAVE_EXPR
where it is met first). The arguments of a call go from the last to the first where
PUSH_ARGS_REVERSED holds, as on i386 and h8300, and from the first to the last elsewhere:
the parameter `reversed` of the interpreter, and the property is stated for both. Both
interpreters keep a log of calls, stores and the
return. `odd` records, for each method, in which of six ways it leaves the
fragment for which late evaluation is harmless:

* `reordered`: a statement was appended while a tree on the stack still had to read
  a variable or make a call;
* `repeated`: a checked reference holds a call (the check uses it twice);
* `early`: a null or bounds check is made before operands with effects;
* `unset`: a SAVE_EXPR has its first use in the arm of a bounds check that never
  returns;
* `branching`: a branch leaves values on the stack;
* `unordered`: the effect of a call depends on the order of its arguments, as in
  `f(g(), h())`: one of two arguments makes a call and the other calls or reads, or both
  may stop the program.

Each of the six is needed: with any one of them permitted TLC finds a method
that behaves differently (`unset` takes methods of 6 instructions).

**ScilMangle.** `path` is what SCIL_DECL of an identifier leads to: the tree of a
class, namespace or assembly with its containers. `tree` is the user data of the
methods, `decls` every tree that has an assembler name. A step registers a method (the
classes of its signature first, in the order of `register_method`), a static field or a
vtable, or asks for a label. Names are sequences of tokens: a chunk ("3foo"), `N`, `E`,
`P`, `v`, or a reference to the compression stack. The code writes a chunk by "%d%s"; it
is one token because its length can be told from the name that follows as long as no name begins
with a digit (`ChunksAssumption`; `DigitNames` stands for the names that do). `scil-mangle.c` names the C++ ABI;
its numbering of compressed parts differs from it (the method itself is pushed,
pointers are not), which matters only to a linker that meets names made by g++.

**Hashtab.** One step per call, except that the loop of `htab_expand` takes a step per
element: `oentries` is the array it copies from, `p` how far it is. `find_slot` and
its caller's store into the slot are one step, as the contract of `htab_find_slot`
demands. A search that would go round for ever sets `status` to "hung", the removal of
an absent element to "crashed". The refinement mapping takes for `set` the elements in
the array and those still to be moved, and maps `status` too: `ElementSet` says of the
removal of an absent element what the code does, that the program stops there.

**Gcov.** A process counts, and dumps its counters when it exits, flushes, forks or calls
exec; the dump goes through `gcov_list`, one file after the other. The steps of a dump are
those between which another process can come: `open` (which waits for the lock),
`access` and `mkdir` of `create_file_directory`, the second `open`, reading and merging
under the lock, each block of `gcov_write_block`, and `gcov_close`. A process can be
killed in any state; the system then releases its lock. A file is a sequence of cells
(head, functions, summaries, end); blocks are 3 cells, so that a file takes several.
`executed`, `discarded`, `torn`, `cut` and `skipped` are ghosts used only by the
properties. The worlds of `MCGcov` choose which processes start, which builds of the program
they run, what is wrong with the disk, and how many flushes and kills there are.

## 3. Runs

| Run | Size | Checks |
|---|---|---|
| `method_ops` | 4 instructions, all operations, max_stack 3 | `TypeOK`, `HeightsAgree`, `IndexInBounds` |
| `exec_programs` | 5 instructions that move, compute, compare, convert, call and branch, max_stack 2 | `ExecTypeOK`, `NoLiveVariableReused`, `GotosHaveLabels`, `ExecutionAgrees` |
| `driver_virtual` | 4 classes, 7 methods, 2 references per body | `TypeOK`, `ClosedProgram`, `DispatchRight`, `Terminates` |
| `driver_static` | 5 classes, 5 methods, 3 static fields, 2 references per body | `NothingForgotten`, `ConstructorsRunFirst` |
| `iface_calls` | all programs of 4 classes and 2 interfaces of a family | `TypeOK`, `NoInternalError`, `VirtualCallRight`, `InterfaceCallRight`, `IndicesStable` |
| `cil_methods` | 5 instructions, all operations of CilMethod, both orders of arguments | `TypeOK`, `LateEvaluationAgrees`, `BranchesHaveLabels` |
| `mangle_names` | 4 classes, 31 methods, 2 fields, 3 names made in any order | `TypeOK`, `NamesDistinct`, `NamesFixed` |
| `hashtab_ops` | 4 elements, tables of 7 to 61 slots, one `htab_empty`, failing allocations | `TypeOK`, `SearchesEnd`, `CountsRight`, `ImplementsSet` |
| `gcov_dumps` | 2 processes, 2 objects, 2 builds, one flush, one kill | `TypeOK`, `Conserved`, `FilesReadable`, `SkippedForAReason`, `ForeignFilesKept`, `DumpsEnd` |
| `exec_merge` | 6 instructions | violates `OneSavedStackIsEnough` |
| `mangle_overloads` | one class, two overloads | violates `OverloadsKeptApart` |
| `hashtab_absent` | 4 elements, tables of 7 slots | violates `RemovalsReturn` |

*Why the bounds are enough.* Five instructions hold a forward and a backward branch
in one program, a join of two paths, and a loop that computes; six are needed for two paths
that bring values of different types (`exec_merge`). Four hold every pair of
operations with their operands. Two references per body let a method be met by a
call, through a vtable and again while it is queued or being parsed. Three levels of
classes and two interfaces give every relation between own, inherited and
overridden slots; two interfaces are numbered in both orders. In `cil_methods` five
instructions hold a call with two arguments, an element store, a loop and a dup with
both copies used. A name is compared with one other name, and the third gives it a
history; the methods of `mangle_names` differ in one property each. Four elements, whose hashes
collide in the table of 7, in that of 13 or in both, fill three quarters of a table of 7
together with deleted entries, so that it is rebuilt to the same and to a larger size while searches go round;
a table of 61 is rebuilt to a smaller one. Two processes are enough for every pair of steps
of two dumps; a kill can fall between any two blocks and the other process, or the
child, then meets what was left.

*Deadlock* is not checked: every model comes to its end when the method or the
program is translated, as the compiler does.

*Fairness.* `Terminates` assumes `WF_vars(Next)`: the front end is a sequential
program, nothing else can stop it, and it takes a step as long as one is possible.
Method bodies are finite because code is; `MaxRefs` bounds them. `DumpsEnd` assumes
`WF_vars(DumpStep(p))` for each process: a process that runs goes on with its dump, and
one that waits in `fcntl (F_SETLKW)` gets the lock when it is free; locks are
released by `gcov_close` and by the death of a process. Nothing is assumed about what a program
does before it dumps. No other run needs fairness.

## 4. What the violations show

* `exec_merge`: a label's stack is saved by the first branch to it. Two paths may
  bring an int8 and an int32 variable for the same CIL type; code at the label reads
  the first path's variable. `ExecutionAgrees` therefore assumes `WellMerged`.
* `mangle_overloads`: `types_equal_p` does not ask whether a type belongs to an instance
  method; its implicit argument makes `f()` of a class C equal to a static `f(C)`. The
  second gets the first one's tree, and its body is not compiled.
* `hashtab_absent`: `htab_remove_elt` reads through a null slot for an element that is not in
  the table, where its comment says that "this function does nothing". Its callers in
  GCC remove only what they inserted.

Other differences were met on the way; passing properties exclude them by a stated
condition, and there is no run of its own for them:

* a virtual call may be the first thing that refers to a class; `SCIL_VTABLE_PARSED`
  then dereferences the null TYPE_BINFO, and `instr_call` of a static delegate uses a
  method without a tree: `status` becomes "crashed", and the properties of the driver
  are stated for runs up to that;
* `init_class` of a derived class marks its bases as inited, so the first object of a
  base made later keeps its static vtable (`InterfaceCallRight` speaks of objects with a
  copied vtable);
* interfaces are inherited from the list of the immediate parent only (`Provided`);
* a virtual call in the CIL front end reads the vtable before the null check
  (`LateEvaluationAgrees` leaves such executions out);
* `brtrue` and `brfalse` test the low byte of an integer, or the low bit where GCC folds the
  conversion: for 256, `brtrue` falls through (`ExecutionAgrees` is stated for executions in which
  they test 0 and 1, `truths`; comparisons give nothing else);
* class X of assembly A.N and class X in namespace N of assembly A have one dotted
  name, and so one tree (`NamesAssumption`); and an assembly 1x with a namespace of 18 letters,
  n...n, writes the same characters as an assembly x18n...n (`ChunksAssumption`);
* three processes that exit at once can bring up the message "Invocation mismatch - some data
  files may have been removed" of `gcov_exit` although no file was removed;
* overloads that differ only in their result (conversion operators) share their name and
  their labels, overloads on `native int` and `int32` are one method, and a method with a
  variable number of arguments makes `write_method_type` read beyond its list (a crash in
  the model);
* arithmetic is done in the width of the widest stack variable, 8 bits for small
  literals, and unsigned arithmetic in that of the top operand (`WideArithmetic`);
* unsigned 8- and 16-bit values change sign when pushed (`ScilExec` is run with
  variables of signed types);
* class constructors run in the order in which their fields are met, not in that of
  their dependences (the TODO at `scil-method.c:322`);
* a class that implements an interface method by overriding a method of its base ends
  in the internal error of `change_vtable_slot`. `NoInternalError` does not see this: the
  programs of `iface_calls`, and those the theorem `NoErrorReached` is about, declare new methods for
  their interfaces (`PlainAssumption`);
* the six ways of `odd` above; in particular `f().x` calls `f` twice, `f(g(), h())` calls
  `h` first on the targets this repository is made for, and an array
  that is dup'ed before its elements are set is read from an uninitialised temporary;
* `make_instr_switch` cannot succeed: its assertion on the type of case values
  contradicts `parse_instr_arg`.

## 5. Proofs

`ScilExec_proofs` proves of `ScilMethod`, for every `max_stack`, code length, set of variables,
literals and signatures that satisfy the assumptions of `ScilMethod`:

* `TypeCorrect`, `NoReuse`, `SameHeights`, `NoOverrun`: invariants of `Spec`;
* `GotosKeepLabels`: `GotosHaveLabels`, from the invariant that the target of every goto
  has FORCED_LABEL set and that every instruction translated has its label until
  `scil_complete_method_def` leaves exactly the forced ones (`Targets`).

None of the three safety invariants is inductive: that no variable is reused
follows only if each one comes from the index of its own height
(`SlotsInOrder`), and this must hold for stacks that come back from labels. The
inductive invariant `IndInv` says that the current stack, unless it has just been
cleared, and every saved stack is a `GoodStack` beside the verifier's
(`CurrentStack`, `SavedAsExpected`), that labels without a saved stack have none
(`UnsavedEmpty`), and that ahead of the current instruction a stack is saved
exactly for the labels branched to (`AheadSavedIffExpected`). The proof has one
step per operation; most follow from a lemma for straight-line operations
(`StraightStep`) and one for jumps (`JumpStep`).

`CralDriver_proofs` proves, for every program that satisfies the assumptions of
`CralDriver` (single inheritance without cycles; a virtual method overrides at
most one, of a base class):

* `DriverTypes`: the type invariant;
* `Remembered` and `Complete`: `NothingForgotten` and `ClosedProgram`, from the
  invariant `Closed`, which adds to the former that everything called, everything in
  a vtable and everything `main` calls has a tree (`Accounted`). At the end the queue
  is empty, so what has a tree is compiled;
* `VirtualCalls`: `DispatchRight`, from `Dispatch`, which adds that a class with a
  vtable has bases with one, that indices are set exactly for the virtual methods of
  such classes, and that methods of one chain share a slot;
* `ConstructorsFirst`: `ConstructorsRunFirst`, from `Marking`: `main` calls the marked
  methods, each once, and those are the constructors of the classes with a field that has been met.

`ScilExec_proofs` proves of `ScilExec`, for every code, every width of the integer types and every
set of arguments that satisfy the assumptions of `ScilExec`:

* `ExecTypeCorrect` and `RunsAsCil`: `ExecTypeOK` and `ExecutionAgrees`, from
  `ExecInvariance`. The translation knows one stack per statement and the execution
  follows the gotos, so the argument has two halves. `Linked`, kept by every instruction
  translated, says that the stack a statement leaves is as high as the one each of its
  successors was translated with; slots being in order, `WellMerged` makes the two the
  same. `Running`, kept by every instruction executed, says that each variable holds a
  value of its own width, so that the conversions on the way lose nothing. Branches agree
  because the conversion to bool keeps 0 and 1, and `truths` says that nothing else was tested;
* `ExecTranslates`: `ExecSpec => Spec`. The theorems about `ScilMethod` therefore hold of
  the executed programs too.

`CilMethod_proofs` proves, for every set of instructions and every length of methods,
`TypeCorrect` and `LabelsPresent` (`TypeOK` and `BranchesHaveLabels` of `CilMethod`).
Every handler is a composition of functions that take the translator's state to the
next one: `Becomes` says of such a function that it leaves well-formed trees, adds no
jump and how high the stack is afterwards, `Jumped` the same of those that branch, and
both compose along the calls of the code. `MethodInv` then says that an instruction met
with an empty stack has its label (`LabelsMade`, the rule of `make_label`) and that a jump comes
from a branch that found only its operands, unless the method leaves values on the stack
at a branch (`JumpsMade`). Since a verified method has the same height on all paths, the
target of a branch is met with an empty stack and has its label, whether the branch
comes before or after it.

`Hashtab_proofs` proves, for every set of elements, hash function and table of prime
sizes greater than 3:

* `TableIsASet`: `Spec => ImplementsSet`, from
* `Invariance`: `Spec => []IInv`. That a search finds what is there is not inductive by
  itself: `IInv` says that no empty entry lies on the way of a search to an element of the
  array (`Reachable`), that no element is twice in the array nor in the one copied from
  (`Once`, `OnceOld`), that what is still to be moved is not yet in the new array
  (`Disjoint`), and when there is an old array at all (`Rebuilding`). Lemma `Stored`
  says that a store into an empty or deleted slot that a search has passed keeps this.
  Each call then maps to the call of `ElementSet`, the removal of an absent element to
  its crash, and the steps of `htab_expand` to stuttering; no other step changes `status`, because
  of `EverySearchEnds`;
* `TypeCorrect`, `EverySearchEnds`, `CountsAreRight`: `TypeOK`, `SearchesEnd`,
  `CountsRight`, from `CountInvariance`. Its invariant `Counting` says that `n_elements` and
  `n_deleted` bound the elements, the deleted entries and the entries still to be moved,
  and leave a slot free. Two steps of a search that come to the same slot differ by a
  multiple of the prime size (Euclid's lemma), so a search looks at all slots (the
  pigeonhole principle), meets the free one and ends.

  The sums `index + hash2` are taken in the natural numbers. In the code they are
  of type `unsigned int` and could wrap in tables of more than 2^31 slots; those are not covered.

`Gcov_proofs` proves, for any number of processes, objects and builds, any block size
and any file system (`GcovAssumption` asks that `__gcov_init` takes an object once,
as the test of `version`, which it clears, makes sure):

* `CountsConserved`: `Conserved`; `SkippedRightly`: `SkippedForAReason`; `ForeignKept`:
  the action property `ForeignFilesKept`; `TypeCorrect`: `TypeOK`; all from
* `Invariance`: `Spec => []IndInv`. `Conserved` says nothing of a file that is half
  written, so it is not inductive. `Balance` takes, from the first block to the last, the
  counters that the writer has merged in the place of those of the file; `Writing` says
  that the blocks still to be written will make the file of these counters
  whatever is in it now (`Planned`); `Locks`, that the one process that merges or writes
  a file holds its lock, so that no other comes between; `Lists`, that a dump works through a
  suffix of its list and that counters of objects not in the list are zero; `Foreign`
  and `Reasons`, what is known of files that are not gcov's and of directories.
* `FilesCanBeRead`: `FilesReadable`. A file is `Whole` when it has its head, as many functions
  as the summary of the object says with the sum it says, then summaries of different programs
  up to the end, with as many runs as the object (at most as many if the file was `cut`).
  A second invariant, `ReadInv`, adds to `IndInv` that a file nobody has begun to
  write is whole, empty or foreign (`FileOk`), and that the blocks a writer still has will
  make such a file (`PlanOk`); if the last one follows `gcov_seek`, so will those before
  it, with one run missing, which is why a writer that is killed there does no harm. The core is
  `ScanFinds`, that `merge` finds in a whole file just the summary to replace or the
  end to append to, and `WholeReplaced`, `WholeAppended` and `WholeHalf`, that what is written
  is whole again.

`ScilMangle_proofs` proves, for every set of classes, methods, fields and labels that satisfies
the assumptions of `ScilMangle` and for any number of names:

* `NamesAreFixed`, `NamesAreDistinct`: `NamesFixed`, `NamesDistinct`, and the type invariant, from
* `Invariance`: `Spec => []IndInv`, which says that every registered tree is in just the
  containers its class asked for (`PathInv`), that every name was made for registered trees and
  is the one that mangling would make now (`DeclsInv`, `TreeInv`), and that no two labels
  have one name (`LabelsInv`, the guard of `get_label`).

  That names are distinct needs nothing more of the state: it is a fact about mangling
  (lemma `NamesTell`). A name has neither separators nor, for its types, an end mark, so
  the proof is about clashes: two sequences of tokens *clash* if they differ in a place that
  both have, and then differ however they go on. What is written for two different
  classes with the same compression stack clashes (`ClassesClash`: a reference differs from
  `N`, references to two trees differ, and of two rows the shorter has its `E` where the
  longer has a chunk), hence so does what is written for two types (`TypesClash`), and two
  lists of types differ because the first two types that differ are written with one stack
  (`ListsDiffer`). `RequestedUnfolds` shows by the depth of nesting that the recursive function
  `Requested` exists; the folds of `register_class`, `WithTypes` and
  `write_method_type` are unfolded one element at a time by the lemmas `RegisteredPrefix`,
  `TypesOfPrefix` and `WrittenPrefix`.

  The assumptions: nesting of classes ends; an assembly has a name, of which the model asks
  that it is not one it uses itself for built-in types and members (`ClassesAssumption`); no
  member is called `cctor$`, the name written for `.cctor`, which no C# identifier can be
  (`MembersAssumption`). Two more assumptions do not follow from anything in the code and
  leave programs out: `NamesAssumption` (no clash of dotted names; that a tree is in the containers
  its class asked for is a theorem about such programs only) and `ChunksAssumption` (no name
  begins with a digit). The programs they leave out are in section 4.

`CilRuntime_proofs` proves, for any number of classes, interfaces and methods and every program
that satisfies the assumptions of `CilVtables` and `CilRuntime`, in whatever order its types
are parsed and its classes first used:

* `NoErrorReached`, `VirtualCallsAreRight`: `NoInternalError`, `VirtualCallRight`;
  `IndicesAreStable`: the action property `IndicesStable`; all from
* `CompileInvariance`: `Spec => []CompileInv`. `parse_class` numbers the methods of the bases
  again for every class, so that calls are right only if it comes to the same numbers
  each time. `CompileInv` therefore does not say what numbers there are but which: the number
  of a method is a function of the program (`Numbered`), namely the size of the base's
  table, then the methods of the interfaces in the order of the list, then the other new
  slots in the order of declaration; an override has the number of what it overrides. Two
  numberings of one hierarchy are the same (`NumbersUnique`). The numbers of the new slots
  of a class are consecutive (`NumberIs`), so that the table which `add_vtable_slot` keeps
  sorted has the method with number i at place i (`Dense`, `TablesOK`), where `change_vtable_slot`
  and the calls look for it;
* `TypeCorrect`, `InterfaceCallsAreRight`: `TypeOK`, `InterfaceCallRight`, from
* `Invariance`: `Spec => []IndInv`, which adds `RunInv`: interfaces that are initialised have
  different ids below the next one (`IdsOK`), a class is initialised after its base and its
  interfaces (`ClosedOK`), and its offsets are the places of the slots of its own and
  its parent's interfaces in the table (`OffsetsOK`). The run-time library finds these
  places by counting entries of the vtables; lemma `SlotsBeforeIs` shows that it counts what
  the compiler numbered.

  Recursion along the bases is handled by their depth (`ClassInduction`), the folds over
  methods, interfaces and classes element by element (`FoldSteps` of `NaturalLemmas`). `Numbered`
  refers to sums that are chosen among functions on the natural numbers, which TLC
  cannot enumerate: TLC checks the properties, not this invariant.

`NaturalLemmas` holds what these proofs share. The provers cannot use the library's induction
rules, which take a predicate as a parameter; lemma `Least` (a nonempty set of natural numbers
has a least member) stands in for them: a set of counterexamples is a value. Euclid's lemma
and the facts about `SumFunction` (a sum is a natural number, changes by what one
place changes, adds up place by place) are proved from it.

The theorems assume what the models assume, in particular that method bodies are
verified code, and say nothing about the parts not modelled.

*Only model-checked:* `LateEvaluationAgrees`, which rests on RECURSIVE evaluators of trees;
and `Terminates` and `DumpsEnd`, since liveness and ENABLED are
beyond the proof system.

## 6. Limits of the models

* `CralDriver`: a method that hides a virtual one (`new virtual`) counts as an
  override, because `ILMemberGetBase` reports it as one. Interrupt handlers, hardware
  attributes and memory aliases are left out.
* `CilVtables`: all classes are of one assembly; explicit `.override` declarations are
  left out. Classes whose interfaces are implemented by inherited methods, that list an
  interface of a base again or that hide a virtual method are not among the programs
  (`PlainAssumption`).
* `ScilExec`: bitwise and, or, xor, shifts, floating point and array literals have no values;
  `rem` is refused by the code.
* `CilRuntime`: ids beyond 1000 are not modelled.
* `CilMethod`: no types and conversions (every value is an integer or a reference, 0
  is null), no indirect loads and stores, delegates, strings, value types or switch.
  Array indices are not negative: `create_array_elem_access` converts them to an
  unsigned type.
* `ScilMangle`: `parse_instance_fields` for parameters of value types, arrays, pointers
  and delegates as parameters are left out; assemblies whose dotted names clash with
  namespaces are excluded (`NamesAssumption`), since both share one table of names, and so are
  names that begin with a digit (`ChunksAssumption`).
* `Hashtab`: eq_f is equality and hash_f is fixed; `htab_delete`, the statistics and the
  hash functions are left out. A callback of a traversal that removes or inserts, or a
  caller that stores nothing into the slot it asked for, is not modelled.
* `Gcov`: one kind of counters (`__gcov_merge_add`), one function per cell, no overflow of
  64-bit counters, no I/O errors after a file is open, builds with GCOV_LOCKED.
  Counters run after `gcov_exit` are in no file by design and are not counted. What a
  process killed between two blocks leaves of one file (`torn`) is not described, and `Conserved`
  and `FilesReadable` say nothing of such a file.
* Not modelled: the mangling of the CIL front end (`cil/mangle.c`, whose comparison of names reads
  beyond their ends), type and constant nodes, language hooks, the reading of
  assemblies, and all of GCC's compiler proper: 1.1 million lines of passes and target
  descriptions over trees and RTL, whose correctness is that of translations of whole
  programs. They are neither this repository's logic nor within reach of small instances; the
  share of the source that the models cover stays small for that reason.

## 7. Plan

Done, in this order: `ScilMethod` (with proofs), `ScilExec`, `CralDriver` (with
proofs), `CilVtables` and `CilRuntime`, `CilMethod` and `CilExec`, `Hashtab` with its
abstract specification (with proofs), `Gcov`, `ScilMangle`; then the proofs about the counts and
searches of `Hashtab`, `Gcov`, `ScilExec`, `CilMethod`, the rest of `CralDriver` and
`ScilMethod`, the names of `ScilMangle`, and the dispatch of `CilVtables` and `CilRuntime`. Next:

1. interfaces implemented by inherited methods in `CilVtables`, where the marks of
   `method->count` outlive their class (the TODO at `parse_assembly.c:522`);
2. an abstract worklist (everything reachable is compiled once) that `CralDriver` implements,
   and one of method dispatch for `CralDriver` and `CilRuntime`;
3. `CilMethod` with conversions, value types and delegates; a bound of 6 instructions
   for array initialisers.
