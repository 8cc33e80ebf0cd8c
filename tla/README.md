# OvumVM in TLA+

A verification development for the Ovum virtual machine (`src/`): TLA+ modules
translated from the C++ sources, TLC configurations that check them on small
instances, and TLAPS proofs of the properties that matter most.

## 1. Inventory of the system

OvumVM runs on **one thread**. `StartVmConsoleUI` lexes and parses a bytecode
file, registers the builtin classes and functions, runs the program
(`Executor::RunProgram`), and finally clears the heap (`MemoryManager::Clear`).
There is no concurrency and nothing is persisted; what is hard is *nesting*:
every bytecode command may end in a garbage collection, a collection runs
destructors, and destructors are bytecode, on the same stack and the same heap.

| Component | State it keeps | Operations | Correct when |
|---|---|---|---|
| Memory manager (`runtime/MemoryManager`, `ObjectRepository`) | set of live objects, threshold, `gc_in_progress_` | allocate, deallocate (with destructor), collect, collect if required, clear | nothing reachable is released; nothing unreachable outlives a collection; a collection is never nested; failure of one destructor does not lose the others |
| Collector (`runtime/gc`) | mark bits, work list, deletion snapshot | collect = mark, sweep | tri-colour marking; badges clear between cycles |
| Bytecode commands (`execution_tree/BytecodeCommands`, `Command.hpp`, `Function.cpp`) | machine stack, frames, globals (`RuntimeMemory`) | some 150 commands; call and return | operands typed and in order; frames balanced on every path |
| Control-flow tree (`Block`, `ConditionalExecution`, `IfMultibranch`, `WhileExecution`) | none; signals `kNormal, kBreak, kContinue, kReturn, kConditionFalse` | `Execute` | a signal is consumed by the construct it belongs to |
| Pure-function cache (`PureFunction.hpp`, `CacheKey`) | map from argument tuples to results | execute with memoisation | a hit returns what executing would have returned |
| JIT tier-up (`JitCompilingFunction.hpp`, `IJitExecutor`) | action counters | compile, run, fall back | falling back finds the arguments where they were |
| Virtual tables, function repository | names to indices, slots to functions | register, look up, cast | lookups agree with the order of registration |
| Parser (`bytecode_parser`) | token cursor, current block, open vtable | one handler per construct | every accepted file yields the tree it spells; every rejected one leaves an error |
| Lexer (`bytecode_lexer`) | position in the text | tokenize | a pure function of the text |
| Byte arrays (`ByteArray`) | buffer, size, capacity, view flag | insert, remove, resize, copy, view | no access outside the buffer, views alias their owner |
| Builtin functions (`executor/BuiltinFunctions`, `builtin_factory`) | contents of builtin objects | arrays, strings, nullables, files, console | circular indices, bounds, operand discipline |
| Executor and console entry (`Executor`, `vm_ui`) | exit code | run, report, clean up | `Clear` runs whatever happened before |

Interactions. `Command::Execute` calls the command, then
`CollectGarbageIfRequired`. `MarkAndSweepGC::Sweep` calls back into
`MemoryManager::DeallocateObject`, which pushes a frame and the object and
executes the destructor (`IFunctionExecutable`), whose commands call
`CollectGarbageIfRequired` again: `gc_in_progress_` is what stops the
recursion. `PureFunction` executes `_GetHash_<C>` of its arguments, bytecode
again. The parser writes into the function and vtable repositories that the
commands read.

Hard behaviours. Arbitrary order of destruction; resurrection; failure in the
middle of a sweep; collections in the middle of expressions; allocation inside
destructors; counters at the threshold; caches keyed by addresses that are
reused; signals that leave the construct they belong to. `PROJECT.json` lists
them line by line under `hazards`.

## 2. Plan

1. **`ManagedHeap`** (abstract: what a program is promised about memory) and
   **`GarbageCollector`** (the code), with a refinement between them, their
   runs, type correctness and memory safety proved. *Done.*
2. **`PureFunctionCache`**: memoisation by pointer identity over a heap whose
   addresses are reused. *Done.*
3. **`ExecutionTree`**: signals through nested statements, calls and failures,
   implementing **`StructuredProgram`**, a structural definition of the language.
   *Done.*
4. **`ByteArrays`**: owners, views, capacity, implementing **`Arrays`**, the array
   builtins on sequences with wrapped indices. *Done.*
5. **`Arithmetic`** (what the arithmetic commands compute, at a given width) and
   **`Commands`** (what every command does to the machine stack, calls and the
   fall-back from compiled code included). *Done.*
6. **`BytecodeParser`** (every handler, over short files) and **`VmLifecycle`**,
   which composes it with the console entry point and the executor; exit codes
   and clean-up proved in **`VmLifecycleProofs`**. *Done.*
7. Proofs for each component, from the same definitions the runs check: type
   correctness everywhere, the invariants and action properties of 1-6, the parser's
   output included, and the refinements `GarbageCollector => ManagedHeap` and
   `ByteArrays => Arrays`. *Done*, under the hypotheses that each section names.
8. Left: collections seen from the program where destructors publish objects; liveness,
   which stays with TLC.

Modules and what they build on:

    ManagedHeap <= GarbageCollector <- GarbageCollectorProofs
    StructuredProgram <= ExecutionTree <- ExecutionTreeProofs
    Arrays <= ByteArrays <- ByteArraysProofs
    PureFunctionCache <- PureFunctionCacheProofs
    Arithmetic <- Commands <- CommandsProofs
    BytecodeParser <- VmLifecycle <- VmLifecycleProofs
    BytecodeParser <- BytecodeParserProofs <- BytecodeTextProofs <- VmLifecycleProofs

(`A <= B`: `B` implements `A`; `A <- B`: `B` extends `A`.) `MC*` modules give the
constants of the runs their values.


## 3. The core: `GarbageCollector` and `ManagedHeap`

### State

| Variable | Code |
|---|---|
| `allocated` | addresses obtained from `allocator_` and not returned |
| `objects` | `ObjectRepository::objects_` |
| `fields` | contents of objects (`void*` fields, array elements) |
| `marked` | objects whose `badge` has `kMarkBit` |
| `globals`, `frames`, `stack` | `RuntimeMemory::global_variables`, `stack_frames`, `machine_stack` |
| `mode` | where the thread is: program, phase of `Collect`, `Clear`, ended |
| `worklist` | the queue of `MarkAndSweepGC::Mark` |
| `toDelete` | the local vector of `Sweep` (or `Clear`) |
| `victim`, `base` | the object whose destructor runs, and how deep frames and stack were when it was called: the C++ call stack |
| `gcInProgress`, `forced`, `firstError` | `gc_in_progress_`; collection requested by `ForceGarbageCollection`; `first_error` |

### Actions

Each bytecode command is one action, together with the
`CollectGarbageIfRequired` that `Command::Execute` performs after it
(`AfterCommand`). The same action is a step of the program (`mode = "run"`) or of
a destructor (`InDestructor`), if the constant `DtorOps` lets destructors contain
that command. A collection is split into `AddRoots`, one `Mark` per turn of the
queue, `SweepScan` (the badge pass), `BeginDestructor`/`FinishDestructor` around
the destructor's own commands, `DestructorFails`, `MissingDestructor` and
`FinishSweep`. `Clear` is `BeginClear`, the same destructor actions, `FinishClear`.
Reading or writing an object that is not in `allocated` sets `mode` to
`"undefined"`: the C++ behaviour is undefined, so the model stops there and
`NoUseAfterFree` says it is never reached. A null dereference is a crash of the
program's own making (`"crashed"`).

`ManagedHeap` is the promise: the program allocates, moves references and stores
into objects it holds; memory is reclaimed behind its back only if it is
unreachable. `ImplementsManagedHeap` checks that the collector implements it,
with `roots` mapped to the references held by the program's *own* globals, frames
and operands (those below a running destructor).

### What is abstracted

* Values that are not references are `Null`; so is the null reference.
* The mark queue and the hash set of objects are sets: every order is explored.
* `Call` and the `Return` of its callee are separate actions; methods of one
  argument stand for all; the end of the callee and the end of the `Call`
  command are one step, as nothing happens in between.
* Compiled destructor bodies are stack-neutral: they consume no operands below
  those they were called with (`Operands`) and leave none when they succeed. The
  compiler that emits them is not in this repository. When they fail, operands may
  be left behind, as in the code.
* Failure of a program command is `RunProgramReturns`: every enclosing
  `Function::Execute` pops its frame and `RunProgram` returns the error. The
  command `Exit` (`std::exit`) is left out: it ends the process with no step after it.

### Properties

| Property | Says |
|---|---|
| `TypeOK` | types of the variables |
| `NoUseAfterFree` | neither commands nor marking touch released memory |
| `NoDanglingReference` | in every state of the running program, mid-sweep included, all it can reach is allocated |
| `TriColour` | roots are grey or black, no black object points to a white one |
| `NoStaleBadge` | badges are clear outside the mark phase |
| `GarbageIsBounded` | between commands there are more than `Threshold` objects only if all of them are reachable |
| `CollectionIsComplete` | a collection that succeeds leaves no garbage, cycles included |
| `CollectionIsTransparent` | globals, frames and operands of the interrupted program are untouched by every step of a collection in which no destructor has failed |
| `ClearReleasesEverything` | a `Clear` without error leaves no memory allocated |
| `GarbageIsCollected` | liveness: what is unreachable when a collection starts eventually leaves the repository |
| `ImplementsManagedHeap` | refinement |

### Runs and bounds

| Run | Instance | Shows |
|---|---|---|
| `GcBuiltin` | 3 addresses, 1 field, 1 global, 1 local, 2 operands, 2 frames, threshold 1; destructors of builtin classes, which may fail or be missing | all safety properties and the refinement |
| `GcLiveness` | 2 addresses, 1 frame | `GarbageIsCollected` |
| `GcUserDtor` | 3 addresses, 3 frames; destructors that allocate, move references, call, return, fail, force collections | nesting is harmless: four of the properties, with other steps to break them than in `GcBuiltin` |
| `GcDtorReads` | destructors that read a field | **violation**: use after free |

Three objects are enough for a chain, a cycle with a tail, and one object that
survives while two die, in both orders of destruction; threshold 1 makes
collections happen at two and at three objects. Two frames give an outer frame
whose locals only `AddRoots` protects. Deadlock checking is off because the VM
really stops (`exited`, `crashed`, `undefined`), and because the bounds
`MaxStack` and `MaxFrames` stop pushes. Addresses are symmetric in the safety
runs; the liveness run uses no symmetry.

Fairness. `FairSpec` adds `WF_vars(Collector)`: a collection is a synchronous
call on the only thread, so once begun it proceeds to its next step. No fairness
is assumed of the program. In `GcLiveness` destructors are builtin; a destructor
written in bytecode may loop forever, and then nothing can be promised.

### Disagreements with the documentation

`README.md` promises "guaranteed memory safety" (line 135) and that collection
"eliminates manual memory management" (line 9). With destructors in bytecode this
does not hold: the sweep releases each unreachable object as soon as its own
destructor returns, so a later destructor can read it (`GcDtorReads`), and an
object that its destructor publishes is released all the same. The second is of the
same kind and not a run of its own: `GcDtorReads.cfg` with `{"LoadLocal",
"SetStatic"}` for `DtorOps` shows it. No passing run has destructors that assign globals, so
publication is neither excluded nor judged there.

### What is proved

In `GarbageCollectorProofs`, first `TypeCorrect`, that is `Spec => []TypeOK`, for every set
of addresses, fields, locals, globals, every threshold and every `DtorOps`.
`TypeOK` is not inductive: that `SubSeq(frames, 1, base.frames)` is a sequence of
frames needs `base.frames <= Len(frames)`, that a command has a frame to work in
needs that a running program has one. `Nesting` is the strengthening: it ties
`mode`, `victim`, `base`, `toDelete` and `gcInProgress` together.

Then `MemorySafety`, `RootsStayAllocated`, `MarkingIsTriColour`
and `BadgesAreCleared`, under the assumption `DiscreetDestructors`: destructors
contain neither `GetField`, `SetField` nor `SetStatic` (`GcDtorReads` shows that it
cannot be dropped, and each of the three alone breaks the property). The
inductive invariant `SafetyInv` says that a closed set of objects holds everything
the program can name and nothing condemned (`RootsAlive`), that only reachable
objects are marked (`MarksReachable`), the tri-colour invariant, that badges are
clear outside the mark phase, and that the repository is the heap. Program
commands build the next closed set explicitly; destructor commands leave the
program's frames, operands and globals alone (`DestructorCommandSafe`); the set
that survives `SweepScan` is the set of marked objects.

Last, for every heap, program and threshold:

| Theorem | Needs of destructors |
|---|---|
| `CollectionsAreTransparent` | no `SetStatic` |
| `ClearLeavesNothing` | no `CallConstructor` |
| `CollectionsAreComplete`, `GarbageStaysBounded` | `QuietDestructors`: neither `CallConstructor`, `GetField`, `SetField` nor `SetStatic` |
| `CollectorImplementsManagedHeap` | `TidyDestructors`: quiet, and one that may fail leaves no operand behind |

`CollectionsAreTransparent` is about globals, frames and operands during a collection; it
says nothing of what objects hold, of `Clear`, or of a collection after a failure, which
ends the program. Destructors may still call, return, move references between their own locals and operands,
force collections, fail, or be missing. The hypotheses are about the program, not about
the collector: an object that a destructor allocates is garbage when the collection
ends, a global that it assigns is a root that was not there before, and an operand that
a failed destructor leaves on the stack (its frames are popped, its operands are not)
refers to an object that the sweep then releases, which the abstract heap forbids;
fields are ruled out as above. The
additions to `SafetyInv` are `CompleteInv`, by which what survives the sweep is the
*smallest* closed set that holds the program's roots, as long as no destructor failed;
and `HeapInv`, by which free addresses hold no references, and some closed set around
the roots avoids everything condemned, after a failure too.

`GarbageIsCollected` stays with TLC: liveness under fairness is out of reach of
the prover.

## 4. `PureFunctionCache`

`PureFunction::Execute` is split where bytecode runs in between: `CallPure` takes
the arguments off the stack; one `HashPrimitive`, or `BeginHash` and `FinishHash`,
per argument builds the key (`GetHash` runs the class's hash function and the
declared type is checked after it); then `Hit`, or `Miss`, the commands of the body,
`BodyReturns`, which inserts the result. `Fails` is every error return. `calls` is
the C++ call stack: per activation its arguments, the hashes so far, the locals of
the frame it pushed and the height of the stack. `cache` is `cache_`. A garbage
collection is one step here, `Collect`, and may follow any command of the program,
of a hash function or of a body; `Roots` is what `AddRoots` visits. It is justified by
the core: there a collection releases what is unreachable and nothing else.

The function itself is abstracted: it is injective in what its arguments denote, so its
result *is* the list of what they denote, and a stale or mixed-up entry shows. Objects
have a content and no references; `Hash` is any function, and `MCPureFunctionCache`
assumes one without collisions, `HashIsPerfect` (a collision of two contents at one
address cannot be told apart by the code either).

| Property | Says |
|---|---|
| `TypeOK` | types of the variables |
| `NoUseAfterFree` | neither the program nor `Execute` reads released memory |
| `HitIsFresh` | what the map would return now is what the body would compute now, although objects change, die and leave their addresses to others |
| `CallIsBalanced` | what lies below a call's arguments is untouched, and a call leaves exactly one result, recursion included |

| Run | Instance | Shows |
|---|---|---|
| `PfCache` | parameters: a value, then an object; 2 addresses, 2 contents, 1 value, 3 operands, 2 nested calls | all four properties |
| `PfTwoObjects` | two object parameters | **violation** of `NoUseAfterFree`: while the first argument is hashed the second is only in a C++ vector |

A function that returns an object breaks `NoUseAfterFree` too, because the map's
results are not roots (the constant `ReturnsObject` makes the function one); that is the same
property by the same cause, so it is not a run of its own.

Two addresses let a dead object's address be reused while another object lives; two
contents tell the old from the new; two activations give recursion. The order of the
parameters of `PfCache` matters: with the object first, it would be unprotected only
while later *objects* are hashed, and there are none, but a mistyped call could still
hash two objects; with it last even those are harmless.

`CacheKey::operator==` ignores the hashes (`HashIs` is a conjunct of `Found` because
the standard libraries of GCC and Clang compare stored hash codes before keys). On a
library that does not, `HitIsFresh` would fail for an object that changed. Floats of
opposite sign of zero compare equal too; values of the model are equal only to
themselves. Both are listed as hazards.

### What is proved

`PureFunctionCacheProofs`, for any arity, addresses, contents and depth of calls.
Without hypothesis: `TypeCorrect`, and `CallsAreBalanced`, from `Nesting`, which orders
the heights of the stack that the active calls noted. If the function returns no object
and only its last parameter may be one (`~ReturnsObject`, `ObjectParams \subseteq
{Arity}`): `NothingStaleIsRead`. `PfTwoObjects` shows that an object before the last one
breaks it. The invariant says, phase by phase, who keeps the object alive: the operand
stack, then, since it is hashed last, the frame of its own hash function, and in the
end the frame of the body. If no two
contents have the same hash, too: `HitsAreFresh`. An entry need not be about objects that
still exist, so the invariant, `EntriesAreHonest`, speaks of what the arguments *denoted*
when it was made: some list of values with those hashes, whose image is the result.

## 5. `ExecutionTree` and `StructuredProgram`

A node's `Execute` calls that of its children. `ExecutionTree` makes the C++ call
stack explicit (`control`: the active nodes and the child each is executing) beside
the `ExecutionResult` being returned (`result`, `"run"` while descending). A command or a
call may fail (`Fail`), which every construct passes on, or throw (`Throw`: `std::stoll`
in `StringToInt`, for one): an exception empties `control` and leaves `frames` as they are,
because `Function::Execute` pops its frame on its own ways out only. `EnterIf`,
`EnterWhile`, `Call` and `IfTests`/`WhileTests` descend; `BlockReceives`, `IfSkips`,
`IfReceives`, `WhileConditionEnds`, `WhileBodyEnds` and `FunctionReceives` say what
each construct does with a result. `last` is an observation: the command or test
executed last, how it went, and the calls it happened in. `frames` are the stack frames
from main's on, pushed by a call and popped by `FunctionReceives` on each of the ways out.
Commands do nothing but succeed, fail or throw; a condition leaves true, false, or no boolean.
`Tree` says what the parser builds, and is assumed of every program.

`StructuredProgram` says the same with no results at all: after a Break comes what
follows the innermost loop around it, after a Continue that loop's condition, after a
Return what follows the call. It finds these places by walking the tree with recursive
operators, so it stays with TLC. `ExecutesStructure` checks that every step of the
interpreter is a step of it, or leaves the observation alone.

| Property | Says |
|---|---|
| `TypeOK` | every active node is at one of its children |
| `SignalsAreConsumed` | a Break or Continue in flight has a loop of its own function above it, a false condition its `if`, a Return its function |
| `FramesMatchCalls` | there is a frame for each function that is executing, and no other, whether functions end normally, by a Return or by an error; an exception leaves exactly those of main and of the calls it was thrown in |
| `ExecutesStructure` | commands and tests are executed in the order the structure prescribes |

The run `TreeAll` takes all trees of at most 6 nodes (every construct alone and all
pairs), and every filling (3250) with command, break, continue, return and call of the holes
of two larger ones: a loop in a loop with statements after it (13 nodes), and a
three-way branch in a loop (16 nodes). Tests and commands have every outcome, so
loops run any number of times. `MaxCalls = 1` allows one recursive call, enough for
a signal to reach a function whose caller is in a loop. Break and Continue occur in
the body of a loop only, as the language's compiler emits them; the parser does not
insist on it, and elsewhere they would end a loop of a caller. Deadlock checking is
off because programs end. The run has 413474 distinct states.

### What is proved

`ExecutionTreeProofs`, for any set of trees and any number of nested calls: `TypeCorrect`
and `FramesArePopped`, from an invariant by which each entry of the C++ stack is for what
the entry below it is executing; and, for trees with Break and Continue in loops only
(`WellPlaced`, which `MCExecutionTree` assumes of the run's trees), `SignalsReachTheirTargets`.
Its invariant carries the nodes that are in loops along the stack: if the executing node
is one of them, then the innermost loop's body is above the innermost function.
`ExecutesStructure` rests on the recursive walk of the reference and stays with TLC.

## 6. `ByteArrays` and `Arrays`

`Arrays` is what the array builtins promise: an array is a sequence, `place` says
whether it is one of its own or an object's memory seen as bytes, and indices wrap
around. The builtins over `std::vector` are this module, action for action. For byte
arrays it is an abstract specification, because class `ByteArray` manages its memory
itself: `ByteArrays` has the buffers.

| Variable | In the code |
|---|---|
| `memory` | the content of each allocated buffer, and of each object that is viewed |
| `array` | `data_`, `size_`, `capacity_` and `is_view_` of each array |
| `live` | the arrays that exist |
| `returned` | what the last builtin pushed |
| `mode` | running, ended by an error or exception, or outside of the memory it may use |

There is an action for every builtin of the class. `AllocateMemory`,
`DeallocateMemory`, `Reserved` (`Reserve`), `Grown` (the start of `Insert`), `Shrunk`
(`ShrinkToFit`) take a memory and an array to a memory and an array, in the order of
the statements, so that an allocation precedes the release it replaces. `Put` writes
the elements and makes the mode `"undefined"` if the buffer is shorter than they are;
reading more than the buffer holds does the same. `ObjectChanges` is the rest of the
program: the object is created, written to, collected.

Abstracted: bytes behind the size are not told apart from memory never written, since
no operation looks at them; an object is `ObjectSize` bytes, its descriptor included;
hash codes are data. `MaxLength` bounds additions.

Two things programs may do are in the set `Traps` and allowed only if it has them:
`"assign"`, assignment of an array that fits into the buffer but has a larger capacity,
and `"release"`, the collection of an object while a view of it is in use.

| Property | Says |
|---|---|
| `TypeOK` | types, and no builtin returns memory that was never written |
| `NoOverrun` | no access outside of a buffer |
| `BuffersHaveOneOwner` | a buffer is in use exactly if one live array owns it: nothing is leaked, shared or released twice |
| `CapacityIsHonest` | size is at most capacity, capacity at most what the buffer holds |
| `ImplementsArrays` | every step is one of `Arrays` on the sequences in the buffers |

`ArrBytes` has two arrays, one object of one byte, two byte values, construction and
reservation of 0 and 2, indices -1 and 2 (which wrap to the last, a middle and the
first place), and lengths up to 3: the first growth
(0 to 1), doubling (1 to 2 to 4), a reservation between them, giving memory back,
insertion and removal at the front, in the middle and at the end all occur. Three
buffers are enough, because one operation holds at most one more than the arrays own;
`SupplyAssumption` says so for any number of arrays. Running out of memory is not
modelled.
Arrays and buffers are interchangeable, and the run uses their permutations: the
allocator's `CHOOSE` picks among free buffers, which differ in their name only. The
traps are off. Deadlock checking is off because an error ends the program.

Two disagreements:

- the run `ArrAssign`, with the trap `"assign"`: a copy of an array with one element and
  capacity 2 into one with capacity 1 keeps the smaller buffer but notes capacity 2;
  the next insertion writes behind it (`ByteArray.cpp:51`).
- insertion at 0, or any multiple of the length, appends
  (`BuiltinFunctions.cpp:58`), while the other array classes insert in front. The
  property `InsertsBeforeIndex` says so; it fails on the first such insertion and is
  stated for reference, no run checks it.

Two more differences between the classes are modelled as they are and not judged:
`Less` of byte arrays puts the shorter first, that of the others is lexicographic; and
the capacity after shrinking or reserving is exact only here, so `Arrays` asks of it no
more than that it covers the length.

### What is proved

`ByteArraysProofs`, for any arrays, objects, bytes, sizes and indices, with the traps off
(`Traps = {}`: no array with spare capacity is assigned to, no object is collected while a
view of it is in use; `ArrAssign` shows that `CapacitiesAreHonest` and `MemoryIsRespected` cannot do without): `TypeCorrect`,
`MemoryIsRespected`, `BuffersAreOwnedOnce`, `CapacitiesAreHonest`, and `ArraysAreSequences`,
the refinement, with the mapping that stands at the end of `ByteArrays`. One invariant
serves all of them. It puts the four properties together with three facts that none of
them says: every element within the size was written, an object is absent or has its full
size, and a buffer that is in use belongs to a live array. The lemmas follow the C++
helpers, one for each of `Reserved`, `Grown` and `Shrunk`, that say which memory changes and
that the elements move with the array; the refinement's step lemmas only cite them.

## 7. `Arithmetic` and `Commands`

### State and actions

| Variable | In the code |
|---|---|
| `stack` | `RuntimeMemory::machine_stack` |
| `locals` | `local_variables` of the frame in which the commands run |
| `actions` | `total_action_count_` of each function that may be compiled, up to one above the boundary |
| `mode` | running, or how the program ended: an error returned, `Exit`, a C++ exception, a trap of the processor, undefined behaviour |

A value carries its type, as `Variable` does; an object carries its class and, if it is
a box or a `Nullable`, what is in it. Boxes and Nullables are told apart by what they hold
and not by address, so `SetField`, which changes one in place, changes any of the equal
ones on the stack and in the frame with it, or none (`Aliased`): each is the same object or
another one. There is one action per command of
`BytecodeCommands.cpp`, grouped as `command_factory.cpp` registers them, and a program
is any sequence of commands. `Extracted` is what `TryExtractArgument` tests: that there
are enough operands and their C++ types fit; when it fails the command refuses and the
operands stay. `Believed` is what the code does *not* test: that an object is of the
class the command casts it to. Where it does not hold the program is `"undefined"` and
the model stops; following the null pointer is one such case. `Arithmetic` says what is
computed: a sum, difference, product or negation that leaves `int64_t` is any integer
(`Computed`: signed overflow is undefined in C++, and the build has no `-fwrapv`), bytes are
promoted and cut, division rounds towards zero, the one quotient without representation
traps, shifts by the width or more give any value. An operator returns the set of
possible results, so a failing command returns the empty set.

`Execute` is `Function::Execute` and `JitCompilingFunction::Execute` together. A callee
leaves a result of its declared kind, adds any number of commands to its counter, or ends
the program in any way. A function past the boundary may be compiled; if the compiled
run fails, `"undefined"` is an outcome, since its arguments for the interpreter are then
read through a frame that was popped. The placeholder executor of this repository never
gets there.

### What is abstracted

* Fields of objects other than boxes and Nullables hold any value of their type:
  their contents are the core's subject. A field of type Object (class `Point` has one)
  gives an object of the constant `Stored`, a Nullable, or the null pointer, which
  `AllocateObject` puts there (`References`). `GetField` reads Nullables like other
  objects, and pushes the null pointer if one holds it, as the code does. The bound
  `Shallow` keeps Nullables from being put into Nullables. `SetVTable` gives an object the class
  it has: with another one, no later command could be trusted.
* Of a float only the sign, or that it is no number. Strings, files, clocks and
  environments give any result, and fail or throw where the code lets them.
* `LoadStatic` and `SetStatic` are in `GarbageCollector`, Break, Continue and Return in
  `ExecutionTree`.
* The underscores of a virtual name tell how many operands its methods have, and every
  method has a result: that is how the compiler, which is not in this repository, names
  and uses them, and what `SafeCall` relies on, which counts them to discard the operands
  of a call on null. `NamesTellOperands` states it, and `MCCommands` assumes it of the
  run's functions.

### Properties and bounds

| Property | Says |
|---|---|
| `TypeOK` | every value is in the range of its type, and an object is one that a command can build |
| `NullComesFromFields` | a program that has no null pointer among its operands and locals gets one only by reading a field or from a function that returns an object: `Unwrap`, `NullCoalesce`, `SafeCall` and all other commands keep it in its Nullable or refuse |
| `ArithmeticLaws` | where a result fits: quotient and remainder belong together, subtraction undoes addition, the bit operations agree with addition and with each other, of three comparisons one holds |
| `SafeCallIsUniform` | a safe call takes the same operands and leaves a Nullable, whether it calls or meets null |

The run `Commands` has integers of two bits, bytes of one and `int` of two, so that
overflow, the trapping quotient and every undefined shift occur; all pairs of operands
of each width are on the stack at some time. Five functions: with a box, an object, an
object and a value as parameters, one without result, and one that returns an object, a
Nullable or null; one of them may be compiled, with boundary 0, so that it is both cold and
hot. The run has 146686 distinct states. `Room = 5` bounds the stack and the
frame together: strings and byte arrays take one place, so `Interop` gets its four
operands, other values take two, so two numbers fit beside each other. Commands look at
the top of the stack only, hence more room repeats what is there. Deadlock checking is
off because programs end.

Each property has a seeded fault next to the operator it changes: `ByteArithmetic_Wide`
(a sum that is not cut back), `Quotient_Floor`, `Unwrap_Unchecked`, `Discarded_This`
(the object counted among the operands of a call on null).

### What is proved

`CommandsProofs`, for any functions, virtual methods, widths and bounds:

| Theorem | From |
|---|---|
| `TypeCorrect` | one invariant: every value on the stack and in the frame is in the range of its type and every object is one that a command builds, or the value is the null pointer; a lemma per group of commands |
| `NullIsContained` | the same invariant, and per group of commands that values are null after it only if they were before; `Yields` and `Guarded` in the property name the commands that read fields and those that must refuse null |
| `NumbersObeyTheirLaws` | lemmas on quotients and remainders for `NumberLaws`, and, for `BitLaws`, that a number is determined by its bits; at every width |
| `SafeCallsAreUniform` | `NamesTellOperands`: with other names the call on null and the call discard different numbers of operands |

`WidthAssumption` asks that an `int` and the promoted type be wider than a byte, as they
are in C++. `PowersOfTwo` is the recurrence of the powers up to the widths of the
model, since the prover knows no exponentiation; TLC evaluates it at the run's widths.

The laws of the bit operations are the ones that a solver cannot find. A bitwise result
is the `Word` that has certain bits, so it must exist and be the only one: `WordExists`
and `SameBits` say so for numbers of any number of places, the first by adding the
lowest place to a shifted word, the second by comparing quotients by two. `WordsAddUp`
adds two words place by place, with `And` as the carry. All of them go by induction
over the number of places, and induction comes from the least element that a non-empty
set of natural numbers has (`LeastNumber`, from the well-foundedness of `<`): the set
takes the place of the predicate that the library's induction theorems have as a
parameter.

## 8. `BytecodeParser` and `VmLifecycle`

### The parser

| Variable | In the code |
|---|---|
| `read`, `isnt` | the tokens before `pos_`; what the current token is known not to be |
| `todo`, `names` | the rest of the running handler: the tokens it expects and what it does then; identifiers it has consumed |
| `open` | the handlers that are active, innermost last: the C++ call stack |
| `blocks`, `current` | the blocks made so far; `current_block` of the session |
| `decl`, `program` | the head of the function, or the table of the class, being read; what the repositories have got, in order |
| `mode` | reading, parsed, an error returned, an exception thrown |

The file is not given beforehand: a token is chosen when the code looks at it, and
looking without consuming (`comma`, `else`) is remembered in `isnt`. So one run covers
*every* sequence of tokens up to the bound, accepted and refused ones. `Accepted` is what
the handlers take at a place; `Refuse` is everything else.

A token that the parser compares with something is itself; an identifier is one of those
tried at its place in the grammar. Literals of the other types are read like
integers. Positions and wording of messages are left out.

### The machine

`VmLifecycle` extends the parser with `StartVmConsoleUI`, `RunProgram` and
`CreateStringArrayFromArgs`. `phase` says which of them is at what point; `code` is
`return_code`; `frames` counts the frames on the stack between the executor's steps: its
own, and those that an exception left over, one for each call it was thrown in (`Fails`, up
to the bound `MaxDepth`); `live`, `array` and `next` are the argument array and what it is made
from; `result` is what main returned. Every call there may be followed by a collection
(`MayCollect`), whose roots are what the frame on top holds: that is the hazard, since the
array is otherwise known to a C++ variable only. What the static block and main do is open:
they end normally, with an error, by an exception at any depth of calls, or by `Exit`. `Clear` comes last,
whatever happened; what its destructors throw is inside no `try` block that helps, so it
may also end in `"aborted"`.

### Properties and bounds

| Property | Says |
|---|---|
| `TypeOK` | open constructs refer to blocks that exist; exit codes fit 32 bits; types |
| `NothingIsMisplaced` | an accepted file without classes, written out again from what was built, is the file that was read (but for optional commas): no statement ends in another's block |
| `StatementsReturnToTheirBlock` | the parsers of `if` and `while` hand the session back to the block they were called from, which is that of the construct around them |
| `CompilerSeesTheBody` | the text copied for the compiler, by counting braces, is that of the body the interpreter got |
| `ArgumentsSurvive` | no collection during its construction takes the argument array or a string in it, and main gets all arguments in order |
| `NothingLeftBehind` | when the machine returns, the repository is empty of the executor's objects, whatever failed |
| `NoFalseSuccess` | a program that was to be run ends with exit code 0 only if its main returned 0, or another number whose bits in an exit code are all 0: no refused file, missing block or function, error or exception passes for success |
| `ClassesHaveDestructors` | a class has the slot by which its objects are destroyed (**violated**, see below) |

`Vm` and `VmDestructor` take files of up to 16 tokens, with at most two statements in a
block, two items in a list and two sections in a class. An else-if in a static block,
an `if` with an else-branch in a function, a `while` after another statement, a static
block with a main function, a class with two methods, two declarations with the same
name all fit. Exit codes have four bits, and main returns -1, 0, 4, 5, 8 or 16: the last
two do not fit, and 16 is cut to 0. That a failure code of main's may be cut to success
(`vm_ui_functions.cpp:150`) is therefore in the model; `NoFalseSuccess` admits it, because
nothing in the repository says which numbers main may return. `MaxDepth = 2` lets an
exception be thrown in main or in the static block, in a function that they call, and one
below. With two arguments one string is in the array while the other is not.
Deadlock checking is off because the machine stops.

Seeded faults: `AddNode_KeepsBlock`, `BlockEnd_First`, `Narrow_Not`, `SetAt_NoFrame`,
`Clear_AfterSuccess`, `RunStatic_Unreported`.

### A disagreement with a test

`VmDestructor`: a method whose *real* name is `C_destructor_<M>` keeps the parser from
generating a destructor, whatever its virtual name (`VtableParser.cpp:113`), but
`DeallocateObject` asks for the virtual name `_destructor_<M>` (`MemoryManager.cpp:66`).
Such a class has no destructor at all, and a collection of one of its objects fails. The
test of this case says that one is provided (`tests/bytecode_parser_tests.cpp:463`). A size
line after the methods has the same effect, since it replaces the table.

### What is proved

`VmLifecycleProofs`: `NothingIsLeftBehind`, `SuccessIsOfMain` and
`MainGetsItsArguments`, for every file and every value of the constants, from
`LifecycleAssumption` (the number of arguments and the depth of calls are natural numbers,
the latter not 0, and exit codes have some bits) alone; the parser enters only by leaving the executor's variables unchanged. None
of the three properties is inductive. `ExitInv` adds that a code 0 on its way through
`Clear` has a result of main's behind it that is 0 in the exit code's bits, and that nothing
has been read at the start. `ArrayInv`
says of the array that it is filled exactly up to `next`, with the default string
behind, and that it and all its elements are live; before it exists, `next` is 1 and the
default string, once allocated, is live, because no collection comes between.

`StatementsKeepTheirBlock`, of the parser, for every file of any length. Between two
tokens a handler has made some of its moves and not the others, so the property holds
only because of what is still to do. `ParserInv` says: open constructs are nested, each
with the block it will return to (`Nested`); the last of the steps in `todo` is the one
that concerns the tree, and the construct on top is of the kind it needs (`Agenda`); and
where a statement may begin, the current block is that of the construct on top
(`Settled`). `PlacesAssumption` keeps the names of places in the grammar apart from
those of a handler's steps.

`TypeCorrect`, for the machine and the parser in it, from `ParserInv` and `RunInv`, which
says in which phases the executor's frame is there: at most one, besides
`MaxDepth` frames that an exception left. `ExitWidth`, like `PowersOfTwo`, states
a fact about powers that the prover lacks; TLC evaluates it.

`NothingGetsMisplaced` and `CompilerSeesWhatRuns`: `NothingIsMisplaced` and
`CompilerSeesTheBody`, for every file of any length and depth. The definitions of their
proof are in `BytecodeParserProofs`, its steps in `BytecodeTextProofs`. The text of a block
is not computed there but characterised: `Tells` says of an assignment of texts to blocks
that each text is the block's statements spelled out, with the texts of inner blocks in
braces. A statement mentions only blocks created after the one it is in, so there is
exactly one such assignment (`OneText`), the one that the properties use (`TextsAre`); this
is shown by looking at the last block on which two of them differ, which needs no scheme
of induction. The inductive invariant `TextInv` then says

- where the parser is (`Somewhere`: in the file, in a class, in the types of a
  declaration, in its head, in its body): what has been read is the text of the complete
  declarations, followed by the open constructs from the outside in, each with its closing
  brace to come, followed by what the handler at work has consumed;
- that a block being filled is mentioned by no statement (`Tree`), so that a statement
  appended to it changes its own text and no other;
- that the copy kept for the compiler is the text of the body (`Kept`): braces in the text of
  a block are closed, so that counting them stops at the body's closing brace and not
  before (`CopyIsBody`).

The proof rests on `VocabularyAssumption`, that the lexer tells keywords, punctuation,
literals and identifiers apart, and `ItemsAssumption`, that an item of a list begins with a
token that has a name. TLC evaluates both in `Vm` and `VmDestructor`.

## 9. Not modelled

The JIT compiler (another repository: any outcome), argument parsing (accepted, refused
or help), text formatting and number parsing (any text, any number or an exception),
what file, console and clock commands do to the world, the tables of
`builtin_factory.cpp` that register builtin classes and functions, and the lexer: a pure
function from characters to tokens that keeps no state another part sees and that its
tests cover character by character; that it may fail is an outcome in `VmLifecycle`.

At the seams between modules: operands that a failing or throwing callee leaves on the stack
are not carried over from `Commands` to its caller, because the program ends there; the
frames and operands that an exception leaves are not related to the destructors which
`Clear` then runs on top of them.
