--------------------------- MODULE GarbageCollector ---------------------------
(***************************************************************************)
(* The VM thread, its object repository and the mark-and-sweep collector.  *)
(*                                                                         *)
(* OvumVM runs on one thread.  A program is a sequence of bytecode         *)
(* commands; Command::Execute runs one of them and then, if the repository *)
(* holds more than gc_threshold_ objects, a whole collection, before the   *)
(* next command starts.  Deallocating an object calls its destructor,      *)
(* which is itself bytecode: commands that run in the middle of the sweep  *)
(* (or of the final Clear), on the same stack and the same heap.  What     *)
(* makes this hard is that nesting, and it is what the model keeps: every  *)
(* bytecode command below can be a step of the program or a step of a      *)
(* destructor.                                                             *)
(*                                                                         *)
(* Abstracted: values that are not references are Null; the field layout   *)
(* of a class is the set Field (DefaultReferenceScanner's void* fields or  *)
(* ArrayReferenceScanner's elements); the order of the mark queue, of the  *)
(* children and of the unordered_set is arbitrary.                         *)
(***************************************************************************)
EXTENDS Naturals, Sequences, FiniteSets

CONSTANTS
    Obj,        \* addresses the allocator can hand out
    Null,       \* the null reference, or a value that is not a reference
    Field,      \* reference fields of an object
    Slot,       \* local variables of a stack frame
    This,       \* the slot a method receives its object in (local 0)
    Static,     \* global variables
    Threshold,  \* MemoryManager::gc_threshold_
    DtorOps,    \* the commands that the program's destructors contain
    MaxStack,   \* bound: operands on the machine stack
    MaxFrames   \* bound: frames the program pushes

ASSUME NullAssumption == Null \notin Obj
ASSUME ThisAssumption == This \in Slot
ASSUME ThresholdAssumption == Threshold \in Nat

VARIABLES
    allocated,    \* addresses obtained from allocator_ and not returned to it
    objects,      \* ObjectRepository::objects_
    fields,       \* contents of the objects
    marked,       \* objects whose badge has kMarkBit
    globals,      \* RuntimeMemory::global_variables
    frames,       \* RuntimeMemory::stack_frames, bottom first
    stack,        \* RuntimeMemory::machine_stack, bottom first
    mode,         \* what the thread is doing
    worklist,     \* Mark's queue
    toDelete,     \* the snapshot Sweep or Clear walks
    victim,       \* the object whose destructor is running, or Null
    base,         \* depth of frames and stack when that destructor was called
    gcInProgress, \* MemoryManager::gc_in_progress_
    forced,       \* the collection was started by ForceGarbageCollection
    firstError    \* Sweep's or Clear's first_error is set

heapVars == <<allocated, objects, fields>>
rootVars == <<globals, frames, stack>>
sweepVars == <<toDelete, victim, base, firstError>>
vars == <<allocated, objects, fields, marked, globals, frames, stack, mode,
          worklist, toDelete, victim, base, gcInProgress, forced, firstError>>

Ref == Obj \cup {Null}
Frame == [Slot -> Ref]
NoFields == [f \in Field |-> Null]
EmptyFrame == [l \in Slot |-> Null]
NoBase == [frames |-> 0, stack |-> 0]

(* "run": the next command of the program; "roots", "mark", "sweep": the   *)
(* phases of Collect; "down": RunProgram has returned; "clear": Clear;     *)
(* "exited"; "crashed": the process died of the program's own              *)
(* null dereference; "undefined": it used memory that the runtime had       *)
(* already released.                                                       *)
Mode == {"run", "roots", "mark", "sweep", "down", "clear",
         "exited", "crashed", "undefined"}
-----------------------------------------------------------------------------
(* Executing one command *)

InDestructor == victim # Null /\ mode \in {"sweep", "clear"}

(* A command runs in the program, or in a destructor that contains it.     *)
MayExecute(op) ==
    \/ mode = "run"
    \/ InDestructor /\ op \in DtorOps

(* Operands a command may take: compiled bodies never consume operands     *)
(* below those they were called with.                                      *)
Operands == IF victim = Null THEN Len(stack) ELSE Len(stack) - base.stack

Top == stack[Len(stack)]
Second == stack[Len(stack) - 1]
Popped(n) == SubSeq(stack, 1, Len(stack) - n)
Pushed(seq, v) == Append(seq, v)
TopFrame == frames[Len(frames)]

(* Seeded faults, here and below under names with an underscore: what a     *)
(* plausible mistake would make of the definition that follows them.        *)
AfterCommand_Late(repo) ==
    IF Cardinality(repo) > Threshold + 1 /\ ~gcInProgress
    THEN mode' = "roots" /\ gcInProgress' = TRUE
    ELSE UNCHANGED <<mode, gcInProgress>>

AfterCommand_Nested(repo) ==
    IF Cardinality(repo) > Threshold
    THEN mode' = "roots" /\ gcInProgress' = TRUE
    ELSE UNCHANGED <<mode, gcInProgress>>

(* CollectGarbageIfRequired, called by Command::Execute after every        *)
(* successful command; CollectGarbage does nothing while a collection or   *)
(* Clear is running.                                                       *)
AfterCommand(repo) ==
    IF Cardinality(repo) > Threshold /\ ~gcInProgress
    THEN mode' = "roots" /\ gcInProgress' = TRUE
    ELSE UNCHANGED <<mode, gcInProgress>>

(* Reading or writing an object whose memory was released.                 *)
UndefinedBehaviour ==
    /\ mode' = "undefined"
    /\ UNCHANGED <<heapVars, rootVars, marked, worklist, sweepVars, forced,
                   gcInProgress>>

(* AllocateObject; the new object is then the constructor's receiver, on   *)
(* the machine stack.  No address left is bad_alloc: the command fails,    *)
(* and the program with it (RunProgramReturns).                            *)
CallConstructor ==
    /\ MayExecute("CallConstructor")
    /\ Len(stack) < MaxStack
    /\ \E o \in Obj \ allocated :
        /\ allocated' = allocated \cup {o}
        /\ objects' = objects \cup {o}
        /\ fields' = [fields EXCEPT ![o] = NoFields]
        /\ marked' = marked \ {o}
        /\ stack' = Pushed(stack, o)
        /\ AfterCommand(objects \cup {o})
    /\ UNCHANGED <<globals, frames, worklist, sweepVars, forced>>

LoadLocal(l) ==
    /\ MayExecute("LoadLocal")
    /\ Len(stack) < MaxStack
    /\ stack' = Pushed(stack, TopFrame[l])
    /\ AfterCommand(objects)
    /\ UNCHANGED <<heapVars, marked, globals, frames, worklist, sweepVars, forced>>

SetLocal(l) ==
    /\ MayExecute("SetLocal")
    /\ Operands >= 1
    /\ frames' = [frames EXCEPT ![Len(frames)][l] = Top]
    /\ stack' = Popped(1)
    /\ AfterCommand(objects)
    /\ UNCHANGED <<heapVars, marked, globals, worklist, sweepVars, forced>>

LoadStatic(s) ==
    /\ MayExecute("LoadStatic")
    /\ Len(stack) < MaxStack
    /\ stack' = Pushed(stack, globals[s])
    /\ AfterCommand(objects)
    /\ UNCHANGED <<heapVars, marked, globals, frames, worklist, sweepVars, forced>>

SetStatic(s) ==
    /\ MayExecute("SetStatic")
    /\ Operands >= 1
    /\ globals' = [globals EXCEPT ![s] = Top]
    /\ stack' = Popped(1)
    /\ AfterCommand(objects)
    /\ UNCHANGED <<heapVars, marked, frames, worklist, sweepVars, forced>>

Pop ==
    /\ MayExecute("Pop")
    /\ Operands >= 1
    /\ stack' = Popped(1)
    /\ AfterCommand(objects)
    /\ UNCHANGED <<heapVars, marked, globals, frames, worklist, sweepVars, forced>>

(* GetField and SetField take the object from the top of the stack and     *)
(* dereference it (its vtable_index) without asking whether it is alive.   *)
GetField(f) ==
    /\ MayExecute("GetField")
    /\ Operands >= 1
    /\ Top # Null
    /\ IF Top \in allocated
       THEN /\ stack' = Pushed(Popped(1), fields[Top][f])
            /\ AfterCommand(objects)
            /\ UNCHANGED <<heapVars, marked, globals, frames, worklist,
                           sweepVars, forced>>
       ELSE UndefinedBehaviour

SetField(f) ==
    /\ MayExecute("SetField")
    /\ Operands >= 2
    /\ Top # Null
    /\ IF Top \in allocated
       THEN /\ fields' = [fields EXCEPT ![Top][f] = Second]
            /\ stack' = Popped(2)
            /\ AfterCommand(objects)
            /\ UNCHANGED <<allocated, objects, marked, globals, frames,
                           worklist, sweepVars, forced>>
       ELSE UndefinedBehaviour

(* Call of a method: Function::Execute moves its argument from the stack   *)
(* to local 0 of a new frame; the epilogue of Call comes after Return.     *)
Call ==
    /\ MayExecute("Call")
    /\ Operands >= 1
    /\ Len(frames) < MaxFrames
    /\ frames' = Append(frames, [EmptyFrame EXCEPT ![This] = Top])
    /\ stack' = Popped(1)
    /\ UNCHANGED <<heapVars, marked, globals, mode, worklist, sweepVars,
                   gcInProgress, forced>>

(* The callee returns, its frame is popped, and the Call command ends.     *)
Return ==
    /\ MayExecute("Return")
    /\ Len(frames) > (IF victim = Null THEN 1 ELSE base.frames + 2)
    /\ frames' = SubSeq(frames, 1, Len(frames) - 1)
    /\ AfterCommand(objects)
    /\ UNCHANGED <<heapVars, marked, globals, stack, worklist, sweepVars, forced>>

(* ForceGarbageCollection calls CollectGarbage whatever the count is; in a *)
(* destructor, that call does nothing.                                     *)
ForceGarbageCollection ==
    /\ MayExecute("ForceGarbageCollection")
    /\ IF gcInProgress
       THEN UNCHANGED <<mode, gcInProgress, forced>>
       ELSE mode' = "roots" /\ gcInProgress' = TRUE /\ forced' = TRUE
    /\ UNCHANGED <<heapVars, rootVars, marked, worklist, sweepVars>>

(* Any command of the program can fail (no memory, wrong operand type,     *)
(* division by zero ...) and main can return: every Function::Execute on   *)
(* the way pops its frame, and RunProgram returns.                         *)
RunProgramReturns ==
    /\ mode = "run"
    /\ mode' = "down"
    /\ frames' = <<>>
    /\ UNCHANGED <<heapVars, globals, stack, marked, worklist, sweepVars,
                   gcInProgress, forced>>

(* A null dereference, in the program or in a destructor.                  *)
Crash ==
    /\ MayExecute("GetField")
    /\ Operands >= 1
    /\ Top = Null
    /\ mode' = "crashed"
    /\ UNCHANGED <<heapVars, rootVars, marked, worklist, sweepVars, forced,
                   gcInProgress>>
-----------------------------------------------------------------------------
(* The collection: MarkAndSweepGC::Collect *)

GcRoots_NoStack ==
    ({globals[s] : s \in Static}
        \cup {frames[i][l] : i \in DOMAIN frames, l \in Slot}) \ {Null}

GcRoots_WithNull ==
    {globals[s] : s \in Static}
        \cup {frames[i][l] : i \in DOMAIN frames, l \in Slot}
        \cup {stack[i] : i \in DOMAIN stack}

(* AddRoots: globals, the locals of every frame, the machine stack.        *)
GcRoots ==
    ({globals[s] : s \in Static}
        \cup {frames[i][l] : i \in DOMAIN frames, l \in Slot}
        \cup {stack[i] : i \in DOMAIN stack}) \ {Null}

AddRoots ==
    /\ mode = "roots"
    /\ worklist' = GcRoots
    /\ mode' = "mark"
    /\ UNCHANGED <<heapVars, rootVars, marked, sweepVars, gcInProgress, forced>>

(* ScanReferences: the references in the fields of o.                      *)
Children(o) == {fields[o][f] : f \in Field} \ {Null}

Mark_OneLevel(o) ==
    /\ mode = "mark"
    /\ o \in worklist
    /\ marked' = marked \cup {o}
    /\ worklist' = worklist \ {o}
    /\ UNCHANGED <<heapVars, rootVars, mode, sweepVars, gcInProgress, forced>>

(* One turn of Mark's loop: the badge of o is read, and set if it was not. *)
Mark(o) ==
    /\ mode = "mark"
    /\ o \in worklist
    /\ IF o \notin allocated
       THEN UndefinedBehaviour
       ELSE /\ IF o \in marked
               THEN worklist' = worklist \ {o} /\ UNCHANGED marked
               ELSE /\ marked' = marked \cup {o}
                    /\ worklist' = (worklist \ {o}) \cup Children(o)
            /\ UNCHANGED <<heapVars, rootVars, mode, sweepVars, gcInProgress,
                           forced>>

SweepScan_KeepsBadges ==
    /\ mode = "mark"
    /\ worklist = {}
    /\ toDelete' = objects \ marked
    /\ firstError' = FALSE
    /\ mode' = "sweep"
    /\ UNCHANGED <<heapVars, rootVars, marked, worklist, victim, base,
                   gcInProgress, forced>>

SweepScan_DeletesMarked ==
    /\ mode = "mark"
    /\ worklist = {}
    /\ toDelete' = objects \cap marked
    /\ marked' = marked \ objects
    /\ firstError' = FALSE
    /\ mode' = "sweep"
    /\ UNCHANGED <<heapVars, rootVars, worklist, victim, base,
                   gcInProgress, forced>>

(* Sweep's first pass: unmarked objects are listed, all badges cleared.    *)
SweepScan ==
    /\ mode = "mark"
    /\ worklist = {}
    /\ toDelete' = objects \ marked
    /\ marked' = marked \ objects
    /\ firstError' = FALSE
    /\ mode' = "sweep"
    /\ UNCHANGED <<heapVars, rootVars, worklist, victim, base,
                   gcInProgress, forced>>

(* DeallocateObject (or Clear's loop body) up to the destructor's first    *)
(* command: a frame for the deallocation, and the destructor's own frame.  *)
BeginDestructor(o) ==
    /\ mode \in {"sweep", "clear"}
    /\ victim = Null
    /\ o \in toDelete
    /\ toDelete' = toDelete \ {o}
    /\ victim' = o
    /\ base' = [frames |-> Len(frames), stack |-> Len(stack)]
    /\ frames' = frames \o <<EmptyFrame, [EmptyFrame EXCEPT ![This] = o]>>
    /\ UNCHANGED <<heapVars, globals, stack, marked, mode, worklist, firstError,
                   gcInProgress, forced>>

Release_KeepsMemory(o) ==
    /\ objects' = objects \ {o}
    /\ UNCHANGED <<allocated, fields>>

(* repo_.Remove and allocator_.deallocate.                                 *)
Release(o) ==
    /\ objects' = objects \ {o}
    /\ allocated' = allocated \ {o}
    /\ fields' = [fields EXCEPT ![o] = NoFields]

FinishDestructor_LeavesFrame ==
    /\ InDestructor
    /\ Len(frames) = base.frames + 2
    /\ Len(stack) = base.stack
    /\ frames' = SubSeq(frames, 1, base.frames + 1)
    /\ Release(victim)
    /\ victim' = Null
    /\ base' = NoBase
    /\ UNCHANGED <<globals, stack, marked, mode, worklist, toDelete, firstError,
                   gcInProgress, forced>>

(* The destructor returned: the object leaves the repository and its       *)
(* memory goes back to the allocator.                                      *)
FinishDestructor ==
    /\ InDestructor
    /\ Len(frames) = base.frames + 2
    /\ Len(stack) = base.stack
    /\ frames' = SubSeq(frames, 1, base.frames)
    /\ Release(victim)
    /\ victim' = Null
    /\ base' = NoBase
    /\ UNCHANGED <<globals, stack, marked, mode, worklist, toDelete, firstError,
                   gcInProgress, forced>>

(* A command of the destructor failed: the object stays in the repository, *)
(* the error is kept and the walk goes on with the next object.            *)
DestructorFails ==
    /\ InDestructor
    /\ "Fail" \in DtorOps
    /\ frames' = SubSeq(frames, 1, base.frames)
    /\ victim' = Null
    /\ base' = NoBase
    /\ firstError' = TRUE
    /\ UNCHANGED <<heapVars, globals, stack, marked, mode, worklist, toDelete,
                   gcInProgress, forced>>

(* A class whose vtable maps no _destructor_<M>: DeallocateObject refuses  *)
(* the object, while Clear releases it without calling anything.           *)
MissingDestructor(o) ==
    /\ mode \in {"sweep", "clear"}
    /\ victim = Null
    /\ "Missing" \in DtorOps
    /\ o \in toDelete
    /\ toDelete' = toDelete \ {o}
    /\ IF mode = "sweep"
       THEN firstError' = TRUE /\ UNCHANGED heapVars
       ELSE Release(o) /\ UNCHANGED firstError
    /\ UNCHANGED <<rootVars, marked, mode, worklist, victim, base, gcInProgress,
                   forced>>

(* Collect returns.  An error becomes an error of the command that         *)
(* triggered it, and so of the program; after ForceGarbageCollection the   *)
(* command's own CollectGarbageIfRequired is still to come.                *)
FinishSweep ==
    /\ mode = "sweep"
    /\ toDelete = {}
    /\ victim = Null
    /\ forced' = FALSE
    /\ \/ /\ firstError
          /\ mode' = "down"
          /\ frames' = <<>>
          /\ gcInProgress' = FALSE
       \/ /\ ~firstError
          /\ forced /\ Cardinality(objects) > Threshold
          /\ mode' = "roots"
          /\ UNCHANGED <<frames, gcInProgress>>
       \/ /\ ~firstError
          /\ ~(forced /\ Cardinality(objects) > Threshold)
          /\ mode' = "run"
          /\ gcInProgress' = FALSE
          /\ UNCHANGED frames
    /\ UNCHANGED <<heapVars, globals, stack, marked, worklist, toDelete, victim,
                   base, firstError>>
-----------------------------------------------------------------------------
(* MemoryManager::Clear, called once RunProgram has returned *)

BeginClear ==
    /\ mode = "down"
    /\ gcInProgress' = TRUE
    /\ toDelete' = objects
    /\ firstError' = FALSE
    /\ mode' = "clear"
    /\ UNCHANGED <<heapVars, rootVars, marked, worklist, victim, base, forced>>

(* repo_.Clear(); after an error gc_in_progress_ stays set.                *)
FinishClear ==
    /\ mode = "clear"
    /\ toDelete = {}
    /\ victim = Null
    /\ objects' = {}
    /\ gcInProgress' = firstError
    /\ mode' = "exited"
    /\ UNCHANGED <<allocated, fields, rootVars, marked, worklist, sweepVars, forced>>
-----------------------------------------------------------------------------
Init ==
    /\ allocated = {} /\ objects = {} /\ marked = {}
    /\ fields = [o \in Obj |-> NoFields]
    /\ globals = [s \in Static |-> Null]
    /\ frames = <<EmptyFrame>>
    /\ stack = <<>>
    /\ mode = "run"
    /\ worklist = {} /\ toDelete = {}
    /\ victim = Null
    /\ base = NoBase
    /\ gcInProgress = FALSE /\ forced = FALSE /\ firstError = FALSE

Command ==
    \/ CallConstructor
    \/ \E l \in Slot : LoadLocal(l) \/ SetLocal(l)
    \/ \E s \in Static : LoadStatic(s) \/ SetStatic(s)
    \/ Pop
    \/ \E f \in Field : GetField(f) \/ SetField(f)
    \/ Call
    \/ Return
    \/ ForceGarbageCollection
    \/ RunProgramReturns
    \/ Crash

Collector ==
    \/ AddRoots
    \/ \E o \in Obj : Mark(o)
    \/ SweepScan
    \/ \E o \in Obj : BeginDestructor(o)
    \/ FinishDestructor
    \/ DestructorFails
    \/ \E o \in Obj : MissingDestructor(o)
    \/ FinishSweep
    \/ BeginClear
    \/ FinishClear

Next == Command \/ Collector

Spec == Init /\ [][Next]_vars

(* A collection is a call on the only thread: once begun, it goes on until *)
(* it returns.                                                             *)
FairSpec == Spec /\ WF_vars(Collector)
-----------------------------------------------------------------------------
(* Correctness *)

(* Type invariant.                                                         *)
TypeOK ==
    /\ objects \subseteq allocated /\ allocated \subseteq Obj
    /\ fields \in [Obj -> [Field -> Ref]]
    /\ marked \subseteq Obj
    /\ globals \in [Static -> Ref]
    /\ frames \in Seq(Frame)
    /\ stack \in Seq(Ref)
    /\ mode \in Mode
    /\ worklist \subseteq Obj
    /\ toDelete \subseteq objects
    /\ victim \in Ref
    /\ base \in [frames : Nat, stack : Nat]
    /\ gcInProgress \in BOOLEAN /\ forced \in BOOLEAN /\ firstError \in BOOLEAN

(* The program's own frames and operands, without those of a running       *)
(* destructor.                                                             *)
ProgramFrames ==
    IF victim = Null THEN frames ELSE SubSeq(frames, 1, base.frames)
ProgramStack ==
    IF victim = Null THEN stack ELSE SubSeq(stack, 1, base.stack)

ProgramState == <<globals, ProgramFrames, ProgramStack>>

(* What the program itself can name, whatever the collector looks at.      *)
ProgramRoots ==
    ({globals[s] : s \in Static}
        \cup {ProgramFrames[i][l] : i \in DOMAIN ProgramFrames, l \in Slot}
        \cup {ProgramStack[i] : i \in DOMAIN ProgramStack}) \ {Null}

Closed(S) == \A o \in S, f \in Field : fields[o][f] \in S \cup {Null}

ProgramModes == {"run", "roots", "mark", "sweep"}

(* The runtime never uses memory it has released: neither a command of the *)
(* program or of a destructor, nor the marking of a stale reference.       *)
NoUseAfterFree == mode # "undefined"

(* While the program runs, everything it can reach is allocated: no        *)
(* collection leaves it a dangling reference, in the middle of a sweep     *)
(* either.  (A destructor that failed may leave operands behind, and the   *)
(* program is then about to be ended by that error.)                       *)
NoDanglingReference ==
    mode \in ProgramModes /\ ~firstError =>
        \E S \in SUBSET allocated : ProgramRoots \subseteq S /\ Closed(S)

(* Tri-colour invariant of the mark phase: what the program holds is black *)
(* or grey, and no black object points to a white one.                     *)
TriColour ==
    mode = "mark" =>
        /\ ProgramRoots \subseteq marked \cup worklist
        /\ \A o \in marked, f \in Field :
             fields[o][f] \in marked \cup worklist \cup {Null}

(* Badges are clear outside the mark phase: a badge left over from one     *)
(* cycle would hide the object's children from the next one.               *)
NoStaleBadge == mode # "mark" => marked \cap objects = {}

(* Between two commands there are never more than Threshold objects unless *)
(* the program can still reach every one of them: no command drops a       *)
(* reference without the collection that is then due.                      *)
GarbageIsBounded ==
    mode = "run" /\ Cardinality(objects) > Threshold =>
        \A S \in SUBSET Obj :
            ProgramRoots \subseteq S /\ Closed(S) => objects \subseteq S

(* A collection that succeeds leaves no garbage at all, cycles included.   *)
CollectionIsComplete ==
    [][mode = "sweep" /\ mode' \in {"run", "roots"} =>
         \A S \in SUBSET Obj :
            ProgramRoots \subseteq S /\ Closed(S) => objects \subseteq S]_vars

(* A collection is invisible to the program: the globals, the operands and *)
(* the frames it interrupted are the same after every step of it, unless a *)
(* destructor failed, which ends the program.                              *)
CollectionIsTransparent ==
    [][(mode \in {"roots", "mark", "sweep"} /\ mode' \in ProgramModes /\ ~firstError')
          => (ProgramState' = ProgramState)]_vars

(* After a Clear without error no memory is left behind.                   *)
ClearReleasesEverything == mode = "exited" /\ ~firstError => allocated = {}

(* Every object that is unreachable when a collection starts is eventually *)
(* gone from the repository, whatever the destructors' results.            *)
GarbageIsCollected ==
    \A o \in Obj :
        (/\ mode = "roots"
         /\ o \in objects
         /\ \E S \in SUBSET Obj : ProgramRoots \subseteq S /\ Closed(S) /\ o \notin S)
        ~> o \notin objects

(* The collector implements the heap that ManagedHeap promises: it frees   *)
(* only what the program cannot reach.                                     *)
Heap == INSTANCE ManagedHeap WITH roots <- ProgramRoots,
                                  running <- mode \in ProgramModes \cup {"crashed", "undefined"}
ImplementsManagedHeap == Heap!Spec
=============================================================================
