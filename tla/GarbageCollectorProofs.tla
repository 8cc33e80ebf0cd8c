------------------------ MODULE GarbageCollectorProofs ------------------------
(***************************************************************************)
(* Theorems about GarbageCollector, for every heap, program and threshold: *)
(* its types, memory safety, what a collection does and what it leaves     *)
(* alone, and that it implements the heap of ManagedHeap.                  *)
(***************************************************************************)
EXTENDS GarbageCollector, FiniteSetTheorems, TLAPS

(* How collections nest in commands: the thread's mode determines whether  *)
(* a destructor is running, whose object it is, and how deep the program's *)
(* own frames and operands lie below it.                                   *)
Nesting ==
    /\ mode \in {"run", "roots", "mark", "sweep"} => Len(frames) >= 1
    /\ mode \in {"run", "roots", "mark"} => victim = Null /\ toDelete = {}
    /\ mode = "down" => victim = Null
    /\ mode = "run" => ~gcInProgress
    /\ mode \in {"roots", "mark", "sweep", "clear"} => gcInProgress
    /\ victim # Null =>
         /\ victim \in objects \ toDelete
         /\ base.frames + 2 <= Len(frames)
         /\ base.stack <= Len(stack)
         /\ mode = "sweep" => base.frames >= 1

TypeInv == TypeOK /\ Nesting

(* What a prefix of a sequence is.                                         *)
LEMMA PrefixFacts ==
    ASSUME NEW S, NEW s \in Seq(S), NEW n \in Nat, n <= Len(s)
    PROVE  /\ SubSeq(s, 1, n) \in Seq(S)
           /\ Len(SubSeq(s, 1, n)) = n
           /\ \A i \in 1..n : SubSeq(s, 1, n)[i] = s[i]
  OBVIOUS

LEMMA AppendFacts ==
    ASSUME NEW S, NEW s \in Seq(S), NEW e \in S
    PROVE  /\ Append(s, e) \in Seq(S)
           /\ Len(Append(s, e)) = Len(s) + 1
           /\ \A i \in 1..Len(s) : Append(s, e)[i] = s[i]
           /\ Append(s, e)[Len(s) + 1] = e
  OBVIOUS

LEMMA ConcatFacts ==
    ASSUME NEW S, NEW s \in Seq(S), NEW a \in S, NEW b \in S
    PROVE  /\ s \o <<a, b>> \in Seq(S)
           /\ Len(s \o <<a, b>>) = Len(s) + 2
           /\ \A i \in 1..Len(s) : (s \o <<a, b>>)[i] = s[i]
           /\ SubSeq(s \o <<a, b>>, 1, Len(s)) = s
  OBVIOUS

LEMMA UpdateFacts ==
    ASSUME NEW S, NEW s \in Seq(S), NEW i \in 1..Len(s), NEW e \in S
    PROVE  /\ [s EXCEPT ![i] = e] \in Seq(S)
           /\ Len([s EXCEPT ![i] = e]) = Len(s)
  OBVIOUS

LEMMA PoppedFacts ==
    ASSUME stack \in Seq(Ref), NEW n \in Nat, n <= Len(stack)
    PROVE  /\ Popped(n) \in Seq(Ref)
           /\ Len(Popped(n)) = Len(stack) - n
           /\ \A i \in 1..Len(Popped(n)) : Popped(n)[i] = stack[i]
<1>1. Len(stack) - n \in Nat /\ Len(stack) - n <= Len(stack)
  OBVIOUS
<1>. QED  BY <1>1, PrefixFacts DEF Popped

LEMMA EmptyFrameIsFrame ==
    EmptyFrame \in Frame /\ NoFields \in [Field -> Ref]
  BY DEF EmptyFrame, Frame, Ref, NoFields

LEMMA InitTypeInv == Init => TypeInv
<1> SUFFICES ASSUME Init PROVE TypeInv
  OBVIOUS
<1>1. /\ frames \in Seq(Frame) /\ Len(frames) = 1
      /\ stack \in Seq(Ref)
  BY EmptyFrameIsFrame DEF Init
<1>2. TypeOK
  BY <1>1, EmptyFrameIsFrame DEF Init, TypeOK, NoBase, Mode, Ref
<1>3. Nesting
  BY <1>1 DEF Init, Nesting
<1>. QED  BY <1>2, <1>3 DEF TypeInv
-----------------------------------------------------------------------------
(* Every command keeps the nesting, if it keeps the frames and operands    *)
(* below a running destructor.                                             *)
LEMMA CommandNesting ==
    ASSUME TypeInv, NEW op, MayExecute(op), NEW R, AfterCommand(R),
           UNCHANGED sweepVars, objects \subseteq objects',
           Len(frames') >= 1,
           victim # Null => /\ base.frames + 2 <= Len(frames')
                            /\ base.stack <= Len(stack')
    PROVE  Nesting'
<1>1. CASE mode = "run"
  <2>1. victim = Null /\ toDelete = {} /\ ~gcInProgress
    BY <1>1 DEF TypeInv, Nesting
  <2>2. \/ mode' = "roots" /\ gcInProgress'
        \/ mode' = "run" /\ ~gcInProgress'
    BY <1>1, <2>1 DEF AfterCommand
  <2>. QED  BY <2>1, <2>2 DEF Nesting, sweepVars
<1>2. CASE InDestructor
  <2>1. gcInProgress /\ mode \in {"sweep", "clear"}
    BY <1>2 DEF InDestructor, TypeInv, Nesting
  <2>2. mode' = mode /\ gcInProgress'
    BY <2>1 DEF AfterCommand
  <2>. QED  BY <1>2, <2>1, <2>2 DEF InDestructor, Nesting, TypeInv, sweepVars
<1>. QED  BY <1>1, <1>2 DEF MayExecute

LEMMA AfterCommandType ==
    ASSUME TypeOK, NEW R, AfterCommand(R)
    PROVE  mode' \in Mode /\ gcInProgress' \in BOOLEAN
  BY DEF AfterCommand, TypeOK, Mode

LEMMA UndefinedBehaviourTypeInv == TypeInv /\ UndefinedBehaviour => TypeInv'
<1> SUFFICES ASSUME TypeInv, UndefinedBehaviour PROVE TypeInv'
  OBVIOUS
<1> USE DEF UndefinedBehaviour, heapVars, rootVars, sweepVars
<1>1. TypeOK'
  BY DEF TypeInv, TypeOK, Mode
<1>2. Nesting'
  BY DEF TypeInv, Nesting
<1>. QED  BY <1>1, <1>2 DEF TypeInv

(* What a command finds when it runs.                                      *)
LEMMA CommandContext ==
    ASSUME TypeInv, NEW op, MayExecute(op)
    PROVE  /\ Len(frames) \in Nat /\ Len(frames) >= 1
           /\ Len(stack) \in Nat
           /\ TopFrame \in Frame
           /\ victim # Null => base.stack \in Nat /\ base.frames \in Nat
           /\ victim # Null => base.stack <= Len(stack)
           /\ victim # Null => base.frames + 2 <= Len(frames)
           /\ Operands >= 1 => Len(stack) >= 1 /\ Top \in Ref
           /\ Operands >= 2 => Len(stack) >= 2 /\ Second \in Ref
           /\ Operands >= 1 /\ victim # Null => base.stack + 1 <= Len(stack)
           /\ Operands >= 2 /\ victim # Null => base.stack + 2 <= Len(stack)
<1>1. /\ stack \in Seq(Ref) /\ frames \in Seq(Frame)
      /\ base \in [frames : Nat, stack : Nat]
  BY DEF TypeInv, TypeOK
<1>2. Len(frames) \in Nat /\ Len(frames) >= 1
  BY <1>1 DEF MayExecute, InDestructor, TypeInv, Nesting
<1>3. TopFrame \in Frame
  BY <1>1, <1>2 DEF TopFrame
<1>4. victim # Null => /\ base.stack <= Len(stack)
                       /\ base.frames + 2 <= Len(frames)
  BY DEF TypeInv, Nesting
<1>5. Operands >= 1 => Len(stack) >= 1 /\ Top \in Ref
  BY <1>1 DEF Operands, Top
<1>6. Operands >= 2 => Len(stack) >= 2 /\ Second \in Ref
  BY <1>1 DEF Operands, Second
<1>. QED  BY <1>1, <1>2, <1>3, <1>4, <1>5, <1>6 DEF Operands

LEMMA CallConstructorTypeInv == TypeInv /\ CallConstructor => TypeInv'
<1> SUFFICES ASSUME TypeInv, CallConstructor PROVE TypeInv'
  OBVIOUS
<1>1. PICK o \in Obj \ allocated :
        /\ allocated' = allocated \cup {o}
        /\ objects' = objects \cup {o}
        /\ fields' = [fields EXCEPT ![o] = NoFields]
        /\ marked' = marked \ {o}
        /\ stack' = Append(stack, o)
        /\ AfterCommand(objects \cup {o})
  BY DEF CallConstructor, Pushed
<1>2. MayExecute("CallConstructor") /\ UNCHANGED <<globals, frames, worklist, sweepVars, forced>>
  BY DEF CallConstructor
<1>3. stack' \in Seq(Ref) /\ Len(stack') = Len(stack) + 1
  BY <1>1, AppendFacts DEF TypeInv, TypeOK, Ref
<1>4. TypeOK'
  BY <1>1, <1>2, <1>3, AfterCommandType, EmptyFrameIsFrame
     DEF TypeInv, TypeOK, sweepVars
<1>5. Nesting'
  BY <1>1, <1>2, <1>3, CommandContext, CommandNesting
<1>. QED  BY <1>4, <1>5 DEF TypeInv

(* The commands that leave the repository alone.                           *)
LEMMA PlainCommandTypeInv ==
    ASSUME TypeInv, NEW op, MayExecute(op), AfterCommand(objects),
           UNCHANGED <<allocated, objects, marked, worklist, sweepVars, forced>>,
           fields' \in [Obj -> [Field -> Ref]],
           globals' \in [Static -> Ref],
           frames' \in Seq(Frame),
           stack' \in Seq(Ref),
           Len(frames') >= 1,
           victim # Null => /\ base.frames + 2 <= Len(frames')
                            /\ base.stack <= Len(stack')
    PROVE  TypeInv'
<1>1. TypeOK'
  BY AfterCommandType DEF TypeInv, TypeOK, sweepVars
<1>2. Nesting'
  BY CommandNesting
<1>. QED  BY <1>1, <1>2 DEF TypeInv

LEMMA LoadLocalTypeInv ==
    ASSUME NEW l \in Slot PROVE TypeInv /\ LoadLocal(l) => TypeInv'
<1> SUFFICES ASSUME TypeInv, LoadLocal(l) PROVE TypeInv'
  OBVIOUS
<1>1. TopFrame[l] \in Ref
  BY CommandContext DEF LoadLocal, Frame
<1>2. stack' \in Seq(Ref) /\ Len(stack') = Len(stack) + 1
  BY <1>1, AppendFacts DEF LoadLocal, Pushed, TypeInv, TypeOK
<1>. QED
  BY <1>2, CommandContext, PlainCommandTypeInv
     DEF LoadLocal, heapVars, TypeInv, TypeOK

LEMMA SetLocalTypeInv ==
    ASSUME NEW l \in Slot PROVE TypeInv /\ SetLocal(l) => TypeInv'
<1> SUFFICES ASSUME TypeInv, SetLocal(l) PROVE TypeInv'
  OBVIOUS
<1>1. Top \in Ref /\ Len(stack) >= 1
  BY CommandContext DEF SetLocal
<1>2. stack' \in Seq(Ref) /\ Len(stack') = Len(stack) - 1
  BY <1>1, PoppedFacts DEF SetLocal, TypeInv, TypeOK
<1>3. frames' \in Seq(Frame) /\ Len(frames') = Len(frames)
  <2>1. [TopFrame EXCEPT ![l] = Top] \in Frame
    BY <1>1, CommandContext DEF SetLocal, Frame
  <2>2. frames' = [frames EXCEPT ![Len(frames)] = [TopFrame EXCEPT ![l] = Top]]
    BY DEF SetLocal, TopFrame
  <2>3. Len(frames) \in 1..Len(frames) /\ frames \in Seq(Frame)
    BY CommandContext DEF SetLocal, TypeInv, TypeOK
  <2>. QED  BY <2>1, <2>2, <2>3, UpdateFacts
<1>4. MayExecute("SetLocal") /\ Operands >= 1 /\ AfterCommand(objects)
  BY DEF SetLocal
<1>5. Len(frames') >= 1
  BY <1>3, <1>4, CommandContext
<1>6. victim # Null => /\ base.frames + 2 <= Len(frames')
                       /\ base.stack <= Len(stack')
  BY <1>2, <1>3, <1>4, CommandContext
<1>. QED
  BY <1>2, <1>3, <1>4, <1>5, <1>6, PlainCommandTypeInv
     DEF SetLocal, heapVars, TypeInv, TypeOK

LEMMA LoadStaticTypeInv ==
    ASSUME NEW s \in Static PROVE TypeInv /\ LoadStatic(s) => TypeInv'
<1> SUFFICES ASSUME TypeInv, LoadStatic(s) PROVE TypeInv'
  OBVIOUS
<1>1. stack' \in Seq(Ref) /\ Len(stack') = Len(stack) + 1
  BY AppendFacts DEF LoadStatic, Pushed, TypeInv, TypeOK
<1>. QED
  BY <1>1, CommandContext, PlainCommandTypeInv
     DEF LoadStatic, heapVars, TypeInv, TypeOK

LEMMA SetStaticTypeInv ==
    ASSUME NEW s \in Static PROVE TypeInv /\ SetStatic(s) => TypeInv'
<1> SUFFICES ASSUME TypeInv, SetStatic(s) PROVE TypeInv'
  OBVIOUS
<1>1. Top \in Ref /\ Len(stack) >= 1
  BY CommandContext DEF SetStatic
<1>2. stack' \in Seq(Ref) /\ Len(stack') = Len(stack) - 1
  BY <1>1, PoppedFacts DEF SetStatic, TypeInv, TypeOK
<1>3. globals' \in [Static -> Ref]
  BY <1>1 DEF SetStatic, TypeInv, TypeOK
<1>. QED
  BY <1>2, <1>3, CommandContext, PlainCommandTypeInv
     DEF SetStatic, heapVars, TypeInv, TypeOK

LEMMA PopTypeInv == TypeInv /\ Pop => TypeInv'
<1> SUFFICES ASSUME TypeInv, Pop PROVE TypeInv'
  OBVIOUS
<1>1. stack' \in Seq(Ref) /\ Len(stack') = Len(stack) - 1
  BY CommandContext, PoppedFacts DEF Pop, TypeInv, TypeOK
<1>. QED
  BY <1>1, CommandContext, PlainCommandTypeInv
     DEF Pop, heapVars, TypeInv, TypeOK

LEMMA GetFieldTypeInv ==
    ASSUME NEW f \in Field PROVE TypeInv /\ GetField(f) => TypeInv'
<1> SUFFICES ASSUME TypeInv, GetField(f) PROVE TypeInv'
  OBVIOUS
<1>1. CASE Top \notin allocated
  BY <1>1, UndefinedBehaviourTypeInv DEF GetField
<1>2. CASE Top \in allocated
  <2>1. MayExecute("GetField") /\ Operands >= 1 /\ AfterCommand(objects)
    BY <1>2 DEF GetField
  <2>2. stack' = Append(Popped(1), fields[Top][f]) /\ fields[Top][f] \in Ref
    BY <1>2 DEF GetField, Pushed, TypeInv, TypeOK
  <2>3. Popped(1) \in Seq(Ref) /\ Len(Popped(1)) = Len(stack) - 1
    BY <2>1, CommandContext, PoppedFacts DEF TypeInv, TypeOK
  <2>4. stack' \in Seq(Ref) /\ Len(stack') = Len(stack)
    BY <2>1, <2>2, <2>3, AppendFacts, CommandContext
  <2>5. UNCHANGED <<heapVars, marked, globals, frames, worklist, sweepVars, forced>>
    BY <1>2 DEF GetField
  <2>. QED
    BY <2>1, <2>4, <2>5, CommandContext, PlainCommandTypeInv
       DEF heapVars, TypeInv, TypeOK
<1>. QED  BY <1>1, <1>2

LEMMA SetFieldTypeInv ==
    ASSUME NEW f \in Field PROVE TypeInv /\ SetField(f) => TypeInv'
<1> SUFFICES ASSUME TypeInv, SetField(f) PROVE TypeInv'
  OBVIOUS
<1>1. CASE Top \notin allocated
  BY <1>1, UndefinedBehaviourTypeInv DEF SetField
<1>2. CASE Top \in allocated
  <2>1. MayExecute("SetField") /\ Operands >= 2 /\ AfterCommand(objects)
    BY <1>2 DEF SetField
  <2>2. Second \in Ref /\ Len(stack) >= 2
    BY <2>1, CommandContext
  <2>3. stack' \in Seq(Ref) /\ Len(stack') = Len(stack) - 2
    BY <1>2, <2>2, PoppedFacts DEF SetField, TypeInv, TypeOK
  <2>4. fields' \in [Obj -> [Field -> Ref]]
    <3>1. fields' = [fields EXCEPT ![Top] = [fields[Top] EXCEPT ![f] = Second]]
      BY <1>2 DEF SetField
    <3>2. fields \in [Obj -> [Field -> Ref]] /\ Top \in Obj
      BY <1>2 DEF TypeInv, TypeOK
    <3>3. [fields[Top] EXCEPT ![f] = Second] \in [Field -> Ref]
      BY <2>2, <3>2
    <3>. QED  BY <3>1, <3>2, <3>3
  <2>5. UNCHANGED <<allocated, objects, marked, globals, frames, worklist,
                    sweepVars, forced>>
    BY <1>2 DEF SetField
  <2>. QED
    BY <2>1, <2>3, <2>4, <2>5, CommandContext, PlainCommandTypeInv
       DEF TypeInv, TypeOK
<1>. QED  BY <1>1, <1>2

LEMMA CallTypeInv == TypeInv /\ Call => TypeInv'
<1> SUFFICES ASSUME TypeInv, Call PROVE TypeInv'
  OBVIOUS
<1>1. MayExecute("Call") /\ Operands >= 1
  BY DEF Call
<1>2. [EmptyFrame EXCEPT ![This] = Top] \in Frame
  BY <1>1, CommandContext, EmptyFrameIsFrame DEF Frame
<1>3. frames' \in Seq(Frame) /\ Len(frames') = Len(frames) + 1
  BY <1>2, AppendFacts DEF Call, TypeInv, TypeOK
<1>4. stack' \in Seq(Ref) /\ Len(stack') = Len(stack) - 1
  BY <1>1, CommandContext, PoppedFacts DEF Call, TypeInv, TypeOK
<1>5. UNCHANGED <<heapVars, marked, globals, mode, worklist, sweepVars,
                  gcInProgress, forced>>
  BY DEF Call
<1>6. TypeOK'
  BY <1>3, <1>4, <1>5 DEF TypeInv, TypeOK, heapVars, sweepVars
<1>7. Nesting'
  BY <1>1, <1>3, <1>4, <1>5, CommandContext
     DEF TypeInv, Nesting, heapVars, sweepVars
<1>. QED  BY <1>6, <1>7 DEF TypeInv

LEMMA ReturnTypeInv == TypeInv /\ Return => TypeInv'
<1> SUFFICES ASSUME TypeInv, Return PROVE TypeInv'
  OBVIOUS
<1>1. MayExecute("Return") /\ AfterCommand(objects)
  BY DEF Return
<1>2. /\ Len(frames) - 1 \in Nat /\ Len(frames) - 1 <= Len(frames)
      /\ Len(frames) - 1 >= 1
      /\ victim # Null => base.frames + 2 <= Len(frames) - 1
  BY <1>1, CommandContext DEF Return
<1>3. frames' \in Seq(Frame) /\ Len(frames') = Len(frames) - 1
  BY <1>2, PrefixFacts DEF Return, TypeInv, TypeOK
<1>4. UNCHANGED <<heapVars, marked, globals, stack, worklist, sweepVars, forced>>
  BY DEF Return
<1>. QED
  BY <1>1, <1>2, <1>3, <1>4, CommandContext, PlainCommandTypeInv
     DEF heapVars, TypeInv, TypeOK

LEMMA OtherCommandTypeInv ==
    TypeInv /\ (ForceGarbageCollection \/ RunProgramReturns \/ Crash) => TypeInv'
<1> USE DEF heapVars, rootVars, sweepVars
<1>1. ASSUME TypeInv, ForceGarbageCollection PROVE TypeInv'
  <2>1. CASE mode = "run"
    <3>1. Len(frames) >= 1 /\ victim = Null /\ toDelete = {}
      BY <1>1, <2>1 DEF TypeInv, Nesting
    <3>2. TypeOK'
      BY <1>1 DEF ForceGarbageCollection, TypeInv, TypeOK, Mode
    <3>3. Nesting'
      BY <1>1, <2>1, <3>1 DEF ForceGarbageCollection, TypeInv, Nesting
    <3>. QED  BY <3>2, <3>3 DEF TypeInv
  <2>2. CASE InDestructor
    BY <1>1, <2>2
       DEF ForceGarbageCollection, InDestructor, TypeInv, TypeOK, Nesting
  <2>. QED  BY <1>1, <2>1, <2>2 DEF ForceGarbageCollection, MayExecute
<1>2. ASSUME TypeInv, RunProgramReturns PROVE TypeInv'
  BY <1>2 DEF RunProgramReturns, TypeInv, TypeOK, Nesting, Mode
<1>3. ASSUME TypeInv, Crash PROVE TypeInv'
  BY <1>3 DEF Crash, TypeInv, TypeOK, Nesting, Mode
<1>. QED  BY <1>1, <1>2, <1>3

LEMMA CommandTypeInv == TypeInv /\ Command => TypeInv'
  BY CallConstructorTypeInv, LoadLocalTypeInv, SetLocalTypeInv,
     LoadStaticTypeInv, SetStaticTypeInv, PopTypeInv, GetFieldTypeInv,
     SetFieldTypeInv, CallTypeInv, ReturnTypeInv, OtherCommandTypeInv
     DEF Command
-----------------------------------------------------------------------------
LEMMA MarkTypeInv ==
    ASSUME NEW o \in Obj PROVE TypeInv /\ Mark(o) => TypeInv'
<1> SUFFICES ASSUME TypeInv, Mark(o) PROVE TypeInv'
  OBVIOUS
<1>1. CASE o \notin allocated
  BY <1>1, UndefinedBehaviourTypeInv DEF Mark
<1>2. CASE o \in allocated
  <2>1. Children(o) \subseteq Obj
    BY DEF Children, TypeInv, TypeOK, Ref
  <2>2. TypeOK'
    BY <1>2, <2>1 DEF Mark, TypeInv, TypeOK, heapVars, rootVars, sweepVars
  <2>3. Nesting'
    BY <1>2 DEF Mark, TypeInv, Nesting, heapVars, rootVars, sweepVars
  <2>. QED  BY <2>2, <2>3 DEF TypeInv
<1>. QED  BY <1>1, <1>2

LEMMA GcRootsType == TypeOK => GcRoots \subseteq Obj
  BY DEF TypeOK, GcRoots, Frame, Ref

LEMMA BeginDestructorTypeInv ==
    ASSUME NEW o \in Obj PROVE TypeInv /\ BeginDestructor(o) => TypeInv'
<1> SUFFICES ASSUME TypeInv, BeginDestructor(o) PROVE TypeInv'
  OBVIOUS
<1>1. EmptyFrame \in Frame /\ [EmptyFrame EXCEPT ![This] = o] \in Frame
  BY EmptyFrameIsFrame DEF Frame, Ref
<1>2. /\ frames' \in Seq(Frame) /\ Len(frames') = Len(frames) + 2
      /\ Len(frames) \in Nat /\ Len(stack) \in Nat
  BY <1>1, ConcatFacts DEF BeginDestructor, TypeInv, TypeOK
<1>3. TypeOK'
  BY <1>2 DEF BeginDestructor, TypeInv, TypeOK, heapVars, Ref
<1>4. Nesting'
  BY <1>2 DEF BeginDestructor, TypeInv, TypeOK, Nesting, heapVars
<1>. QED  BY <1>3, <1>4 DEF TypeInv

(* The frames left when a destructor is over.                              *)
LEMMA DestructorOver ==
    ASSUME TypeInv, InDestructor, frames' = SubSeq(frames, 1, base.frames)
    PROVE  /\ frames' \in Seq(Frame)
           /\ mode = "sweep" => Len(frames') >= 1
           /\ NoBase \in [frames : Nat, stack : Nat]
<1>1. base.frames \in Nat /\ base.frames <= Len(frames) /\ frames \in Seq(Frame)
  BY DEF InDestructor, TypeInv, TypeOK, Nesting
<1>. QED
  BY <1>1, PrefixFacts DEF InDestructor, TypeInv, Nesting, NoBase

LEMMA FinishDestructorTypeInv == TypeInv /\ FinishDestructor => TypeInv'
<1> SUFFICES ASSUME TypeInv, FinishDestructor PROVE TypeInv'
  OBVIOUS
<1>1. InDestructor /\ frames' = SubSeq(frames, 1, base.frames)
  BY DEF FinishDestructor
<1>2. victim \in objects \ toDelete
  BY <1>1 DEF InDestructor, TypeInv, Nesting
<1>3. TypeOK'
  BY <1>1, <1>2, DestructorOver, EmptyFrameIsFrame
     DEF FinishDestructor, Release, TypeInv, TypeOK, Ref
<1>4. Nesting'
  BY <1>1, DestructorOver DEF FinishDestructor, InDestructor, TypeInv, Nesting
<1>. QED  BY <1>3, <1>4 DEF TypeInv

LEMMA DestructorFailsTypeInv == TypeInv /\ DestructorFails => TypeInv'
<1> SUFFICES ASSUME TypeInv, DestructorFails PROVE TypeInv'
  OBVIOUS
<1>1. InDestructor /\ frames' = SubSeq(frames, 1, base.frames)
  BY DEF DestructorFails
<1>2. TypeOK'
  BY <1>1, DestructorOver DEF DestructorFails, TypeInv, TypeOK, Ref, heapVars
<1>3. Nesting'
  BY <1>1, DestructorOver
     DEF DestructorFails, InDestructor, TypeInv, Nesting, heapVars
<1>. QED  BY <1>2, <1>3 DEF TypeInv

LEMMA MissingDestructorTypeInv ==
    ASSUME NEW o \in Obj PROVE TypeInv /\ MissingDestructor(o) => TypeInv'
<1> SUFFICES ASSUME TypeInv, MissingDestructor(o) PROVE TypeInv'
  OBVIOUS
<1>1. TypeOK'
  BY EmptyFrameIsFrame
     DEF MissingDestructor, Release, TypeInv, TypeOK, heapVars, rootVars
<1>2. Nesting'
  BY DEF MissingDestructor, TypeInv, TypeOK, Nesting, rootVars
<1>. QED  BY <1>1, <1>2 DEF TypeInv

LEMMA CollectorTypeInv == TypeInv /\ Collector => TypeInv'
<1> SUFFICES ASSUME TypeInv, Collector PROVE TypeInv'
  OBVIOUS
<1> USE DEF heapVars, rootVars, sweepVars
<1>1. CASE AddRoots
  BY <1>1, GcRootsType DEF AddRoots, TypeInv, TypeOK, Nesting, Mode
<1>2. CASE SweepScan
  BY <1>2 DEF SweepScan, TypeInv, TypeOK, Nesting, Mode
<1>3. CASE FinishSweep
  <2>1. \/ frames' = <<>> /\ mode' = "down" /\ ~gcInProgress'
        \/ frames' = frames /\ mode' = "roots" /\ UNCHANGED gcInProgress
        \/ frames' = frames /\ mode' = "run" /\ ~gcInProgress'
    BY <1>3 DEF FinishSweep
  <2>4. frames' \in Seq(Frame) /\ (mode' # "down" => frames' = frames)
    <3>1. <<>> \in Seq(Frame) /\ frames \in Seq(Frame)
      BY DEF TypeInv, TypeOK
    <3>. QED  BY ONLY <2>1, <3>1
  <2>2. TypeOK'
    BY <1>3, <2>1, <2>4 DEF FinishSweep, TypeInv, TypeOK, Mode
  <2>3. Nesting'
    BY <1>3, <2>1 DEF FinishSweep, TypeInv, Nesting
  <2>. QED  BY <2>2, <2>3 DEF TypeInv
<1>4. CASE BeginClear
  <2>1. TypeOK'
    BY <1>4 DEF BeginClear, TypeInv, TypeOK, Mode
  <2>2. Nesting'
    BY <1>4 DEF BeginClear, TypeInv, Nesting
  <2>. QED  BY <2>1, <2>2 DEF TypeInv
<1>5. CASE FinishClear
  BY <1>5 DEF FinishClear, TypeInv, TypeOK, Nesting, Mode
<1>. QED
  BY <1>1, <1>2, <1>3, <1>4, <1>5, MarkTypeInv, BeginDestructorTypeInv,
     FinishDestructorTypeInv, DestructorFailsTypeInv, MissingDestructorTypeInv
     DEF Collector

LEMMA NextTypeInv == TypeInv /\ [Next]_vars => TypeInv'
<1>1. CASE UNCHANGED vars
  BY <1>1 DEF vars, TypeInv, TypeOK, Nesting
<1>. QED  BY <1>1, CommandTypeInv, CollectorTypeInv DEF Next

LEMMA AlwaysTypeInv == Spec => []TypeInv
  BY InitTypeInv, NextTypeInv, PTL DEF Spec

(* Every variable keeps its type, whatever the program's destructors do.   *)
THEOREM TypeCorrect == Spec => []TypeOK
  BY AlwaysTypeInv, PTL DEF TypeInv
-----------------------------------------------------------------------------
(* Memory safety, when destructors neither read or write fields nor        *)
(* publish references in globals.  Run GcDtorReads shows that destructors  *)
(* must not read fields.                                                   *)

(* Destructors may allocate, copy references between their own locals and  *)
(* operands, call, fail or be missing.                                     *)
DiscreetDestructors ==
    DtorOps \cap {"GetField", "SetField", "SetStatic"} = {}

Condemned == toDelete \cup {victim}

(* The program reaches only objects that are not about to be deleted.      *)
RootsAlive ==
    mode \in {"run", "roots", "mark"} \/ (mode = "sweep" /\ ~firstError) =>
        \E S \in SUBSET (allocated \ Condemned) :
            ProgramRoots \subseteq S /\ Closed(S)

(* Only reachable objects are grey or black.                               *)
MarksReachable ==
    mode = "mark" =>
        \A S \in SUBSET Obj :
            ProgramRoots \subseteq S /\ Closed(S) => marked \cup worklist \subseteq S

SafetyInv ==
    /\ NoUseAfterFree
    /\ mode # "exited" => objects = allocated
    /\ mode # "mark" => marked = {}
    /\ RootsAlive
    /\ TriColour
    /\ MarksReachable

LEMMA PrefixAgreement ==
    ASSUME NEW S, NEW s \in Seq(S), NEW t \in Seq(S), NEW n \in Nat,
           n <= Len(s), n <= Len(t), \A i \in 1..n : s[i] = t[i]
    PROVE  SubSeq(s, 1, n) = SubSeq(t, 1, n)
  OBVIOUS

LEMMA WholeSequence ==
    ASSUME NEW S, NEW s \in Seq(S)
    PROVE  SubSeq(s, 1, Len(s)) = s
  OBVIOUS

(* The values the program holds, when no destructor is running.            *)
LEMMA HeldValues ==
    ASSUME TypeInv, victim = Null, NEW S, ProgramRoots \subseteq S
    PROVE  /\ \A s \in Static : globals[s] \in S \cup {Null}
           /\ \A i \in 1..Len(frames), l \in Slot : frames[i][l] \in S \cup {Null}
           /\ \A i \in 1..Len(stack) : stack[i] \in S \cup {Null}
<1>1. DOMAIN frames = 1..Len(frames) /\ DOMAIN stack = 1..Len(stack)
  BY DEF TypeInv, TypeOK
<1>. QED  BY <1>1 DEF ProgramRoots, ProgramFrames, ProgramStack

LEMMA RootsFromValues ==
    ASSUME TypeInv', victim' = Null, NEW S,
           \A s \in Static : globals'[s] \in S \cup {Null},
           \A i \in 1..Len(frames'), l \in Slot : frames'[i][l] \in S \cup {Null},
           \A i \in 1..Len(stack') : stack'[i] \in S \cup {Null}
    PROVE  ProgramRoots' \subseteq S
<1>1. DOMAIN frames' = 1..Len(frames') /\ DOMAIN stack' = 1..Len(stack')
  BY DEF TypeInv, TypeOK
<1>. QED  BY <1>1 DEF ProgramRoots, ProgramFrames, ProgramStack
-----------------------------------------------------------------------------
(* A command of the program is safe if what it leaves in the variables, on *)
(* the stack and in the fields lies in a set of allocated objects.         *)
LEMMA ProgramCommandSafe ==
    ASSUME TypeInv, TypeInv', SafetyInv, mode = "run",
           mode' \in {"run", "roots"}, UNCHANGED sweepVars,
           objects' = allocated', marked' = {},
           NEW S \in SUBSET allocated',
           \A s \in Static : globals'[s] \in S \cup {Null},
           \A i \in 1..Len(frames'), l \in Slot : frames'[i][l] \in S \cup {Null},
           \A i \in 1..Len(stack') : stack'[i] \in S \cup {Null},
           Closed(S)'
    PROVE  SafetyInv'
<1>1. victim' = Null /\ toDelete' = {}
  BY DEF TypeInv, Nesting, sweepVars
<1>2. ProgramRoots' \subseteq S
  BY <1>1, RootsFromValues
<1>3. S \subseteq (allocated \ Condemned)'
  BY <1>1, NullAssumption DEF Condemned, TypeInv, TypeOK
<1>4. RootsAlive'
  BY <1>2, <1>3 DEF RootsAlive
<1>. QED  BY <1>4 DEF SafetyInv, NoUseAfterFree, TriColour, MarksReachable

(* A command of a destructor is safe if it touches neither the globals nor *)
(* the fields, and nothing below the destructor's frames and operands.     *)
LEMMA DestructorCommandSafe ==
    ASSUME TypeInv, TypeInv', SafetyInv, InDestructor,
           mode' = mode, UNCHANGED sweepVars, UNCHANGED globals,
           allocated \subseteq allocated', objects' = allocated', marked' = {},
           \A o \in allocated : fields'[o] = fields[o],
           \A i \in 1..base.frames : frames'[i] = frames[i],
           \A i \in 1..base.stack : stack'[i] = stack[i]
    PROVE  SafetyInv'
<1>1. victim' = victim /\ base' = base /\ victim # Null /\ UNCHANGED toDelete
  BY DEF InDestructor, sweepVars
<1>2. /\ base.frames \in Nat /\ base.stack \in Nat
      /\ frames \in Seq(Frame) /\ frames' \in Seq(Frame)
      /\ stack \in Seq(Ref) /\ stack' \in Seq(Ref)
      /\ base.frames <= Len(frames) /\ base.stack <= Len(stack)
      /\ base.frames <= Len(frames') /\ base.stack <= Len(stack')
  BY <1>1 DEF TypeInv, TypeOK, Nesting
<1>3. ProgramFrames' = ProgramFrames /\ ProgramStack' = ProgramStack
  BY <1>1, <1>2, PrefixAgreement DEF ProgramFrames, ProgramStack
<1>4. ProgramRoots' = ProgramRoots
  BY <1>3 DEF ProgramRoots
<1>5. RootsAlive'
  BY <1>1, <1>4 DEF RootsAlive, SafetyInv, Condemned, sweepVars, Closed
<1>. QED
  BY <1>5 DEF SafetyInv, InDestructor, NoUseAfterFree, TriColour, MarksReachable

(* Outside the mark phase and the exit, the repository is the heap.        *)
LEMMA CommandRepository ==
    ASSUME TypeInv, SafetyInv, NEW op, MayExecute(op)
    PROVE  /\ objects = allocated /\ marked = {}
           /\ InDestructor => op \in DtorOps /\ gcInProgress
           /\ ~InDestructor => mode = "run" /\ victim = Null /\ toDelete = {}
           /\ \A R : AfterCommand(R) =>
                /\ InDestructor => mode' = mode
                /\ ~InDestructor => mode' \in {"run", "roots"}
<1>1. objects = allocated /\ marked = {}
  BY DEF MayExecute, InDestructor, SafetyInv
<1>2. InDestructor => op \in DtorOps /\ gcInProgress
  BY DEF MayExecute, InDestructor, TypeInv, Nesting
<1>3. ~InDestructor => mode = "run" /\ victim = Null /\ toDelete = {}
  BY DEF MayExecute, InDestructor, TypeInv, Nesting
<1>. QED  BY <1>1, <1>2, <1>3 DEF AfterCommand

(* A command that moves references between variables and operands, neither *)
(* allocating nor storing into the heap.                                   *)
LEMMA MoveSafe ==
    ASSUME TypeInv, TypeInv', SafetyInv, NEW op, MayExecute(op),
           mode' = mode \/ AfterCommand(objects),
           UNCHANGED <<heapVars, marked, sweepVars>>,
           InDestructor => UNCHANGED globals,
           ~InDestructor =>
             \A S \in SUBSET allocated :
               ProgramRoots \subseteq S /\ Closed(S) =>
                 /\ \A s \in Static : globals'[s] \in S \cup {Null}
                 /\ \A i \in 1..Len(frames'), l \in Slot : frames'[i][l] \in S \cup {Null}
                 /\ \A i \in 1..Len(stack') : stack'[i] \in S \cup {Null},
           InDestructor =>
             /\ \A i \in 1..base.frames : frames'[i] = frames[i]
             /\ \A i \in 1..base.stack : stack'[i] = stack[i]
    PROVE  SafetyInv'
<1>1. /\ objects' = allocated' /\ marked' = {} /\ allocated' = allocated
      /\ UNCHANGED fields /\ UNCHANGED sweepVars
  BY CommandRepository DEF heapVars
<1>2. CASE InDestructor
  BY <1>1, <1>2, CommandRepository, DestructorCommandSafe
<1>3. CASE ~InDestructor
  <2>1. mode = "run" /\ mode' \in {"run", "roots"}
    BY <1>3, CommandRepository
  <2>2. PICK S \in SUBSET allocated : ProgramRoots \subseteq S /\ Closed(S)
    BY <2>1 DEF SafetyInv, RootsAlive
  <2>3. Closed(S)' /\ S \in SUBSET allocated'
    BY <1>1, <2>2 DEF Closed
  <2>4. /\ \A s \in Static : globals'[s] \in S \cup {Null}
        /\ \A i \in 1..Len(frames'), l \in Slot : frames'[i][l] \in S \cup {Null}
        /\ \A i \in 1..Len(stack') : stack'[i] \in S \cup {Null}
    BY <1>3, <2>2
  <2>. QED  BY <1>1, <2>1, <2>3, <2>4, ProgramCommandSafe
<1>. QED  BY <1>2, <1>3

(* The step's hypotheses, for the commands below.                          *)
CommandStep(op) ==
    /\ TypeInv /\ TypeInv' /\ SafetyInv /\ DiscreetDestructors
    /\ MayExecute(op)

(* A command of a destructor pushes and pops above the operands it found.  *)
LEMMA PushSafe ==
    ASSUME NEW op, CommandStep(op), AfterCommand(objects), NEW v,
           stack' = Append(stack, v),
           UNCHANGED <<heapVars, marked, globals, frames, sweepVars>>,
           ~InDestructor =>
             \A S : ProgramRoots \subseteq S => v \in S \cup {Null}
    PROVE  SafetyInv'
<1>1. /\ stack \in Seq(Ref) /\ Len(stack) \in Nat
      /\ Len(stack') = Len(stack) + 1
      /\ stack'[Len(stack) + 1] = v
      /\ \A i \in 1..Len(stack) : stack'[i] = stack[i]
  BY DEF CommandStep, TypeInv, TypeOK
<1>2. ASSUME InDestructor PROVE \A i \in 1..base.stack : stack'[i] = stack[i]
  BY <1>1, <1>2, CommandContext DEF CommandStep, InDestructor
<1>3. ASSUME ~InDestructor, NEW S \in SUBSET allocated, ProgramRoots \subseteq S
      PROVE  /\ \A s \in Static : globals'[s] \in S \cup {Null}
             /\ \A i \in 1..Len(frames'), l \in Slot : frames'[i][l] \in S \cup {Null}
             /\ \A i \in 1..Len(stack') : stack'[i] \in S \cup {Null}
  <2>1. victim = Null
    BY <1>3, CommandRepository DEF CommandStep
  <2>2. \A i \in 1..Len(stack') : i \in 1..Len(stack) \/ i = Len(stack) + 1
    BY <1>1
  <2>. QED  BY <1>1, <1>3, <2>1, <2>2, HeldValues DEF CommandStep
<1>. QED  BY <1>2, <1>3, MoveSafe DEF CommandStep

LEMMA LoadLocalSafe ==
    ASSUME NEW l \in Slot, TypeInv, TypeInv', SafetyInv, DiscreetDestructors,
           LoadLocal(l)
    PROVE  SafetyInv'
<1>1. CommandStep("LoadLocal") /\ AfterCommand(objects)
  BY DEF LoadLocal, CommandStep
<1>2. Len(frames) \in 1..Len(frames)
  BY CommandContext DEF LoadLocal
<1>3. ASSUME ~InDestructor, NEW S, ProgramRoots \subseteq S
      PROVE  TopFrame[l] \in S \cup {Null}
  <2>1. victim = Null
    BY <1>1, <1>3, CommandRepository DEF CommandStep
  <2>. QED  BY <1>2, <1>3, <2>1, HeldValues DEF TopFrame
<1>. QED  BY <1>1, <1>3, PushSafe DEF LoadLocal, Pushed

LEMMA LoadStaticSafe ==
    ASSUME NEW s \in Static, TypeInv, TypeInv', SafetyInv, DiscreetDestructors,
           LoadStatic(s)
    PROVE  SafetyInv'
<1>1. CommandStep("LoadStatic") /\ AfterCommand(objects)
  BY DEF LoadStatic, CommandStep
<1>2. ASSUME ~InDestructor, NEW S, ProgramRoots \subseteq S
      PROVE  globals[s] \in S \cup {Null}
  <2>1. victim = Null
    BY <1>1, <1>2, CommandRepository DEF CommandStep
  <2>. QED  BY <1>2, <2>1, HeldValues
<1>. QED  BY <1>1, <1>2, PushSafe DEF LoadStatic, Pushed

(* A command that pops its operands and keeps some of them in a variable.  *)
LEMMA PopSafe ==
    ASSUME NEW op, CommandStep(op), mode' = mode \/ AfterCommand(objects),
           Operands >= 1, stack' = Popped(1),
           UNCHANGED <<heapVars, marked, sweepVars>>,
           InDestructor => /\ UNCHANGED globals
                           /\ \A i \in 1..base.frames : frames'[i] = frames[i],
           ~InDestructor =>
             \A S \in SUBSET allocated :
               /\ \A s \in Static : globals[s] \in S \cup {Null}
               /\ \A i \in 1..Len(frames), l \in Slot : frames[i][l] \in S \cup {Null}
               /\ Top \in S \cup {Null}
               => /\ \A s \in Static : globals'[s] \in S \cup {Null}
                  /\ \A i \in 1..Len(frames'), l \in Slot : frames'[i][l] \in S \cup {Null}
    PROVE  SafetyInv'
<1>1. /\ stack \in Seq(Ref) /\ Len(stack) \in Nat /\ Len(stack) >= 1
      /\ Len(stack') = Len(stack) - 1
      /\ \A i \in 1..Len(stack') : stack'[i] = stack[i]
  BY CommandContext, PoppedFacts DEF CommandStep, TypeInv, TypeOK
<1>2. ASSUME InDestructor PROVE \A i \in 1..base.stack : stack'[i] = stack[i]
  BY <1>1, <1>2, CommandContext DEF CommandStep, InDestructor
<1>3. ASSUME ~InDestructor, NEW S \in SUBSET allocated, ProgramRoots \subseteq S
      PROVE  /\ \A s \in Static : globals'[s] \in S \cup {Null}
             /\ \A i \in 1..Len(frames'), l \in Slot : frames'[i][l] \in S \cup {Null}
             /\ \A i \in 1..Len(stack') : stack'[i] \in S \cup {Null}
  <2>1. victim = Null
    BY <1>3, CommandRepository DEF CommandStep
  <2>2. /\ \A s \in Static : globals[s] \in S \cup {Null}
        /\ \A i \in 1..Len(frames), l \in Slot : frames[i][l] \in S \cup {Null}
        /\ \A i \in 1..Len(stack) : stack[i] \in S \cup {Null}
    BY <1>3, <2>1, HeldValues DEF CommandStep
  <2>3. Top \in S \cup {Null} /\ \A i \in 1..Len(stack') : i \in 1..Len(stack)
    BY <1>1, <2>2 DEF Top
  <2>. QED  BY <1>1, <1>3, <2>2, <2>3
<1>. QED  BY <1>2, <1>3, MoveSafe DEF CommandStep

LEMMA PopCommandSafe ==
    ASSUME TypeInv, TypeInv', SafetyInv, DiscreetDestructors, Pop
    PROVE  SafetyInv'
  BY PopSafe DEF Pop, CommandStep

LEMMA SetStaticSafe ==
    ASSUME NEW s \in Static, TypeInv, TypeInv', SafetyInv, DiscreetDestructors,
           SetStatic(s)
    PROVE  SafetyInv'
<1>1. CommandStep("SetStatic") /\ ~InDestructor
  BY CommandRepository DEF SetStatic, CommandStep, DiscreetDestructors
<1>2. globals' = [globals EXCEPT ![s] = Top] /\ globals \in [Static -> Ref]
  BY DEF SetStatic, TypeInv, TypeOK
<1>3. \A t \in Static : globals'[t] = globals[t] \/ globals'[t] = Top
  BY <1>2
<1>. QED  BY <1>1, <1>3, PopSafe DEF SetStatic

LEMMA SetLocalSafe ==
    ASSUME NEW l \in Slot, TypeInv, TypeInv', SafetyInv, DiscreetDestructors,
           SetLocal(l)
    PROVE  SafetyInv'
<1>1. CommandStep("SetLocal") /\ Operands >= 1
  BY DEF SetLocal, CommandStep
<1>2. /\ frames \in Seq(Frame) /\ Len(frames) \in Nat /\ Len(frames) >= 1
      /\ frames' = [frames EXCEPT ![Len(frames)] = [TopFrame EXCEPT ![l] = Top]]
      /\ TopFrame \in Frame
  BY <1>1, CommandContext DEF SetLocal, TopFrame, CommandStep, TypeInv, TypeOK
<1>3. /\ Len(frames') = Len(frames)
      /\ \A i \in 1..Len(frames) : i # Len(frames) => frames'[i] = frames[i]
      /\ frames'[Len(frames)] = [TopFrame EXCEPT ![l] = Top]
  BY <1>2
<1>4. \A k \in Slot : \/ frames'[Len(frames)][k] = frames[Len(frames)][k]
                     \/ frames'[Len(frames)][k] = Top
  BY <1>2, <1>3 DEF TopFrame, Frame
<1>5. \A i \in 1..Len(frames'), k \in Slot :
        frames'[i][k] = frames[i][k] \/ frames'[i][k] = Top
  BY <1>3, <1>4
<1>6. ASSUME InDestructor PROVE \A i \in 1..base.frames : frames'[i] = frames[i]
  <2>1. base.frames \in Nat /\ base.frames + 2 <= Len(frames)
    BY <1>1, <1>6, CommandContext DEF CommandStep, InDestructor
  <2>2. Len(frames) \in Nat
    BY <1>2
  <2>3. \A i \in 1..base.frames : i \in 1..Len(frames) /\ i # Len(frames)
    BY ONLY <2>1, <2>2
  <2>. QED  BY <1>3, <2>3
<1>. QED  BY <1>1, <1>3, <1>5, <1>6, PopSafe DEF SetLocal

LEMMA CallSafe ==
    ASSUME TypeInv, TypeInv', SafetyInv, DiscreetDestructors, Call
    PROVE  SafetyInv'
<1>1. CommandStep("Call") /\ Operands >= 1
  BY DEF Call, CommandStep
<1>2. /\ frames \in Seq(Frame) /\ Len(frames) \in Nat
      /\ Len(frames') = Len(frames) + 1
      /\ \A i \in 1..Len(frames) : frames'[i] = frames[i]
      /\ frames'[Len(frames) + 1] = [EmptyFrame EXCEPT ![This] = Top]
  BY DEF Call, TypeInv, TypeOK
<1>3. \A k \in Slot : frames'[Len(frames) + 1][k] \in {Null, Top}
  BY <1>2 DEF EmptyFrame
<1>4. \A i \in 1..Len(frames') : i \in 1..Len(frames) \/ i = Len(frames) + 1
  BY <1>2
<1>5. ASSUME InDestructor PROVE \A i \in 1..base.frames : frames'[i] = frames[i]
  <2>1. base.frames \in Nat /\ base.frames + 2 <= Len(frames)
    BY <1>1, <1>5, CommandContext DEF CommandStep, InDestructor
  <2>. QED  BY <1>2, <2>1
<1>6. ASSUME NEW S,
             \A i \in 1..Len(frames), l \in Slot : frames[i][l] \in S \cup {Null},
             Top \in S \cup {Null}
      PROVE  \A i \in 1..Len(frames'), l \in Slot : frames'[i][l] \in S \cup {Null}
  BY <1>2, <1>3, <1>4, <1>6
<1>. QED  BY <1>1, <1>5, <1>6, PopSafe DEF Call

LEMMA ReturnSafe ==
    ASSUME TypeInv, TypeInv', SafetyInv, DiscreetDestructors, Return
    PROVE  SafetyInv'
<1>1. CommandStep("Return") /\ AfterCommand(objects)
  BY DEF Return, CommandStep
<1>2. /\ frames \in Seq(Frame) /\ Len(frames) \in Nat /\ Len(frames) >= 1
      /\ Len(frames') = Len(frames) - 1
      /\ \A i \in 1..Len(frames') : frames'[i] = frames[i]
  <2>1. frames \in Seq(Frame) /\ Len(frames) - 1 \in Nat /\ Len(frames) - 1 <= Len(frames)
    BY <1>1, CommandContext DEF CommandStep, TypeInv, TypeOK
  <2>2. frames' = SubSeq(frames, 1, Len(frames) - 1)
    BY DEF Return
  <2>3. /\ Len(frames') = Len(frames) - 1
        /\ \A i \in 1..(Len(frames) - 1) : frames'[i] = frames[i]
    BY <2>1, <2>2, PrefixFacts
  <2>. QED  BY <2>1, <2>3
<1>3. ASSUME InDestructor PROVE \A i \in 1..base.frames : frames'[i] = frames[i]
  <2>1. base.frames \in Nat /\ base.frames <= Len(frames')
    BY <1>1, <1>2, <1>3, CommandContext DEF CommandStep, InDestructor, Return
  <2>. QED  BY <1>2, <2>1
<1>4. ASSUME ~InDestructor, NEW S \in SUBSET allocated, ProgramRoots \subseteq S
      PROVE  /\ \A s \in Static : globals'[s] \in S \cup {Null}
             /\ \A i \in 1..Len(frames'), l \in Slot : frames'[i][l] \in S \cup {Null}
             /\ \A i \in 1..Len(stack') : stack'[i] \in S \cup {Null}
  <2>1. victim = Null
    BY <1>1, <1>4, CommandRepository DEF CommandStep
  <2>2. \A i \in 1..Len(frames') : i \in 1..Len(frames)
    BY <1>2
  <2>. QED  BY <1>2, <1>4, <2>1, <2>2, HeldValues DEF Return
<1>. QED  BY <1>1, <1>3, <1>4, MoveSafe DEF Return, CommandStep, heapVars

LEMMA CallConstructorSafe ==
    ASSUME TypeInv, TypeInv', SafetyInv, DiscreetDestructors, CallConstructor
    PROVE  SafetyInv'
<1>1. CommandStep("CallConstructor")
  BY DEF CallConstructor, CommandStep
<1>2. PICK o \in Obj \ allocated :
        /\ allocated' = allocated \cup {o}
        /\ objects' = objects \cup {o}
        /\ fields' = [fields EXCEPT ![o] = NoFields]
        /\ marked' = marked \ {o}
        /\ stack' = Append(stack, o)
        /\ AfterCommand(objects \cup {o})
  BY DEF CallConstructor, Pushed
<1>3. UNCHANGED <<globals, frames, worklist, sweepVars, forced>>
  BY DEF CallConstructor
<1>4. objects' = allocated' /\ marked' = {}
  BY <1>1, <1>2, CommandRepository DEF CommandStep
<1>5. /\ stack \in Seq(Ref) /\ Len(stack) \in Nat
      /\ Len(stack') = Len(stack) + 1
      /\ \A i \in 1..Len(stack) : stack'[i] = stack[i]
      /\ stack'[Len(stack) + 1] = o
  BY <1>2 DEF TypeInv, TypeOK
<1>6. /\ \A p \in allocated : fields'[p] = fields[p]
      /\ fields'[o] = NoFields
  BY <1>2 DEF TypeInv, TypeOK
<1>7. CASE InDestructor
  <2>1. mode' = mode
    BY <1>1, <1>2, <1>7, CommandRepository DEF CommandStep
  <2>2. base.stack \in Nat /\ base.stack <= Len(stack)
    BY <1>1, <1>7, CommandContext DEF CommandStep, InDestructor
  <2>3. \A i \in 1..base.stack : stack'[i] = stack[i]
    BY <1>5, <2>2
  <2>. QED  BY <1>2, <1>3, <1>4, <1>6, <1>7, <2>1, <2>3, DestructorCommandSafe
<1>8. CASE ~InDestructor
  <2>1. mode = "run" /\ victim = Null /\ mode' \in {"run", "roots"}
    BY <1>1, <1>2, <1>8, CommandRepository DEF CommandStep
  <2>2. PICK S \in SUBSET allocated : ProgramRoots \subseteq S /\ Closed(S)
    BY <2>1 DEF SafetyInv, RootsAlive
  <2>3. Closed(S \cup {o})'
    BY <1>6, <2>2 DEF Closed, NoFields
  <2>4. \A i \in 1..Len(stack') : i \in 1..Len(stack) \/ i = Len(stack) + 1
    BY <1>5
  <2>5. /\ \A s \in Static : globals'[s] \in S \cup {o} \cup {Null}
        /\ \A i \in 1..Len(frames'), l \in Slot :
             frames'[i][l] \in S \cup {o} \cup {Null}
        /\ \A i \in 1..Len(stack') : stack'[i] \in S \cup {o} \cup {Null}
    BY <1>3, <1>5, <2>1, <2>2, <2>4, HeldValues
  <2>6. S \cup {o} \in SUBSET allocated'
    BY <1>2, <2>2
  <2>. QED  BY <1>3, <1>4, <2>1, <2>3, <2>5, <2>6, ProgramCommandSafe
<1>. QED  BY <1>7, <1>8

LEMMA GetFieldSafe ==
    ASSUME NEW f \in Field, TypeInv, TypeInv', SafetyInv, DiscreetDestructors,
           GetField(f)
    PROVE  SafetyInv'
<1>1. CommandStep("GetField") /\ ~InDestructor /\ Operands >= 1 /\ Top # Null
  BY CommandRepository DEF GetField, CommandStep, DiscreetDestructors
<1>2. mode = "run" /\ victim = Null
  BY <1>1, CommandRepository DEF CommandStep
<1>3. PICK S \in SUBSET allocated : ProgramRoots \subseteq S /\ Closed(S)
  BY <1>2 DEF SafetyInv, RootsAlive
<1>4. stack \in Seq(Ref) /\ Len(stack) \in Nat /\ Len(stack) >= 1
  BY <1>1, CommandContext DEF CommandStep, TypeInv, TypeOK
<1>5. Top \in S
  <2>1. Len(stack) \in 1..Len(stack)
    BY <1>4
  <2>. QED  BY <1>1, <1>2, <1>3, <2>1, HeldValues DEF Top
<1>6. /\ AfterCommand(objects)
      /\ stack' = Append(Popped(1), fields[Top][f])
      /\ UNCHANGED <<heapVars, marked, globals, frames, sweepVars>>
  BY <1>3, <1>5 DEF GetField, Pushed
<1>7. mode' \in {"run", "roots"} /\ objects' = allocated' /\ marked' = {}
  BY <1>1, <1>6, CommandRepository DEF CommandStep, heapVars
<1>8. fields[Top][f] \in S \cup {Null}
  BY <1>3, <1>5 DEF Closed
<1>9. \A i \in 1..Len(stack') : stack'[i] \in S \cup {Null}
  <2>1. /\ Popped(1) \in Seq(Ref) /\ Len(Popped(1)) = Len(stack) - 1
        /\ \A i \in 1..Len(Popped(1)) : Popped(1)[i] = stack[i]
    BY <1>4, PoppedFacts
  <2>2. fields[Top][f] \in Ref
    BY <1>8, <1>3 DEF TypeInv, TypeOK, Ref
  <2>3. /\ Len(stack') = Len(stack)
        /\ stack'[Len(stack)] = fields[Top][f]
        /\ \A i \in 1..(Len(stack) - 1) : stack'[i] = stack[i]
    BY <1>4, <1>6, <2>1, <2>2, AppendFacts
  <2>4. \A i \in 1..Len(stack') :
          i = Len(stack) \/ (i \in 1..(Len(stack) - 1) /\ i \in 1..Len(stack))
    BY <1>4, <2>3
  <2>. QED  BY <1>2, <1>3, <1>8, <2>3, <2>4, HeldValues
<1>10. Closed(S)' /\ S \in SUBSET allocated'
  BY <1>3, <1>6 DEF Closed, heapVars
<1>11. /\ \A s \in Static : globals'[s] \in S \cup {Null}
       /\ \A i \in 1..Len(frames'), l \in Slot : frames'[i][l] \in S \cup {Null}
       /\ UNCHANGED sweepVars
  BY <1>2, <1>3, <1>6, HeldValues
<1>. QED  BY <1>2, <1>7, <1>9, <1>10, <1>11, ProgramCommandSafe

LEMMA SetFieldSafe ==
    ASSUME NEW f \in Field, TypeInv, TypeInv', SafetyInv, DiscreetDestructors,
           SetField(f)
    PROVE  SafetyInv'
<1>1. CommandStep("SetField") /\ ~InDestructor /\ Operands >= 2 /\ Top # Null
  BY CommandRepository DEF SetField, CommandStep, DiscreetDestructors
<1>2. mode = "run" /\ victim = Null
  BY <1>1, CommandRepository DEF CommandStep
<1>3. PICK S \in SUBSET allocated : ProgramRoots \subseteq S /\ Closed(S)
  BY <1>2 DEF SafetyInv, RootsAlive
<1>4. stack \in Seq(Ref) /\ Len(stack) \in Nat /\ Len(stack) >= 2
  BY <1>1, CommandContext DEF CommandStep, TypeInv, TypeOK
<1>5. Top \in S /\ Second \in S \cup {Null}
  <2>1. Len(stack) \in 1..Len(stack) /\ Len(stack) - 1 \in 1..Len(stack)
    BY <1>4
  <2>. QED  BY <1>1, <1>2, <1>3, <2>1, HeldValues DEF Top, Second
<1>6. /\ AfterCommand(objects)
      /\ stack' = Popped(2)
      /\ fields' = [fields EXCEPT ![Top][f] = Second]
      /\ UNCHANGED <<allocated, objects, marked, globals, frames, sweepVars>>
  BY <1>3, <1>5 DEF SetField
<1>7. mode' \in {"run", "roots"} /\ objects' = allocated' /\ marked' = {}
  BY <1>1, <1>6, CommandRepository DEF CommandStep
<1>8. \A i \in 1..Len(stack') : stack'[i] \in S \cup {Null}
  <2>1. /\ Len(stack') = Len(stack) - 2
        /\ \A i \in 1..Len(stack') : stack'[i] = stack[i]
    BY <1>4, <1>6, PoppedFacts
  <2>2. \A i \in 1..Len(stack') : i \in 1..Len(stack)
    BY <1>4, <2>1
  <2>. QED  BY <1>2, <1>3, <2>1, <2>2, HeldValues
<1>9. Closed(S)' /\ S \in SUBSET allocated'
  <2>1. \A o \in S, g \in Field :
          fields'[o][g] = fields[o][g] \/ fields'[o][g] = Second
    BY <1>3, <1>6 DEF TypeInv, TypeOK
  <2>. QED  BY <1>3, <1>5, <1>6, <2>1 DEF Closed
<1>10. /\ \A s \in Static : globals'[s] \in S \cup {Null}
       /\ \A i \in 1..Len(frames'), l \in Slot : frames'[i][l] \in S \cup {Null}
       /\ UNCHANGED sweepVars
  BY <1>2, <1>3, <1>6, HeldValues
<1>. QED  BY <1>2, <1>7, <1>8, <1>9, <1>10, ProgramCommandSafe

LEMMA CommandSafe ==
    ASSUME TypeInv, TypeInv', SafetyInv, DiscreetDestructors, Command
    PROVE  SafetyInv'
<1>1. ASSUME ForceGarbageCollection PROVE SafetyInv'
  <2>1. MayExecute("ForceGarbageCollection")
        /\ UNCHANGED <<heapVars, rootVars, marked, worklist, sweepVars>>
    BY <1>1 DEF ForceGarbageCollection
  <2>2. CASE InDestructor
    <3>1. mode' = mode
      BY <1>1, <2>1, <2>2, CommandRepository DEF ForceGarbageCollection
    <3>2. CommandStep("ForceGarbageCollection")
      BY <2>1 DEF CommandStep
    <3>. QED
      BY <2>1, <2>2, <3>1, MoveSafe DEF CommandStep, rootVars
  <2>3. CASE ~InDestructor
    <3>1. mode = "run" /\ mode' = "roots"
      BY <1>1, <2>1, <2>3, CommandRepository
         DEF ForceGarbageCollection, TypeInv, Nesting
    <3>2. ProgramRoots' = ProgramRoots
      BY <2>1 DEF ProgramRoots, ProgramFrames, ProgramStack, rootVars, sweepVars
    <3>. QED
      BY <2>1, <3>1, <3>2
         DEF SafetyInv, NoUseAfterFree, RootsAlive, TriColour, MarksReachable,
             Condemned, Closed, heapVars, sweepVars
  <2>. QED  BY <2>2, <2>3
<1>2. ASSUME RunProgramReturns PROVE SafetyInv'
  BY <1>2 DEF RunProgramReturns, SafetyInv, NoUseAfterFree, RootsAlive,
              TriColour, MarksReachable, heapVars
<1>3. ASSUME Crash PROVE SafetyInv'
  <2>1. objects = allocated /\ marked = {}
    BY <1>3, CommandRepository DEF Crash
  <2>. QED
    BY <1>3, <2>1 DEF Crash, SafetyInv, NoUseAfterFree, RootsAlive, TriColour,
                      MarksReachable, heapVars
<1>. QED
  BY <1>1, <1>2, <1>3, CallConstructorSafe, LoadLocalSafe, SetLocalSafe,
     LoadStaticSafe, SetStaticSafe, PopCommandSafe, GetFieldSafe, SetFieldSafe,
     CallSafe, ReturnSafe DEF Command
-----------------------------------------------------------------------------
(* The phases of a collection. *)

LEMMA AddRootsSafe ==
    ASSUME TypeInv, SafetyInv, AddRoots
    PROVE  SafetyInv'
<1>1. /\ mode = "roots" /\ mode' = "mark" /\ victim = Null /\ marked = {}
      /\ worklist' = GcRoots
      /\ UNCHANGED <<heapVars, rootVars, marked, sweepVars>>
  BY DEF AddRoots, TypeInv, Nesting, SafetyInv
<1>2. ProgramRoots' = ProgramRoots /\ GcRoots = ProgramRoots
  BY <1>1 DEF ProgramRoots, ProgramFrames, ProgramStack, GcRoots, rootVars, sweepVars
<1>3. RootsAlive'
  BY <1>1, <1>2 DEF SafetyInv, RootsAlive, Condemned, Closed, heapVars, sweepVars
<1>4. TriColour' /\ MarksReachable'
  BY <1>1, <1>2 DEF TriColour, MarksReachable
<1>. QED
  BY <1>1, <1>3, <1>4 DEF SafetyInv, NoUseAfterFree, heapVars

(* Grey objects are allocated, so marking never touches released memory.   *)
LEMMA GreyIsAllocated ==
    ASSUME TypeInv, SafetyInv, mode = "mark"
    PROVE  marked \cup worklist \subseteq allocated
<1>1. PICK S \in SUBSET allocated : ProgramRoots \subseteq S /\ Closed(S)
  BY DEF SafetyInv, RootsAlive
<1>. QED  BY <1>1 DEF SafetyInv, MarksReachable, TypeInv, TypeOK

LEMMA MarkSafe ==
    ASSUME NEW o \in Obj, TypeInv, SafetyInv, Mark(o)
    PROVE  SafetyInv'
<1>1. mode = "mark" /\ o \in worklist /\ o \in allocated
  BY GreyIsAllocated DEF Mark
<1>2. UNCHANGED <<heapVars, rootVars, mode, sweepVars>>
  BY <1>1 DEF Mark
<1>3. ProgramRoots' = ProgramRoots /\ \A S : Closed(S)' <=> Closed(S)
  BY <1>2 DEF ProgramRoots, ProgramFrames, ProgramStack, Closed, rootVars,
              sweepVars, heapVars
<1>4. RootsAlive'
  BY <1>1, <1>2, <1>3 DEF SafetyInv, RootsAlive, Condemned, heapVars, sweepVars
<1>5. \/ marked' = marked /\ worklist' = worklist \ {o} /\ o \in marked
      \/ marked' = marked \cup {o} /\ worklist' = (worklist \ {o}) \cup Children(o)
  BY <1>1 DEF Mark
<1>6. TriColour'
  <2>1. ProgramRoots' \subseteq marked' \cup worklist'
    BY <1>1, <1>3, <1>5 DEF SafetyInv, TriColour
  <2>2. \A p \in marked', f \in Field :
          fields[p][f] \in marked' \cup worklist' \cup {Null}
    BY <1>1, <1>5 DEF SafetyInv, TriColour, Children
  <2>. QED  BY <1>2, <2>1, <2>2 DEF TriColour, heapVars
<1>7. MarksReachable'
  <2> SUFFICES ASSUME NEW S \in SUBSET Obj, ProgramRoots \subseteq S, Closed(S)
               PROVE  marked' \cup worklist' \subseteq S
    BY <1>3 DEF MarksReachable
  <2>1. marked \cup worklist \subseteq S
    BY <1>1 DEF SafetyInv, MarksReachable
  <2>2. Children(o) \subseteq S
    BY <1>1, <2>1 DEF Closed, Children
  <2>. QED  BY <1>1, <1>5, <2>1, <2>2
<1>. QED
  BY <1>1, <1>2, <1>4, <1>6, <1>7 DEF SafetyInv, NoUseAfterFree, heapVars

LEMMA SweepScanSafe ==
    ASSUME TypeInv, SafetyInv, SweepScan
    PROVE  SafetyInv'
<1>1. /\ mode = "mark" /\ mode' = "sweep" /\ worklist = {} /\ victim = Null
      /\ toDelete' = objects \ marked /\ marked' = marked \ objects
      /\ UNCHANGED <<heapVars, rootVars, victim, base>>
  BY DEF SweepScan, TypeInv, Nesting
<1>2. marked \subseteq allocated /\ objects = allocated
  BY <1>1, GreyIsAllocated DEF SafetyInv
<1>3. ProgramRoots' = ProgramRoots
  BY <1>1 DEF ProgramRoots, ProgramFrames, ProgramStack, rootVars
<1>4. ProgramRoots \subseteq marked /\ Closed(marked)
  BY <1>1 DEF SafetyInv, TriColour, Closed
<1>5. RootsAlive'
  <2>1. marked \subseteq (allocated \ Condemned)'
    BY <1>1, <1>2, NullAssumption DEF Condemned, heapVars, TypeInv, TypeOK
  <2>2. /\ ProgramRoots' \subseteq marked
        /\ \A o \in marked, f \in Field : fields'[o][f] \in marked \cup {Null}
    BY <1>1, <1>3, <1>4 DEF Closed, heapVars
  <2>. QED  BY <2>1, <2>2 DEF RootsAlive, Closed
<1>. QED
  BY <1>1, <1>2, <1>5
     DEF SafetyInv, NoUseAfterFree, TriColour, MarksReachable, heapVars

LEMMA BeginDestructorSafe ==
    ASSUME NEW o \in Obj, TypeInv, SafetyInv, BeginDestructor(o)
    PROVE  SafetyInv'
<1>1. /\ mode \in {"sweep", "clear"} /\ victim = Null /\ o # Null
      /\ o \in toDelete /\ toDelete' = toDelete \ {o} /\ victim' = o
      /\ base' = [frames |-> Len(frames), stack |-> Len(stack)]
      /\ frames' = frames \o <<EmptyFrame, [EmptyFrame EXCEPT ![This] = o]>>
      /\ UNCHANGED <<heapVars, globals, stack, marked, mode, worklist, firstError>>
  BY NullAssumption DEF BeginDestructor
<1>2. frames \in Seq(Frame) /\ stack \in Seq(Ref)
  BY DEF TypeInv, TypeOK
<1>3. SubSeq(frames', 1, Len(frames)) = frames /\ SubSeq(stack, 1, Len(stack)) = stack
  <2>1. [EmptyFrame EXCEPT ![This] = o] \in Frame
    BY EmptyFrameIsFrame DEF Frame, Ref
  <2>. QED  BY <1>1, <1>2, <2>1, EmptyFrameIsFrame, ConcatFacts, WholeSequence
<1>4. ProgramFrames' = ProgramFrames /\ ProgramStack' = ProgramStack
  BY <1>1, <1>3 DEF ProgramFrames, ProgramStack
<1>5. ProgramRoots' = ProgramRoots
  BY <1>1, <1>4 DEF ProgramRoots
<1>6. RootsAlive'
  <2>1. Condemned' \subseteq Condemned
    BY <1>1 DEF Condemned
  <2>2. \A S \in SUBSET (allocated \ Condemned) :
          S \in SUBSET (allocated' \ Condemned') /\ (Closed(S) => Closed(S)')
    BY <1>1, <2>1 DEF Closed, heapVars
  <2>. QED  BY <1>1, <1>5, <2>2 DEF SafetyInv, RootsAlive
<1>. QED
  BY <1>1, <1>6
     DEF SafetyInv, NoUseAfterFree, TriColour, MarksReachable, heapVars

(* Releasing a condemned object takes nothing from the program.            *)
LEMMA ReleaseSafe ==
    ASSUME TypeInv, SafetyInv, NEW o \in Condemned, o \in Obj, Release(o),
           mode \in {"sweep", "clear"}, mode' = mode, firstError' = firstError,
           marked' = marked, Condemned' \subseteq Condemned \cup {Null},
           ProgramRoots' = ProgramRoots
    PROVE  SafetyInv'
<1>1. RootsAlive'
  <2> SUFFICES ASSUME mode = "sweep", ~firstError
               PROVE  \E S \in SUBSET (allocated' \ Condemned') :
                        ProgramRoots \subseteq S /\ Closed(S)'
    BY DEF RootsAlive
  <2>1. PICK S \in SUBSET (allocated \ Condemned) :
          ProgramRoots \subseteq S /\ Closed(S)
    BY DEF SafetyInv, RootsAlive
  <2>2. o \notin S /\ Null \notin S
    BY <2>1, NullAssumption DEF TypeInv, TypeOK
  <2>3. S \subseteq allocated' \ Condemned'
    BY <2>1, <2>2 DEF Release
  <2>4. \A p \in S : fields'[p] = fields[p]
    BY <2>1, <2>2 DEF Release, TypeInv, TypeOK
  <2>. QED  BY <2>1, <2>3, <2>4 DEF Closed
<1>. QED
  BY <1>1 DEF SafetyInv, NoUseAfterFree, TriColour, MarksReachable, Release

LEMMA FinishDestructorSafe ==
    ASSUME TypeInv, SafetyInv, FinishDestructor
    PROVE  SafetyInv'
<1>1. /\ victim # Null /\ mode \in {"sweep", "clear"}
      /\ Len(stack) = base.stack /\ frames' = SubSeq(frames, 1, base.frames)
      /\ Release(victim) /\ victim' = Null
      /\ UNCHANGED <<globals, stack, marked, mode, toDelete, firstError>>
  BY DEF FinishDestructor, InDestructor
<1>2. victim \in Obj /\ victim \in Condemned
  BY <1>1 DEF TypeInv, TypeOK, Ref, Condemned
<1>3. Condemned' \subseteq Condemned \cup {Null}
  BY <1>1 DEF Condemned
<1>4. ProgramFrames' = ProgramFrames /\ ProgramStack' = ProgramStack
  BY <1>1, WholeSequence DEF ProgramFrames, ProgramStack, TypeInv, TypeOK
<1>5. ProgramRoots' = ProgramRoots
  BY <1>1, <1>4 DEF ProgramRoots
<1>. QED  BY <1>1, <1>2, <1>3, <1>5, ReleaseSafe

LEMMA DestructorFailsSafe ==
    ASSUME TypeInv, SafetyInv, DestructorFails
    PROVE  SafetyInv'
  BY DEF DestructorFails, InDestructor, SafetyInv, NoUseAfterFree, RootsAlive,
         TriColour, MarksReachable, heapVars

LEMMA MissingDestructorSafe ==
    ASSUME NEW o \in Obj, TypeInv, SafetyInv, MissingDestructor(o)
    PROVE  SafetyInv'
<1>1. /\ mode \in {"sweep", "clear"} /\ o \in toDelete /\ toDelete' = toDelete \ {o}
      /\ UNCHANGED <<rootVars, marked, mode, victim, base>>
  BY DEF MissingDestructor
<1>2. CASE mode = "sweep"
  BY <1>1, <1>2 DEF MissingDestructor, SafetyInv, NoUseAfterFree, RootsAlive,
                    TriColour, MarksReachable, heapVars
<1>3. CASE mode # "sweep"
  <2>1. Release(o) /\ firstError' = firstError
    BY <1>3 DEF MissingDestructor
  <2>2. o \in Condemned /\ Condemned' \subseteq Condemned \cup {Null}
    BY <1>1 DEF Condemned
  <2>3. ProgramRoots' = ProgramRoots
    BY <1>1 DEF ProgramRoots, ProgramFrames, ProgramStack, rootVars
  <2>. QED  BY <1>1, <2>1, <2>2, <2>3, ReleaseSafe
<1>. QED  BY <1>2, <1>3

LEMMA FinishSweepSafe ==
    ASSUME TypeInv, SafetyInv, FinishSweep
    PROVE  SafetyInv'
<1>1. /\ mode = "sweep" /\ victim = Null
      /\ UNCHANGED <<heapVars, globals, stack, marked, toDelete, victim>>
      /\ \/ mode' = "down"
         \/ mode' \in {"run", "roots"} /\ frames' = frames /\ ~firstError
  BY DEF FinishSweep
<1>2. CASE mode' = "down"
  BY <1>1, <1>2 DEF SafetyInv, NoUseAfterFree, RootsAlive, TriColour,
                    MarksReachable, heapVars
<1>3. CASE mode' # "down"
  <2>1. ProgramRoots' = ProgramRoots
    BY <1>1, <1>3 DEF ProgramRoots, ProgramFrames, ProgramStack
  <2>2. RootsAlive'
    BY <1>1, <1>3, <2>1 DEF SafetyInv, RootsAlive, Condemned, Closed, heapVars
  <2>. QED
    BY <1>1, <1>3, <2>2
       DEF SafetyInv, NoUseAfterFree, TriColour, MarksReachable, heapVars
<1>. QED  BY <1>2, <1>3

LEMMA ClearSafe ==
    ASSUME TypeInv, SafetyInv, BeginClear \/ FinishClear
    PROVE  SafetyInv'
  BY DEF BeginClear, FinishClear, SafetyInv, NoUseAfterFree, RootsAlive,
         TriColour, MarksReachable, heapVars

LEMMA CollectorSafe ==
    ASSUME TypeInv, SafetyInv, Collector
    PROVE  SafetyInv'
  BY AddRootsSafe, MarkSafe, SweepScanSafe, BeginDestructorSafe,
     FinishDestructorSafe, DestructorFailsSafe, MissingDestructorSafe,
     FinishSweepSafe, ClearSafe
     DEF Collector
-----------------------------------------------------------------------------
LEMMA InitSafetyInv == Init => SafetyInv
<1> SUFFICES ASSUME Init PROVE SafetyInv
  OBVIOUS
<1>1. ProgramRoots = {}
  BY DEF Init, ProgramRoots, ProgramFrames, ProgramStack, EmptyFrame
<1>2. RootsAlive
  BY <1>1 DEF RootsAlive, Closed
<1>. QED
  BY <1>2 DEF Init, SafetyInv, NoUseAfterFree, TriColour, MarksReachable

LEMMA NextSafetyInv ==
    ASSUME DiscreetDestructors
    PROVE  TypeInv /\ SafetyInv /\ [Next]_vars => SafetyInv'
<1>1. ASSUME SafetyInv, UNCHANGED vars PROVE SafetyInv'
  <2> USE <1>1 DEF vars
  <2>1. ProgramRoots' = ProgramRoots /\ Condemned' = Condemned
    BY DEF ProgramRoots, ProgramFrames, ProgramStack, Condemned
  <2>2. RootsAlive' /\ MarksReachable'
    BY <2>1 DEF SafetyInv, RootsAlive, MarksReachable, Closed
  <2>. QED  BY <2>1, <2>2 DEF SafetyInv, NoUseAfterFree, TriColour
<1>2. ASSUME TypeInv, SafetyInv, Command PROVE SafetyInv'
  BY <1>2, CommandTypeInv, CommandSafe
<1>3. ASSUME TypeInv, SafetyInv, Collector PROVE SafetyInv'
  BY <1>3, CollectorSafe
<1>. QED  BY <1>1, <1>2, <1>3 DEF Next

LEMMA AlwaysSafetyInv ==
    ASSUME DiscreetDestructors
    PROVE  Spec => [](TypeInv /\ SafetyInv)
  BY InitTypeInv, NextTypeInv, InitSafetyInv, NextSafetyInv, PTL DEF Spec

(* The runtime never reads or writes memory it has released.               *)
THEOREM MemorySafety ==
    ASSUME DiscreetDestructors
    PROVE  Spec => []NoUseAfterFree
  BY AlwaysSafetyInv, PTL DEF SafetyInv

(* What the program can reach is allocated, in the middle of a sweep too.  *)
THEOREM RootsStayAllocated ==
    ASSUME DiscreetDestructors
    PROVE  Spec => []NoDanglingReference
<1>1. TypeInv /\ SafetyInv => NoDanglingReference
  BY DEF SafetyInv, RootsAlive, NoDanglingReference, ProgramModes
<1>. QED  BY <1>1, AlwaysSafetyInv, PTL

(* Marking keeps the tri-colour invariant.                                 *)
THEOREM MarkingIsTriColour ==
    ASSUME DiscreetDestructors
    PROVE  Spec => []TriColour
  BY AlwaysSafetyInv, PTL DEF SafetyInv

(* No badge survives the cycle that set it.                                *)
THEOREM BadgesAreCleared ==
    ASSUME DiscreetDestructors
    PROVE  Spec => []NoStaleBadge
<1>1. SafetyInv => NoStaleBadge
  BY DEF SafetyInv, NoStaleBadge
<1>. QED  BY <1>1, AlwaysSafetyInv, PTL
-----------------------------------------------------------------------------
(* What a collection does and what it leaves alone: it is invisible to the *)
(* program, it finds all the garbage, Clear returns all the memory, and    *)
(* the collector implements the heap of ManagedHeap.  Each theorem names   *)
(* the commands that destructors must not contain for it.                  *)

(* What a command of a destructor leaves of the state it interrupted.      *)
Undisturbed ==
    /\ \A i \in 1..base.frames : frames'[i] = frames[i]
    /\ \A i \in 1..base.stack : stack'[i] = stack[i]
    /\ UNCHANGED sweepVars
    /\ mode' \in {mode, "crashed", "undefined"}

(* In a destructor no command starts a collection.                         *)
LEMMA NoNestedCollection ==
    ASSUME TypeInv, InDestructor
    PROVE  /\ gcInProgress /\ victim # Null /\ mode # "run"
           /\ \A R : AfterCommand(R) => UNCHANGED <<mode, gcInProgress>>
  BY DEF TypeInv, Nesting, InDestructor, AfterCommand

(* A command that changes only the operands above those the destructor     *)
(* found, and the frames above the program's.                              *)
LEMMA AboveTheBase ==
    ASSUME TypeInv, InDestructor, NEW op, MayExecute(op),
           frames \in Seq(Frame), stack \in Seq(Ref),
           UNCHANGED sweepVars, mode' \in {mode, "crashed", "undefined"},
           \/ frames' = frames
           \/ \E l \in Slot : frames' = [frames EXCEPT ![Len(frames)][l] = Top]
           \/ \E e \in Frame : frames' = Append(frames, e)
           \/ /\ frames' = SubSeq(frames, 1, Len(frames) - 1)
              /\ Len(frames) > base.frames + 2,
           \/ stack' = stack
           \/ \E v \in Ref : stack' = Append(stack, v)
           \/ Operands >= 1 /\ stack' = Popped(1)
           \/ Operands >= 2 /\ stack' = Popped(2)
           \/ Operands >= 1 /\ \E v \in Ref : stack' = Append(Popped(1), v)
    PROVE  Undisturbed
<1>1. /\ Len(frames) \in Nat /\ Len(stack) \in Nat
      /\ base.frames \in Nat /\ base.stack \in Nat
      /\ base.frames + 2 <= Len(frames) /\ base.stack <= Len(stack)
      /\ Operands >= 1 => base.stack + 1 <= Len(stack)
      /\ Operands >= 2 => base.stack + 2 <= Len(stack)
  BY CommandContext DEF InDestructor
<1>2. \A i \in 1..base.frames :
        i \in 1..Len(frames) /\ i # Len(frames) /\ i <= Len(frames) - 1
  BY <1>1
<1>3. \A i \in 1..base.frames : frames'[i] = frames[i]
  <2>1. CASE \E l \in Slot : frames' = [frames EXCEPT ![Len(frames)][l] = Top]
    BY <1>2, <2>1
  <2>2. CASE \E e \in Frame : frames' = Append(frames, e)
    BY <1>2, <2>2, AppendFacts
  <2>3. CASE frames' = SubSeq(frames, 1, Len(frames) - 1)
    <3>1. Len(frames) - 1 \in Nat /\ Len(frames) - 1 <= Len(frames)
      BY <1>1
    <3>2. \A i \in 1..(Len(frames) - 1) : frames'[i] = frames[i]
      BY <2>3, <3>1, PrefixFacts
    <3>3. \A i \in 1..base.frames : i \in 1..(Len(frames) - 1)
      BY <1>1
    <3>. QED  BY <3>2, <3>3
  <2>. QED  BY <2>1, <2>2, <2>3
<1>4. \A i \in 1..base.stack : stack'[i] = stack[i]
  <2>1. CASE \E v \in Ref : stack' = Append(stack, v)
    BY <1>1, <2>1, AppendFacts
  <2>2. CASE \E n \in {1, 2} : Operands >= n /\ stack' = Popped(n)
    <3>1. PICK n \in {1, 2} : Operands >= n /\ stack' = Popped(n)
      BY <2>2
    <3>2. n \in Nat /\ n <= Len(stack) /\ base.stack + n <= Len(stack)
      BY <1>1, <3>1
    <3>3. /\ Len(Popped(n)) = Len(stack) - n
          /\ \A i \in 1..Len(Popped(n)) : Popped(n)[i] = stack[i]
      BY <3>2, PoppedFacts
    <3>4. \A i \in 1..base.stack : i \in 1..(Len(stack) - n)
      BY <1>1, <3>2
    <3>. QED  BY <3>1, <3>3, <3>4
  <2>3. CASE Operands >= 1 /\ \E v \in Ref : stack' = Append(Popped(1), v)
    <3>1. /\ Popped(1) \in Seq(Ref)
          /\ Len(Popped(1)) = Len(stack) - 1
          /\ \A i \in 1..Len(Popped(1)) : Popped(1)[i] = stack[i]
      <4>1. 1 \in Nat /\ 1 <= Len(stack)
        BY <1>1, <2>3
      <4>. QED  BY <4>1, PoppedFacts
    <3>2. \A i \in 1..Len(Popped(1)) : stack'[i] = Popped(1)[i]
      BY <2>3, <3>1, AppendFacts
    <3>3. \A i \in 1..base.stack : i \in 1..Len(Popped(1))
      BY <1>1, <2>3, <3>1
    <3>. QED  BY <3>1, <3>2, <3>3
  <2>. QED  BY <2>1, <2>2, <2>3
<1>. QED  BY <1>3, <1>4 DEF Undisturbed

LEMMA DestructorCommandUndisturbed ==
    ASSUME TypeInv, InDestructor, Command
    PROVE  Undisturbed
<1> USE DEF heapVars, rootVars, Pushed
<1>1. /\ frames \in Seq(Frame) /\ stack \in Seq(Ref) /\ globals \in [Static -> Ref]
      /\ fields \in [Obj -> [Field -> Ref]] /\ allocated \subseteq Obj
  BY DEF TypeInv, TypeOK
<1>2. victim # Null /\ mode # "run"
  BY DEF InDestructor
<1>3. CASE CallConstructor
  <2>1. PICK o \in Obj : stack' = Append(stack, o) /\ AfterCommand(objects \cup {o})
    BY <1>3 DEF CallConstructor
  <2>2. o \in Ref /\ mode' = mode
    BY <2>1, NoNestedCollection DEF Ref
  <2>. QED
    BY <1>1, <1>3, <2>1, <2>2, AboveTheBase DEF CallConstructor
<1>4. ASSUME NEW l \in Slot, LoadLocal(l) PROVE Undisturbed
  <2>1. TopFrame[l] \in Ref /\ mode' = mode
    BY <1>4, CommandContext, NoNestedCollection DEF LoadLocal, Frame
  <2>. QED  BY <1>1, <1>4, <2>1, AboveTheBase DEF LoadLocal
<1>5. ASSUME NEW l \in Slot, SetLocal(l) PROVE Undisturbed
  BY <1>1, <1>5, NoNestedCollection, AboveTheBase DEF SetLocal
<1>6. ASSUME NEW s \in Static, LoadStatic(s) PROVE Undisturbed
  BY <1>1, <1>6, NoNestedCollection, AboveTheBase DEF LoadStatic
<1>7. ASSUME NEW s \in Static, SetStatic(s) PROVE Undisturbed
  BY <1>1, <1>7, NoNestedCollection, AboveTheBase DEF SetStatic
<1>8. CASE Pop
  BY <1>1, <1>8, NoNestedCollection, AboveTheBase DEF Pop
<1>9. CASE UndefinedBehaviour
  BY <1>9 DEF UndefinedBehaviour, Undisturbed
<1>10. ASSUME NEW f \in Field, GetField(f), ~UndefinedBehaviour PROVE Undisturbed
  <2>1. /\ Top \in allocated /\ AfterCommand(objects)
        /\ stack' = Append(Popped(1), fields[Top][f])
    BY <1>10 DEF GetField
  <2>2. fields[Top][f] \in Ref /\ mode' = mode
    BY <1>1, <2>1, NoNestedCollection
  <2>. QED  BY <1>1, <1>10, <2>1, <2>2, AboveTheBase DEF GetField
<1>11. ASSUME NEW f \in Field, SetField(f), ~UndefinedBehaviour PROVE Undisturbed
  <2>1. Top \in allocated /\ AfterCommand(objects) /\ stack' = Popped(2)
    BY <1>11 DEF SetField
  <2>2. mode' = mode
    BY <2>1, NoNestedCollection
  <2>. QED  BY <1>1, <1>11, <2>1, <2>2, AboveTheBase DEF SetField
<1>12. CASE Call
  <2>1. [EmptyFrame EXCEPT ![This] = Top] \in Frame
    BY <1>12, CommandContext, EmptyFrameIsFrame DEF Call, Frame
  <2>. QED  BY <1>1, <1>12, <2>1, AboveTheBase DEF Call
<1>13. CASE Return
  BY <1>1, <1>2, <1>13, NoNestedCollection, AboveTheBase DEF Return
<1>14. CASE ForceGarbageCollection
  BY <1>1, <1>14, NoNestedCollection DEF ForceGarbageCollection, Undisturbed
<1>15. CASE Crash
  BY <1>15 DEF Crash, Undisturbed
<1>. QED
  BY <1>2, <1>3, <1>4, <1>5, <1>6, <1>7, <1>8, <1>9, <1>10, <1>11, <1>12, <1>13,
     <1>14, <1>15 DEF Command, RunProgramReturns

(* ... and so of what the program can see, if it keeps the globals.        *)
LEMMA UndisturbedProgram ==
    ASSUME TypeInv, TypeInv', InDestructor, Undisturbed, UNCHANGED globals
    PROVE  ProgramState' = ProgramState
<1>1. victim' = victim /\ base' = base /\ victim # Null
  BY DEF InDestructor, Undisturbed, sweepVars
<1>2. /\ base.frames \in Nat /\ base.stack \in Nat
      /\ frames \in Seq(Frame) /\ frames' \in Seq(Frame)
      /\ stack \in Seq(Ref) /\ stack' \in Seq(Ref)
      /\ base.frames <= Len(frames) /\ base.stack <= Len(stack)
      /\ base.frames <= Len(frames') /\ base.stack <= Len(stack')
  BY <1>1 DEF TypeInv, TypeOK, Nesting
<1>3. ProgramFrames' = ProgramFrames /\ ProgramStack' = ProgramStack
  BY <1>1, <1>2, PrefixAgreement DEF ProgramFrames, ProgramStack, Undisturbed
<1>. QED  BY <1>3 DEF ProgramState
-----------------------------------------------------------------------------
(* A collection is invisible to the program. *)

(* Every command is a step of the program or of a destructor.              *)
LEMMA CommandRuns ==
    ASSUME Command
    PROVE  mode = "run" \/ InDestructor
  BY DEF Command, CallConstructor, LoadLocal, SetLocal, LoadStatic, SetStatic,
         Pop, GetField, SetField, Call, Return, ForceGarbageCollection,
         RunProgramReturns, Crash, MayExecute

(* Only SetStatic writes the globals, in a destructor that contains it.    *)
LEMMA GlobalsKept ==
    ASSUME "SetStatic" \notin DtorOps, InDestructor, Command
    PROVE  UNCHANGED globals
<1>1. \A s \in Static : ~SetStatic(s)
  BY DEF SetStatic, MayExecute, InDestructor
<1>. QED
  BY <1>1 DEF Command, CallConstructor, LoadLocal, SetLocal, LoadStatic, Pop,
              GetField, SetField, UndefinedBehaviour, Call, Return,
              ForceGarbageCollection, RunProgramReturns, Crash, rootVars

LEMMA BeginDestructorTransparent ==
    ASSUME TypeInv, NEW o \in Obj, BeginDestructor(o)
    PROVE  ProgramState' = ProgramState
<1>1. /\ victim = Null /\ victim' # Null /\ UNCHANGED <<globals, stack>>
      /\ base' = [frames |-> Len(frames), stack |-> Len(stack)]
      /\ frames' = frames \o <<EmptyFrame, [EmptyFrame EXCEPT ![This] = o]>>
  BY NullAssumption DEF BeginDestructor
<1>2. frames \in Seq(Frame) /\ stack \in Seq(Ref)
  BY DEF TypeInv, TypeOK
<1>3. [EmptyFrame EXCEPT ![This] = o] \in Frame
  BY EmptyFrameIsFrame DEF Frame, Ref
<1>4. SubSeq(frames', 1, Len(frames)) = frames /\ SubSeq(stack, 1, Len(stack)) = stack
  BY <1>1, <1>2, <1>3, EmptyFrameIsFrame, ConcatFacts, WholeSequence
<1>. QED  BY <1>1, <1>4 DEF ProgramState, ProgramFrames, ProgramStack

LEMMA FinishDestructorTransparent ==
    ASSUME TypeInv, FinishDestructor
    PROVE  ProgramState' = ProgramState
<1>1. /\ victim # Null /\ victim' = Null /\ UNCHANGED <<globals, stack>>
      /\ Len(stack) = base.stack /\ frames' = SubSeq(frames, 1, base.frames)
  BY DEF FinishDestructor, InDestructor
<1>2. SubSeq(stack, 1, Len(stack)) = stack
  BY WholeSequence DEF TypeInv, TypeOK
<1>. QED  BY <1>1, <1>2 DEF ProgramState, ProgramFrames, ProgramStack

(* Steps that touch neither variables, operands nor frames.                *)
LEMMA SameRootVars ==
    ASSUME UNCHANGED <<rootVars, victim, base>>
    PROVE  ProgramState' = ProgramState /\ ProgramRoots' = ProgramRoots
  BY DEF ProgramState, ProgramRoots, ProgramFrames, ProgramStack, rootVars

LEMMA CollectionStepTransparent ==
    ASSUME "SetStatic" \notin DtorOps, TypeInv, TypeInv', Next,
           mode \in {"roots", "mark", "sweep"}, mode' \in ProgramModes, ~firstError'
    PROVE  ProgramState' = ProgramState
<1>1. CASE Command
  BY <1>1, CommandRuns, DestructorCommandUndisturbed, GlobalsKept,
     UndisturbedProgram
<1>2. CASE AddRoots \/ SweepScan \/ \E o \in Obj : MissingDestructor(o)
  BY <1>2, SameRootVars DEF AddRoots, SweepScan, MissingDestructor, sweepVars
<1>3. CASE \E o \in Obj : Mark(o)
  BY <1>3, SameRootVars DEF Mark, UndefinedBehaviour, sweepVars
<1>4. CASE \E o \in Obj : BeginDestructor(o)
  BY <1>4, BeginDestructorTransparent
<1>5. CASE FinishDestructor
  BY <1>5, FinishDestructorTransparent
<1>6. CASE FinishSweep
  <2>1. UNCHANGED rootVars
    BY <1>6 DEF FinishSweep, ProgramModes, rootVars
  <2>. QED  BY <1>6, <2>1, SameRootVars DEF FinishSweep
<1>. QED
  BY <1>1, <1>2, <1>3, <1>4, <1>5, <1>6
     DEF Next, Collector, DestructorFails, BeginClear, FinishClear

(* The steps of a collection in which no destructor has failed leave the   *)
(* globals, and the operands and frames of the program they interrupt, as  *)
(* they were, whatever else destructors do, as long as they assign no      *)
(* globals.  Of what objects hold it says nothing.                         *)
THEOREM CollectionsAreTransparent ==
    ASSUME "SetStatic" \notin DtorOps
    PROVE  Spec => CollectionIsTransparent
<1>1. TypeInv /\ TypeInv' /\ [Next]_vars =>
        [(mode \in {"roots", "mark", "sweep"} /\ mode' \in ProgramModes /\ ~firstError')
           => (ProgramState' = ProgramState)]_vars
  BY CollectionStepTransparent
<1>. QED
  BY <1>1, AlwaysTypeInv, PTL DEF Spec, CollectionIsTransparent
-----------------------------------------------------------------------------
(* Clear returns all memory. *)

(* Outside the exit the repository is the heap, and while Clear succeeds   *)
(* everything that is left is still to be deleted.                         *)
ClearInv ==
    /\ mode # "exited" => objects = allocated
    /\ mode = "clear" /\ ~firstError => objects \subseteq Condemned
    /\ mode = "exited" /\ ~firstError => allocated = {}

(* Destructors that allocate nothing.                                      *)
LEMMA HeapKept ==
    ASSUME "CallConstructor" \notin DtorOps, InDestructor, Command
    PROVE  UNCHANGED <<allocated, objects>>
<1>1. ~CallConstructor
  BY DEF CallConstructor, MayExecute, InDestructor
<1>. QED
  BY <1>1 DEF Command, LoadLocal, SetLocal, LoadStatic, SetStatic, Pop,
              GetField, SetField, UndefinedBehaviour, Call, Return,
              ForceGarbageCollection, RunProgramReturns, Crash, heapVars

LEMMA CommandRepositoryIsHeap ==
    ASSUME objects = allocated, Command
    PROVE  objects' = allocated'
  BY DEF Command, CallConstructor, LoadLocal, SetLocal, LoadStatic, SetStatic,
         Pop, GetField, SetField, UndefinedBehaviour, Call, Return,
         ForceGarbageCollection, RunProgramReturns, Crash, heapVars

LEMMA CommandClearInv ==
    ASSUME "CallConstructor" \notin DtorOps, TypeInv, ClearInv, Command
    PROVE  ClearInv'
<1>1. mode = "run" \/ InDestructor
  BY CommandRuns
<1>2. objects' = allocated'
  BY <1>1, CommandRepositoryIsHeap DEF ClearInv, InDestructor
<1>3. CASE mode = "run"
  <2>1. mode' \in {"run", "roots", "down", "crashed", "undefined"}
    BY <1>3 DEF Command, CallConstructor, LoadLocal, SetLocal, LoadStatic,
                SetStatic, Pop, GetField, SetField, Call, Return,
                ForceGarbageCollection, RunProgramReturns, Crash,
                UndefinedBehaviour, AfterCommand
  <2>. QED  BY <1>2, <2>1 DEF ClearInv
<1>4. CASE InDestructor
  <2>1. UNCHANGED <<toDelete, victim, firstError>> /\ mode' \in {mode, "crashed", "undefined"}
    BY <1>4, DestructorCommandUndisturbed DEF Undisturbed, sweepVars
  <2>. QED
    BY <1>2, <1>4, <2>1, HeapKept DEF ClearInv, Condemned, InDestructor
<1>. QED  BY <1>1, <1>3, <1>4

LEMMA CollectorClearInv ==
    ASSUME TypeInv, TypeInv', ClearInv, Collector
    PROVE  ClearInv'
<1> USE DEF ClearInv, Condemned, heapVars
<1>1. CASE AddRoots \/ SweepScan \/ BeginClear
  BY <1>1 DEF AddRoots, SweepScan, BeginClear
<1>2. ASSUME NEW o \in Obj, Mark(o) PROVE ClearInv'
  BY <1>2 DEF Mark, UndefinedBehaviour
<1>3. ASSUME NEW o \in Obj, BeginDestructor(o) PROVE ClearInv'
  <2>1. Null \notin objects
    BY NullAssumption DEF TypeInv, TypeOK
  <2>. QED  BY <1>3, <2>1 DEF BeginDestructor
<1>4. CASE FinishDestructor
  BY <1>4 DEF FinishDestructor, InDestructor, Release
<1>5. CASE DestructorFails
  BY <1>5 DEF DestructorFails, InDestructor
<1>6. ASSUME NEW o \in Obj, MissingDestructor(o) PROVE ClearInv'
  BY <1>6 DEF MissingDestructor, Release
<1>7. CASE FinishSweep
  BY <1>7 DEF FinishSweep
<1>8. CASE FinishClear
  <2>1. Null \notin objects
    BY NullAssumption DEF TypeInv, TypeOK
  <2>. QED  BY <1>8, <2>1 DEF FinishClear, sweepVars
<1>. QED
  BY <1>1, <1>2, <1>3, <1>4, <1>5, <1>6, <1>7, <1>8 DEF Collector

(* After a Clear without error no memory is left, if destructors allocate  *)
(* nothing.                                                                *)
THEOREM ClearLeavesNothing ==
    ASSUME "CallConstructor" \notin DtorOps
    PROVE  Spec => []ClearReleasesEverything
<1>1. Init => ClearInv
  BY DEF Init, ClearInv
<1>2. TypeInv /\ ClearInv /\ [Next]_vars => ClearInv'
  <2>1. CASE UNCHANGED vars
    BY <2>1 DEF vars, ClearInv, Condemned
  <2>. QED
    BY <2>1, NextTypeInv, CommandClearInv, CollectorClearInv DEF Next
<1>3. ClearInv => ClearReleasesEverything
  BY DEF ClearInv, ClearReleasesEverything
<1>. QED
  BY <1>1, <1>2, <1>3, AlwaysTypeInv, PTL DEF Spec
-----------------------------------------------------------------------------
(* A collection finds all the garbage. *)

(* Destructors that use no heap: they copy references between their own    *)
(* locals and operands, call, fail or are missing.                         *)
QuietDestructors ==
    DtorOps \cap {"CallConstructor", "GetField", "SetField", "SetStatic"} = {}

Survivors == objects \ Condemned

(* While the objects to delete are walked without error, what will be left *)
(* is the smallest closed set that holds the program's roots.              *)
CompleteInv ==
    mode = "sweep" /\ ~firstError =>
        /\ ProgramRoots \subseteq Survivors /\ Closed(Survivors)
        /\ \A S \in SUBSET Survivors :
             ProgramRoots \subseteq S /\ Closed(S) => S = Survivors

NothingUnreachable ==
    \A S \in SUBSET Obj :
        ProgramRoots \subseteq S /\ Closed(S) => objects \subseteq S

LEMMA QuietCommand ==
    ASSUME QuietDestructors, TypeInv, TypeInv', InDestructor, Command
    PROVE  /\ UNCHANGED <<heapVars, toDelete, victim, base, firstError>>
           /\ UNCHANGED <<ProgramState, ProgramRoots>>
           /\ mode' = mode
<1>1. /\ ~CallConstructor /\ ~Crash
      /\ \A f \in Field : ~GetField(f) /\ ~SetField(f)
  BY DEF CallConstructor, GetField, SetField, Crash, MayExecute, InDestructor,
         QuietDestructors
<1>2. UNCHANGED heapVars /\ mode' = mode
  BY <1>1, NoNestedCollection
     DEF Command, LoadLocal, SetLocal, LoadStatic, SetStatic, Pop, Call, Return,
         ForceGarbageCollection, RunProgramReturns, heapVars
<1>3. UNCHANGED <<toDelete, victim, base, firstError>>
  BY DestructorCommandUndisturbed DEF Undisturbed, sweepVars
<1>4. UNCHANGED ProgramState
  BY GlobalsKept, DestructorCommandUndisturbed, UndisturbedProgram
     DEF QuietDestructors
<1>5. UNCHANGED ProgramRoots
  BY <1>4 DEF ProgramState, ProgramRoots
<1>. QED  BY <1>2, <1>3, <1>4, <1>5

LEMMA SameSurvivors ==
    ASSUME CompleteInv, mode = "sweep", ~firstError,
           Survivors' = Survivors, ProgramRoots' = ProgramRoots,
           \A o \in Survivors : fields'[o] = fields[o]
    PROVE  CompleteInv'
<1>1. \A S \in SUBSET Survivors : Closed(S)' <=> Closed(S)
  BY DEF Closed
<1>. QED  BY <1>1 DEF CompleteInv

(* Marking ends with the black objects: reachable, closed, and no others.  *)
LEMMA SweepScanComplete ==
    ASSUME TypeInv, SafetyInv, SweepScan
    PROVE  CompleteInv'
<1>1. /\ mode = "mark" /\ worklist = {} /\ victim = Null
      /\ toDelete' = objects \ marked
      /\ UNCHANGED <<heapVars, rootVars, victim, base>>
  BY DEF SweepScan, TypeInv, Nesting
<1>2. marked \subseteq objects /\ Null \notin objects /\ objects \subseteq Obj
  BY <1>1, GreyIsAllocated, NullAssumption DEF SafetyInv, TypeInv, TypeOK
<1>3. ProgramRoots' = ProgramRoots
  BY <1>1, SameRootVars
<1>4. Survivors' = marked
  BY <1>1, <1>2 DEF Survivors, Condemned, heapVars
<1>5. ProgramRoots \subseteq marked /\ Closed(marked)
  BY <1>1 DEF SafetyInv, TriColour, Closed
<1>6. \A S \in SUBSET marked : ProgramRoots \subseteq S /\ Closed(S) => S = marked
  BY <1>1, <1>2 DEF SafetyInv, MarksReachable
<1>7. \A S : Closed(S)' <=> Closed(S)
  BY <1>1 DEF Closed, heapVars
<1>. QED  BY <1>3, <1>4, <1>5, <1>6, <1>7 DEF CompleteInv

LEMMA NextCompleteInv ==
    ASSUME QuietDestructors, TypeInv, TypeInv', SafetyInv, CompleteInv, Next
    PROVE  CompleteInv'
<1> SUFFICES ASSUME mode' = "sweep", ~firstError' PROVE CompleteInv'
  BY DEF CompleteInv
<1>1. Null \notin objects /\ victim \in Ref
  BY NullAssumption DEF TypeInv, TypeOK
<1>2. CASE SweepScan
  BY <1>2, SweepScanComplete
<1>3. CASE Command
  <2>1. mode # "run"
    BY <1>3 DEF Command, CallConstructor, LoadLocal, SetLocal, LoadStatic,
                SetStatic, Pop, GetField, SetField, Call, Return,
                ForceGarbageCollection, RunProgramReturns, Crash,
                UndefinedBehaviour, AfterCommand
  <2>2. InDestructor
    BY <1>3, <2>1, CommandRuns
  <2>. QED
    BY <1>3, <2>2, QuietCommand, SameSurvivors DEF Survivors, Condemned, heapVars
<1>4. ASSUME NEW o \in Obj, BeginDestructor(o) PROVE CompleteInv'
  <2>1. mode = "sweep" /\ ~firstError
    BY <1>4 DEF BeginDestructor
  <2>2. Survivors' = Survivors /\ UNCHANGED fields
    BY <1>1, <1>4 DEF BeginDestructor, Survivors, Condemned, heapVars
  <2>3. ProgramRoots' = ProgramRoots
    BY <1>4, BeginDestructorTransparent DEF ProgramState, ProgramRoots
  <2>. QED  BY <2>1, <2>2, <2>3, SameSurvivors
<1>5. CASE FinishDestructor
  <2>1. /\ mode = "sweep" /\ ~firstError /\ victim' = Null /\ UNCHANGED toDelete
        /\ objects' = objects \ {victim}
        /\ fields' = [fields EXCEPT ![victim] = NoFields]
    BY <1>5 DEF FinishDestructor, Release
  <2>2. Survivors' = Survivors
    BY <1>1, <2>1 DEF Survivors, Condemned
  <2>3. \A o \in Survivors : fields'[o] = fields[o]
    BY <2>1 DEF Survivors, Condemned, TypeInv, TypeOK
  <2>4. ProgramRoots' = ProgramRoots
    BY <1>5, FinishDestructorTransparent DEF ProgramState, ProgramRoots
  <2>. QED  BY <2>1, <2>2, <2>3, <2>4, SameSurvivors
<1>. QED
  BY <1>2, <1>3, <1>4, <1>5
     DEF Next, Collector, AddRoots, Mark, UndefinedBehaviour, DestructorFails,
         MissingDestructor, FinishSweep, BeginClear, FinishClear

(* Once all of them are gone, nothing unreachable is left.                 *)
LEMMA SweepLeavesNoGarbage ==
    ASSUME TypeInv, CompleteInv, FinishSweep, mode' \in {"run", "roots"}
    PROVE  NothingUnreachable
<1>1. mode = "sweep" /\ ~firstError /\ toDelete = {} /\ victim = Null
  BY DEF FinishSweep
<1>2. Survivors = objects
  BY <1>1, NullAssumption DEF Survivors, Condemned, TypeInv, TypeOK
<1> SUFFICES ASSUME NEW S \in SUBSET Obj, ProgramRoots \subseteq S, Closed(S)
             PROVE  objects \subseteq S
  BY DEF NothingUnreachable
<1>3. ProgramRoots \subseteq S \cap objects /\ Closed(S \cap objects)
  BY <1>1, <1>2 DEF CompleteInv, Closed
<1>4. S \cap objects = objects
  BY <1>1, <1>2, <1>3 DEF CompleteInv
<1>. QED  BY <1>4

LEMMA AlwaysCompleteInv ==
    ASSUME QuietDestructors
    PROVE  Spec => [](TypeInv /\ SafetyInv /\ CompleteInv)
<1>1. DiscreetDestructors
  BY DEF QuietDestructors, DiscreetDestructors
<1>2. Init => CompleteInv
  BY DEF Init, CompleteInv
<1>3. ASSUME CompleteInv, UNCHANGED vars PROVE CompleteInv'
  <2>1. UNCHANGED <<ProgramRoots, Survivors>>
    BY <1>3, SameRootVars DEF vars, rootVars, Survivors, Condemned
  <2>. QED  BY <1>3, <2>1 DEF vars, CompleteInv, Closed
<1>4. TypeInv /\ SafetyInv /\ CompleteInv /\ [Next]_vars => CompleteInv'
  BY <1>3, NextTypeInv, NextCompleteInv
<1>. QED
  BY <1>1, <1>2, <1>4, AlwaysSafetyInv, PTL DEF Spec

(* A collection without error leaves only objects that the program can     *)
(* still reach, whatever the shape of the garbage.                         *)
THEOREM CollectionsAreComplete ==
    ASSUME QuietDestructors
    PROVE  Spec => CollectionIsComplete
<1>1. ASSUME TypeInv, TypeInv', CompleteInv, Next,
             mode = "sweep", mode' \in {"run", "roots"}
      PROVE  NothingUnreachable
  <2>1. CASE Command
    <3>1. InDestructor
      BY <1>1, <2>1, CommandRuns
    <3>. QED  BY <1>1, <2>1, <3>1, QuietCommand
  <2>2. CASE FinishSweep
    BY <1>1, <2>2, SweepLeavesNoGarbage
  <2>. QED
    BY <1>1, <2>1, <2>2
       DEF Next, Collector, AddRoots, Mark, SweepScan, BeginDestructor,
           FinishDestructor, DestructorFails, MissingDestructor, BeginClear,
           FinishClear, UndefinedBehaviour
<1>2. TypeInv /\ TypeInv' /\ CompleteInv /\ [Next]_vars =>
        [mode = "sweep" /\ mode' \in {"run", "roots"} =>
           \A S \in SUBSET Obj :
             ProgramRoots \subseteq S /\ Closed(S) => objects \subseteq S]_vars
  BY <1>1 DEF NothingUnreachable
<1>. QED
  BY <1>2, AlwaysCompleteInv, PTL DEF Spec, CollectionIsComplete
-----------------------------------------------------------------------------
(* Garbage stays bounded. *)

(* A command of the program that ends below the threshold needs no          *)
(* collection; Call, which ends only with the callee's Return, drops        *)
(* nothing.                                                                *)
LEMMA ProgramCommandBounded ==
    ASSUME TypeInv, TypeInv', GarbageIsBounded, mode = "run", Command, ~Call
    PROVE  GarbageIsBounded'
<1>1. victim = Null /\ ~gcInProgress /\ ~InDestructor
  BY DEF TypeInv, Nesting, InDestructor
<1>2. ASSUME AfterCommand(objects') PROVE GarbageIsBounded'
  BY <1>1, <1>2 DEF AfterCommand, GarbageIsBounded
<1>3. AfterCommand(objects') \/ mode' # "run"
  BY <1>1 DEF Command, CallConstructor, LoadLocal, SetLocal, LoadStatic,
              SetStatic, Pop, GetField, SetField, Return,
              ForceGarbageCollection, RunProgramReturns, Crash,
              UndefinedBehaviour, heapVars
<1>. QED  BY <1>2, <1>3 DEF GarbageIsBounded

LEMMA CallKeepsRoots ==
    ASSUME TypeInv, TypeInv', mode = "run", Call
    PROVE  ProgramRoots \subseteq ProgramRoots'
<1>1. /\ Operands >= 1 /\ victim = Null /\ victim' = Null
      /\ MayExecute("Call") /\ UNCHANGED globals
      /\ frames' = Append(frames, [EmptyFrame EXCEPT ![This] = Top])
      /\ stack' = Popped(1)
  BY DEF Call, TypeInv, Nesting, sweepVars
<1>2. /\ frames \in Seq(Frame) /\ stack \in Seq(Ref)
      /\ Len(frames) \in Nat /\ Len(stack) \in Nat /\ Len(stack) >= 1
      /\ Top \in Ref
  BY <1>1, CommandContext DEF TypeInv, TypeOK
<1>3. [EmptyFrame EXCEPT ![This] = Top] \in Frame
  BY <1>2, EmptyFrameIsFrame DEF Frame
<1>4. /\ Len(frames') = Len(frames) + 1
      /\ \A i \in 1..Len(frames) : frames'[i] = frames[i]
      /\ frames'[Len(frames) + 1] = [EmptyFrame EXCEPT ![This] = Top]
  BY <1>1, <1>2, <1>3, AppendFacts
<1>5. frames'[Len(frames) + 1][This] = Top
  BY <1>4, ThisAssumption DEF EmptyFrame
<1>6. /\ Len(stack') = Len(stack) - 1
      /\ \A i \in 1..Len(stack') : stack'[i] = stack[i]
  <2>1. 1 \in Nat /\ 1 <= Len(stack)
    BY <1>2
  <2>. QED  BY <1>1, <1>2, <2>1, PoppedFacts
<1> DEFINE R == ProgramRoots'
<1>7. /\ \A s \in Static : globals'[s] \in R \cup {Null}
      /\ \A i \in 1..Len(frames'), l \in Slot : frames'[i][l] \in R \cup {Null}
      /\ \A i \in 1..Len(stack') : stack'[i] \in R \cup {Null}
  <2>1. DOMAIN frames' = 1..Len(frames') /\ DOMAIN stack' = 1..Len(stack')
    BY DEF TypeInv, TypeOK
  <2>. QED  BY <1>1, <2>1 DEF ProgramRoots, ProgramFrames, ProgramStack
<1> HIDE DEF R
<1>8. \A s \in Static : globals[s] \in R \cup {Null}
  BY <1>1, <1>7
<1>9. \A i \in 1..Len(frames), l \in Slot : frames[i][l] \in R \cup {Null}
  <2>1. \A i \in 1..Len(frames) : i \in 1..Len(frames')
    BY <1>2, <1>4
  <2>. QED  BY <1>4, <1>7, <2>1
<1>10. \A i \in 1..Len(stack) : stack[i] \in R \cup {Null}
  <2>1. Top \in R \cup {Null}
    <3>1. Len(frames) + 1 \in 1..Len(frames')
      BY <1>2, <1>4
    <3>. QED  BY <1>5, <1>7, <3>1, ThisAssumption
  <2>2. \A i \in 1..Len(stack) : i = Len(stack) \/ i \in 1..Len(stack')
    BY <1>2, <1>6
  <2>. QED  BY <1>6, <1>7, <2>1, <2>2 DEF Top
<1>11. DOMAIN frames = 1..Len(frames) /\ DOMAIN stack = 1..Len(stack)
  BY <1>2
<1>12. ProgramRoots \subseteq R
  BY <1>1, <1>8, <1>9, <1>10, <1>11 DEF ProgramRoots, ProgramFrames, ProgramStack
<1>. QED  BY <1>12 DEF R

LEMMA NextBounded ==
    ASSUME QuietDestructors, TypeInv, TypeInv', CompleteInv, GarbageIsBounded, Next
    PROVE  GarbageIsBounded'
<1> SUFFICES ASSUME mode' = "run" PROVE GarbageIsBounded'
  BY DEF GarbageIsBounded
<1>1. CASE mode = "run" /\ Call
  <2>1. ProgramRoots \subseteq ProgramRoots' /\ UNCHANGED heapVars
    BY <1>1, CallKeepsRoots DEF Call
  <2>. QED  BY <1>1, <2>1 DEF GarbageIsBounded, Closed, heapVars
<1>2. CASE mode = "run" /\ Command /\ ~Call
  BY <1>2, ProgramCommandBounded
<1>3. CASE mode # "run" /\ Command
  <2>1. InDestructor
    BY <1>3, CommandRuns
  <2>. QED  BY <1>3, <2>1, QuietCommand
<1>4. CASE FinishSweep
  <2>1. NothingUnreachable
    BY <1>4, SweepLeavesNoGarbage
  <2>2. UNCHANGED <<rootVars, victim, base, heapVars>>
    BY <1>4 DEF FinishSweep, rootVars
  <2>3. ProgramRoots' = ProgramRoots
    BY <2>2, SameRootVars
  <2>. QED
    BY <2>1, <2>2, <2>3 DEF NothingUnreachable, GarbageIsBounded, Closed, heapVars
<1>. QED
  BY <1>1, <1>2, <1>3, <1>4
     DEF Next, Collector, AddRoots, Mark, SweepScan, BeginDestructor,
         FinishDestructor, DestructorFails, MissingDestructor, BeginClear,
         FinishClear, UndefinedBehaviour, InDestructor

(* Between two commands there are at most Threshold objects, unless the    *)
(* program can reach every one of them.                                    *)
THEOREM GarbageStaysBounded ==
    ASSUME QuietDestructors
    PROVE  Spec => []GarbageIsBounded
<1>1. Init => GarbageIsBounded
  <2> SUFFICES ASSUME Init PROVE ~(Cardinality(objects) > Threshold)
    BY DEF GarbageIsBounded
  <2>1. Cardinality(objects) = 0
    BY FS_EmptySet DEF Init
  <2>. QED  BY <2>1, ThresholdAssumption
<1>2. TypeInv /\ CompleteInv /\ GarbageIsBounded /\ [Next]_vars => GarbageIsBounded'
  <2>1. ASSUME GarbageIsBounded, UNCHANGED vars PROVE GarbageIsBounded'
    <3>1. ProgramRoots' = ProgramRoots
      BY <2>1, SameRootVars DEF vars, rootVars
    <3>. QED  BY <2>1, <3>1 DEF GarbageIsBounded, Closed, vars
  <2>. QED  BY <2>1, NextTypeInv, NextBounded
<1>. QED
  BY <1>1, <1>2, AlwaysCompleteInv, PTL DEF Spec
-----------------------------------------------------------------------------
(* The collector implements the managed heap. *)

(* Quiet destructors that, if they can fail, leave no operand behind: a    *)
(* failed destructor's frames are popped and its operands are not.         *)
TidyDestructors ==
    /\ QuietDestructors
    /\ "Fail" \in DtorOps => DtorOps \cap {"LoadLocal", "LoadStatic"} = {}

(* Free addresses hold no references; a destructor that can fail has no    *)
(* operands; and after an error too what the program reaches is not about  *)
(* to be deleted.                                                          *)
HeapInv ==
    /\ \A o \in Obj \ allocated : fields[o] = NoFields
    /\ "Fail" \in DtorOps /\ victim # Null => Len(stack) = base.stack
    /\ mode \in ProgramModes =>
         \E S \in SUBSET (allocated \ Condemned) :
            ProgramRoots \subseteq S /\ Closed(S)

(* What the program can name after a command that moves its references and *)
(* those of V.                                                             *)
LEMMA ProgramCommandRoots ==
    ASSUME TypeInv, TypeInv', mode = "run", NEW op, MayExecute(op),
           UNCHANGED sweepVars, NEW V, ProgramRoots \subseteq V,
           \/ globals' = globals
           \/ \E s \in Static : Operands >= 1 /\ globals' = [globals EXCEPT ![s] = Top],
           \/ frames' = frames
           \/ \E l \in Slot :
                Operands >= 1 /\ frames' = [frames EXCEPT ![Len(frames)][l] = Top]
           \/ Operands >= 1 /\ frames' = Append(frames, [EmptyFrame EXCEPT ![This] = Top])
           \/ frames' = SubSeq(frames, 1, Len(frames) - 1),
           \/ stack' = stack
           \/ \E v \in Ref \cap (V \cup {Null}) : stack' = Append(stack, v)
           \/ \E n \in {1, 2} : Operands >= n /\ stack' = Popped(n)
           \/ /\ Operands >= 1
              /\ \E v \in Ref \cap (V \cup {Null}) : stack' = Append(Popped(1), v)
    PROVE  ProgramRoots' \subseteq V
<1>1. /\ victim = Null /\ victim' = Null
      /\ frames \in Seq(Frame) /\ stack \in Seq(Ref) /\ globals \in [Static -> Ref]
      /\ Len(frames) \in Nat /\ Len(frames) >= 1 /\ Len(stack) \in Nat
      /\ Operands = Len(stack) /\ TopFrame \in Frame
      /\ Operands >= 1 => Top \in Ref
  BY CommandContext DEF TypeInv, TypeOK, Nesting, sweepVars, Operands
<1>2. /\ \A s \in Static : globals[s] \in V \cup {Null}
      /\ \A i \in 1..Len(frames), l \in Slot : frames[i][l] \in V \cup {Null}
      /\ \A i \in 1..Len(stack) : stack[i] \in V \cup {Null}
  BY <1>1, HeldValues
<1>3. Operands >= 1 => Top \in V \cup {Null}
  <2>1. Operands >= 1 => Len(stack) \in 1..Len(stack)
    BY <1>1
  <2>. QED  BY <1>2, <2>1 DEF Top
<1>4. \A s \in Static : globals'[s] \in V \cup {Null}
  BY <1>1, <1>2, <1>3
<1>5. \A i \in 1..Len(frames'), l \in Slot : frames'[i][l] \in V \cup {Null}
  <2>1. ASSUME NEW k \in Slot, Operands >= 1,
               frames' = [frames EXCEPT ![Len(frames)][k] = Top]
        PROVE  \A i \in 1..Len(frames'), l \in Slot : frames'[i][l] \in V \cup {Null}
    <3>1. /\ Len(frames') = Len(frames)
          /\ \A i \in 1..Len(frames) : i # Len(frames) => frames'[i] = frames[i]
          /\ frames'[Len(frames)] = [TopFrame EXCEPT ![k] = Top]
      BY <1>1, <2>1 DEF TopFrame
    <3>2. \A l \in Slot : \/ frames'[Len(frames)][l] = frames[Len(frames)][l]
                         \/ frames'[Len(frames)][l] = Top
      BY <1>1, <3>1 DEF TopFrame, Frame
    <3>3. \A i \in 1..Len(frames), l \in Slot :
            frames'[i][l] = frames[i][l] \/ frames'[i][l] = Top
      BY <3>1, <3>2
    <3>4. Top \in V \cup {Null} /\ Len(frames') = Len(frames)
      BY <1>3, <2>1, <3>1
    <3>. QED  BY ONLY <1>2, <3>3, <3>4
  <2>2. ASSUME Operands >= 1, frames' = Append(frames, [EmptyFrame EXCEPT ![This] = Top])
        PROVE  \A i \in 1..Len(frames'), l \in Slot : frames'[i][l] \in V \cup {Null}
    <3>1. [EmptyFrame EXCEPT ![This] = Top] \in Frame
      BY <1>1, <2>2, EmptyFrameIsFrame DEF Frame
    <3>2. /\ Len(frames') = Len(frames) + 1
          /\ \A i \in 1..Len(frames) : frames'[i] = frames[i]
          /\ frames'[Len(frames) + 1] = [EmptyFrame EXCEPT ![This] = Top]
      BY <1>1, <2>2, <3>1, AppendFacts
    <3>3. \A l \in Slot : frames'[Len(frames) + 1][l] \in {Null, Top}
      BY <3>2 DEF EmptyFrame
    <3>4. \A i \in 1..Len(frames') : i \in 1..Len(frames) \/ i = Len(frames) + 1
      BY <1>1, <3>2
    <3>. QED  BY <1>2, <1>3, <2>2, <3>2, <3>3, <3>4
  <2>3. ASSUME frames' = SubSeq(frames, 1, Len(frames) - 1)
        PROVE  \A i \in 1..Len(frames'), l \in Slot : frames'[i][l] \in V \cup {Null}
    <3>1. Len(frames) - 1 \in Nat /\ Len(frames) - 1 <= Len(frames)
      BY <1>1
    <3>2. /\ Len(frames') = Len(frames) - 1
          /\ \A i \in 1..Len(frames') : frames'[i] = frames[i]
      BY <1>1, <2>3, <3>1, PrefixFacts
    <3>3. \A i \in 1..Len(frames') : i \in 1..Len(frames)
      BY <1>1, <3>2
    <3>. QED  BY <1>2, <3>2, <3>3
  <2>. QED  BY <1>2, <2>1, <2>2, <2>3
<1>6. \A i \in 1..Len(stack') : stack'[i] \in V \cup {Null}
  <2>1. ASSUME NEW v \in Ref \cap (V \cup {Null}), stack' = Append(stack, v)
        PROVE  \A i \in 1..Len(stack') : stack'[i] \in V \cup {Null}
    <3>1. /\ Len(stack') = Len(stack) + 1
          /\ \A i \in 1..Len(stack) : stack'[i] = stack[i]
          /\ stack'[Len(stack) + 1] = v
      BY <1>1, <2>1, AppendFacts
    <3>2. \A i \in 1..Len(stack') : i \in 1..Len(stack) \/ i = Len(stack) + 1
      BY <1>1, <3>1
    <3>. QED  BY <1>2, <2>1, <3>1, <3>2
  <2>2. ASSUME NEW n \in {1, 2}, Operands >= n
        PROVE  /\ Popped(n) \in Seq(Ref) /\ Len(Popped(n)) = Len(stack) - n
               /\ \A i \in 1..Len(Popped(n)) : Popped(n)[i] \in V \cup {Null}
    <3>1. n \in Nat /\ n <= Len(stack)
      BY <1>1, <2>2
    <3>2. /\ Popped(n) \in Seq(Ref) /\ Len(Popped(n)) = Len(stack) - n
          /\ \A i \in 1..Len(Popped(n)) : Popped(n)[i] = stack[i]
      BY <1>1, <3>1, PoppedFacts
    <3>3. \A i \in 1..Len(Popped(n)) : i \in 1..Len(stack)
      BY <1>1, <3>1, <3>2
    <3>. QED  BY <1>2, <3>2, <3>3
  <2>3. ASSUME NEW v \in Ref \cap (V \cup {Null}), Operands >= 1,
               stack' = Append(Popped(1), v)
        PROVE  \A i \in 1..Len(stack') : stack'[i] \in V \cup {Null}
    <3>1. /\ Popped(1) \in Seq(Ref) /\ Len(Popped(1)) = Len(stack) - 1
          /\ \A i \in 1..Len(Popped(1)) : Popped(1)[i] \in V \cup {Null}
      BY <2>2, <2>3
    <3>2. /\ Len(stack') = Len(Popped(1)) + 1
          /\ \A i \in 1..Len(Popped(1)) : stack'[i] = Popped(1)[i]
          /\ stack'[Len(Popped(1)) + 1] = v
      BY <2>3, <3>1, AppendFacts
    <3>3. \A i \in 1..Len(stack') : i \in 1..Len(Popped(1)) \/ i = Len(Popped(1)) + 1
      BY <1>1, <2>3, <3>1, <3>2
    <3>. QED  BY <2>3, <3>1, <3>2, <3>3
  <2>. QED  BY <1>2, <2>1, <2>2, <2>3
<1>. QED  BY <1>1, <1>4, <1>5, <1>6, RootsFromValues

(* Every command of the program is a step of the managed heap.             *)
Stutters == UNCHANGED Heap!vars
Runs == mode \in ProgramModes \cup {"crashed", "undefined"}

LEMMA LoadStep ==
    ASSUME Runs, Runs', UNCHANGED <<allocated, fields>>,
           \/ ProgramRoots' \subseteq ProgramRoots
           \/ \E r \in ProgramRoots, f \in Field :
                ProgramRoots' \subseteq ProgramRoots \cup ({fields[r][f]} \ {Null})
    PROVE  Heap!Next
<1>1. ProgramRoots' \in SUBSET Heap!Nameable
  BY DEF Heap!Nameable
<1>2. Runs' = Runs
  BY DEF Runs
<1>. QED  BY <1>1, <1>2 DEF Heap!Next, Heap!Load, Runs

LEMMA ProgramCommandImplements ==
    ASSUME TypeInv, TypeInv', SafetyInv, SafetyInv', HeapInv, mode = "run", Command
    PROVE  Heap!Next \/ Stutters
<1> USE DEF Pushed, heapVars, rootVars
<1>1. /\ victim = Null /\ ~InDestructor /\ objects = allocated /\ mode' # "undefined"
      /\ frames \in Seq(Frame) /\ stack \in Seq(Ref) /\ globals \in [Static -> Ref]
      /\ Runs
  BY DEF TypeInv, TypeOK, Nesting, InDestructor, SafetyInv, NoUseAfterFree, Runs,
         ProgramModes
<1>2. \A R : AfterCommand(R) => Runs'
  BY DEF AfterCommand, Runs, ProgramModes
<1>3. Operands >= 1 => Len(stack) \in 1..Len(stack) /\ (Top = Null \/ Top \in ProgramRoots)
  <2>1. Operands >= 1 => Len(stack) \in 1..Len(stack)
    BY <1>1 DEF Operands
  <2>. QED  BY <1>1, <2>1, HeldValues DEF Top
<1>4. CASE CallConstructor
  <2>1. PICK o \in Obj \ allocated :
          /\ allocated' = allocated \cup {o}
          /\ fields' = [fields EXCEPT ![o] = NoFields]
          /\ stack' = Append(stack, o)
          /\ AfterCommand(objects \cup {o})
    BY <1>4 DEF CallConstructor
  <2>2. /\ MayExecute("CallConstructor")
        /\ UNCHANGED <<globals, frames, worklist, sweepVars, forced>>
    BY <1>4 DEF CallConstructor
  <2>3. fields' = fields
    BY <2>1 DEF HeapInv, TypeInv, TypeOK
  <2>4. ProgramRoots' \subseteq ProgramRoots \cup {o}
    <3>1. o \in Ref \cap (ProgramRoots \cup {o} \cup {Null})
      BY DEF Ref
    <3>. QED  BY <2>1, <2>2, <3>1, ProgramCommandRoots
  <2>5. ProgramRoots \cup {o} \subseteq ProgramRoots'
    <3>1. victim' = Null
      BY <1>1, <2>2 DEF sweepVars
    <3>2. /\ Len(stack) \in Nat /\ Len(stack') = Len(stack) + 1
          /\ \A i \in 1..Len(stack) : stack'[i] = stack[i]
          /\ stack'[Len(stack) + 1] = o
          /\ DOMAIN stack = 1..Len(stack) /\ DOMAIN stack' = 1..Len(stack')
      BY <1>1, <2>1, AppendFacts DEF Ref
    <3>3. {stack[i] : i \in DOMAIN stack} \cup {o} \subseteq {stack'[i] : i \in DOMAIN stack'}
      BY <3>2
    <3>4. /\ ProgramFrames' = ProgramFrames /\ globals' = globals /\ o # Null
          /\ ProgramStack = stack /\ ProgramStack' = stack'
      BY <1>1, <2>2, <3>1, NullAssumption DEF ProgramFrames, ProgramStack
    <3>. QED  BY ONLY <3>3, <3>4 DEF ProgramRoots
  <2>6. Heap!Allocate(o)
    BY <1>1, <1>2, <2>1, <2>3, <2>4, <2>5 DEF Heap!Allocate, Runs
  <2>. QED  BY <2>6 DEF Heap!Next
<1>5. ASSUME NEW l \in Slot, LoadLocal(l) PROVE Heap!Next
  <2>1. TopFrame[l] \in Ref \cap (ProgramRoots \cup {Null})
    <3>1. Len(frames) \in 1..Len(frames) /\ TopFrame \in Frame
      BY <1>5, CommandContext DEF LoadLocal
    <3>. QED  BY <1>1, <3>1, HeldValues DEF TopFrame, Frame
  <2>2. ProgramRoots' \subseteq ProgramRoots
    BY <1>5, <2>1, ProgramCommandRoots DEF LoadLocal
  <2>. QED  BY <1>1, <1>2, <1>5, <2>2, LoadStep DEF LoadLocal
<1>6. ASSUME NEW s \in Static, LoadStatic(s) PROVE Heap!Next
  <2>1. globals[s] \in Ref \cap (ProgramRoots \cup {Null})
    BY <1>1, HeldValues
  <2>2. ProgramRoots' \subseteq ProgramRoots
    BY <1>6, <2>1, ProgramCommandRoots DEF LoadStatic
  <2>. QED  BY <1>1, <1>2, <1>6, <2>2, LoadStep DEF LoadStatic
<1>7. ASSUME NEW l \in Slot, SetLocal(l) PROVE Heap!Next
  <2>1. ProgramRoots' \subseteq ProgramRoots
    BY <1>7, ProgramCommandRoots DEF SetLocal
  <2>. QED  BY <1>1, <1>2, <1>7, <2>1, LoadStep DEF SetLocal
<1>8. ASSUME NEW s \in Static, SetStatic(s) PROVE Heap!Next
  <2>1. ProgramRoots' \subseteq ProgramRoots
    BY <1>8, ProgramCommandRoots DEF SetStatic
  <2>. QED  BY <1>1, <1>2, <1>8, <2>1, LoadStep DEF SetStatic
<1>9. CASE Pop
  <2>1. ProgramRoots' \subseteq ProgramRoots
    BY <1>9, ProgramCommandRoots DEF Pop
  <2>. QED  BY <1>1, <1>2, <1>9, <2>1, LoadStep DEF Pop
<1>10. CASE Call
  <2>1. ProgramRoots' \subseteq ProgramRoots
    BY <1>10, ProgramCommandRoots DEF Call
  <2>2. Runs'
    BY <1>1, <1>10 DEF Call, Runs
  <2>. QED  BY <1>1, <1>10, <2>1, <2>2, LoadStep DEF Call
<1>11. CASE Return
  <2>1. ProgramRoots' \subseteq ProgramRoots
    BY <1>11, ProgramCommandRoots DEF Return
  <2>. QED  BY <1>1, <1>2, <1>11, <2>1, LoadStep DEF Return
<1>12. ASSUME NEW f \in Field, GetField(f) PROVE Heap!Next
  <2>1. /\ Operands >= 1 /\ Top \in ProgramRoots /\ Top \in allocated
        /\ stack' = Append(Popped(1), fields[Top][f]) /\ AfterCommand(objects)
        /\ UNCHANGED <<heapVars, marked, globals, frames, worklist, sweepVars, forced>>
    BY <1>1, <1>3, <1>12 DEF GetField, UndefinedBehaviour
  <2>2. fields[Top][f] \in Ref
    BY <2>1 DEF TypeInv, TypeOK
  <2> DEFINE V == ProgramRoots \cup ({fields[Top][f]} \ {Null})
  <2>3. fields[Top][f] \in Ref \cap (V \cup {Null}) /\ ProgramRoots \subseteq V
    BY <2>2
  <2> HIDE DEF V
  <2>4. ProgramRoots' \subseteq V
    BY <1>12, <2>1, <2>3, ProgramCommandRoots DEF GetField
  <2>. QED  BY <1>1, <1>2, <2>1, <2>4, LoadStep DEF V
<1>13. ASSUME NEW f \in Field, SetField(f) PROVE Heap!Next
  <2>1. /\ Operands >= 2 /\ Operands >= 1 /\ Top \in ProgramRoots /\ Top \in allocated
        /\ fields' = [fields EXCEPT ![Top][f] = Second]
        /\ stack' = Popped(2) /\ AfterCommand(objects)
        /\ UNCHANGED <<allocated, objects, marked, globals, frames, worklist,
                       sweepVars, forced>>
    <3>1. Operands >= 2 => Operands >= 1
      BY <1>1 DEF Operands
    <3>. QED  BY <1>1, <1>3, <1>13, <3>1 DEF SetField, UndefinedBehaviour
  <2>2. ProgramRoots' \subseteq ProgramRoots
    BY <1>13, <2>1, ProgramCommandRoots DEF SetField
  <2>3. Second \in ProgramRoots \cup {Null}
    <3>1. Len(stack) - 1 \in 1..Len(stack)
      BY <1>1, <2>1 DEF Operands
    <3>. QED  BY <1>1, <3>1, HeldValues DEF Second
  <2>4. Top \in Obj /\ Second \in Obj \cup {Null}
    <3>1. Second \in Ref
      BY <1>13, <2>1, CommandContext DEF SetField
    <3>. QED  BY <2>1, <3>1 DEF TypeInv, TypeOK, Ref
  <2>5. Heap!Store(Top, f, Second)
    BY <1>1, <1>2, <2>1, <2>2, <2>3 DEF Heap!Store, Runs
  <2>. QED  BY <2>4, <2>5 DEF Heap!Next
<1>14. CASE ForceGarbageCollection \/ Crash
  <2>1. UNCHANGED <<heapVars, rootVars, victim, base>> /\ Runs'
    BY <1>1, <1>14
       DEF ForceGarbageCollection, Crash, Runs, ProgramModes, sweepVars
  <2>2. UNCHANGED ProgramRoots
    BY <2>1, SameRootVars
  <2>. QED  BY <1>1, <2>1, <2>2 DEF Stutters, Heap!vars, Runs
<1>15. CASE RunProgramReturns
  <2>1. UNCHANGED <<heapVars, globals, stack, sweepVars>> /\ frames' = <<>> /\ ~Runs'
    BY <1>15 DEF RunProgramReturns, Runs, ProgramModes
  <2>2. ProgramRoots' \subseteq ProgramRoots
    BY <1>1, <2>1 DEF ProgramRoots, ProgramFrames, ProgramStack, sweepVars
  <2>3. Heap!ShutDown
    BY <1>1, <2>1, <2>2 DEF Heap!ShutDown, Runs
  <2>. QED  BY <2>3 DEF Heap!Next
<1>. QED
  BY <1>4, <1>5, <1>6, <1>7, <1>8, <1>9, <1>10, <1>11, <1>12, <1>13, <1>14, <1>15
     DEF Command

(* A destructor that fails without leaving operands disturbs nothing.      *)
LEMMA DestructorFailsTransparent ==
    ASSUME TypeInv, HeapInv, DestructorFails
    PROVE  ProgramState' = ProgramState
<1>1. /\ victim # Null /\ victim' = Null /\ UNCHANGED <<globals, stack>>
      /\ Len(stack) = base.stack /\ frames' = SubSeq(frames, 1, base.frames)
  BY DEF DestructorFails, InDestructor, HeapInv
<1>2. SubSeq(stack, 1, Len(stack)) = stack
  BY WholeSequence DEF TypeInv, TypeOK
<1>. QED  BY <1>1, <1>2 DEF ProgramState, ProgramFrames, ProgramStack

LEMMA BlankKept ==
    ASSUME TypeInv, HeapInv, Next
    PROVE  \A o \in Obj \ allocated' : fields'[o] = NoFields
<1> USE DEF HeapInv, heapVars
<1>1. fields \in [Obj -> [Field -> Ref]] /\ allocated \subseteq Obj
  BY DEF TypeInv, TypeOK
<1>2. CASE CallConstructor
  BY <1>1, <1>2 DEF CallConstructor
<1>3. ASSUME NEW f \in Field, SetField(f)
      PROVE  \A o \in Obj \ allocated' : fields'[o] = NoFields
  BY <1>1, <1>3 DEF SetField, UndefinedBehaviour
<1>4. CASE FinishDestructor
  BY <1>1, <1>4 DEF FinishDestructor, Release
<1>5. ASSUME NEW o \in Obj, MissingDestructor(o)
      PROVE  \A p \in Obj \ allocated' : fields'[p] = NoFields
  BY <1>1, <1>5 DEF MissingDestructor, Release
<1>6. CASE UNCHANGED <<allocated, fields>>
  BY <1>6
<1>. QED
  BY <1>2, <1>3, <1>4, <1>5, <1>6
     DEF Next, Command, LoadLocal, SetLocal, LoadStatic, SetStatic, Pop, GetField,
         UndefinedBehaviour, Call, Return, ForceGarbageCollection,
         RunProgramReturns, Crash, Collector, AddRoots, Mark, SweepScan,
         BeginDestructor, DestructorFails, FinishSweep, BeginClear, FinishClear

LEMMA NoOperandsLeft ==
    ASSUME TidyDestructors, TypeInv, TypeInv', HeapInv, Next,
           "Fail" \in DtorOps, victim' # Null
    PROVE  Len(stack') = base'.stack
<1>1. CASE Command
  <2>1. InDestructor /\ Undisturbed /\ Len(stack) = base.stack
    <3>1. victim' = victim
      BY <1>1 DEF Command, CallConstructor, LoadLocal, SetLocal, LoadStatic,
                  SetStatic, Pop, GetField, SetField, UndefinedBehaviour, Call,
                  Return, ForceGarbageCollection, RunProgramReturns, Crash, sweepVars
    <3>2. mode # "run"
      BY <3>1 DEF TypeInv, Nesting
    <3>3. InDestructor
      BY <1>1, <3>2, CommandRuns
    <3>. QED  BY <1>1, <3>3, DestructorCommandUndisturbed DEF HeapInv, InDestructor
  <2>2. UNCHANGED <<victim, base>> /\ base.stack \in Nat /\ base.stack <= Len(stack')
    BY <2>1 DEF Undisturbed, sweepVars, TypeInv, TypeOK, Nesting, InDestructor
  <2>3. DtorOps \cap {"CallConstructor", "LoadLocal", "LoadStatic", "GetField"} = {}
    BY DEF TidyDestructors, QuietDestructors
  <2>4. /\ ~CallConstructor
        /\ \A l \in Slot : ~LoadLocal(l)
        /\ \A s \in Static : ~LoadStatic(s)
        /\ \A f \in Field : ~GetField(f)
    BY <2>1, <2>3 DEF CallConstructor, LoadLocal, LoadStatic, GetField, MayExecute,
                      InDestructor
  <2>5. \/ stack' = stack
        \/ \E n \in {1, 2} : Operands >= n /\ stack' = Popped(n)
    BY <1>1, <2>4
       DEF Command, SetLocal, SetStatic, Pop, SetField, UndefinedBehaviour, Call,
           Return, ForceGarbageCollection, RunProgramReturns, Crash, rootVars
  <2>6. Operands = 0
    BY <2>1, <2>2 DEF Operands, InDestructor
  <2>. QED  BY <2>1, <2>2, <2>5, <2>6
<1>2. CASE \E o \in Obj : BeginDestructor(o)
  BY <1>2 DEF BeginDestructor
<1>3. CASE UNCHANGED <<stack, victim, base>>
  BY <1>3 DEF HeapInv
<1>. QED
  BY <1>1, <1>2, <1>3
     DEF Next, Collector, AddRoots, Mark, UndefinedBehaviour, SweepScan,
         FinishDestructor, DestructorFails, MissingDestructor, FinishSweep,
         BeginClear, FinishClear, rootVars, sweepVars

(* The set that keeps the program's objects alive after an error, too.     *)
LEMMA SurvivorsKept ==
    ASSUME TypeInv, HeapInv, mode \in ProgramModes,
           ProgramRoots' = ProgramRoots, Condemned' \subseteq Condemned \cup {Null},
           \A o \in allocated \ Condemned :
             o \in allocated' /\ fields'[o] = fields[o]
    PROVE  \E S \in SUBSET (allocated' \ Condemned') :
             ProgramRoots' \subseteq S /\ Closed(S)'
<1>1. PICK S \in SUBSET (allocated \ Condemned) : ProgramRoots \subseteq S /\ Closed(S)
  BY DEF HeapInv
<1>2. Null \notin S
  BY <1>1, NullAssumption DEF TypeInv, TypeOK
<1>3. S \in SUBSET (allocated' \ Condemned') /\ ProgramRoots' \subseteq S
  BY <1>1, <1>2
<1>4. \A o \in S, f \in Field : fields'[o][f] \in S \cup {Null}
  BY <1>1 DEF Closed
<1>. QED  BY <1>3, <1>4 DEF Closed

LEMMA NextHeapInv ==
    ASSUME TidyDestructors, TypeInv, TypeInv', SafetyInv, SafetyInv', HeapInv, Next
    PROVE  HeapInv'
<1>1. ASSUME mode' \in ProgramModes
      PROVE  \E S \in SUBSET (allocated' \ Condemned') :
               ProgramRoots' \subseteq S /\ Closed(S)'
  <2>1. CASE mode' # "sweep" \/ ~firstError'
    BY <1>1, <2>1 DEF SafetyInv, RootsAlive, ProgramModes
  <2> SUFFICES ASSUME mode' = "sweep", firstError'
               PROVE  \E S \in SUBSET (allocated' \ Condemned') :
                        ProgramRoots' \subseteq S /\ Closed(S)'
    BY <1>1, <2>1
  <2>2. CASE Command
    <3>1. InDestructor
      BY <2>2 DEF Command, CallConstructor, LoadLocal, SetLocal, LoadStatic,
                  SetStatic, Pop, GetField, SetField, Call, Return,
                  ForceGarbageCollection, RunProgramReturns, Crash,
                  UndefinedBehaviour, AfterCommand, MayExecute
    <3>2. /\ UNCHANGED <<heapVars, toDelete, victim, ProgramRoots>> /\ mode' = mode
      BY <2>2, <3>1, QuietCommand DEF TidyDestructors
    <3>. QED
      BY <3>2, SurvivorsKept DEF Condemned, heapVars, ProgramModes
  <2>3. ASSUME NEW o \in Obj, BeginDestructor(o)
        PROVE  \E S \in SUBSET (allocated' \ Condemned') :
                 ProgramRoots' \subseteq S /\ Closed(S)'
    <3>1. ProgramRoots' = ProgramRoots
      BY <2>3, BeginDestructorTransparent DEF ProgramState, ProgramRoots
    <3>2. mode = "sweep" /\ Condemned' \subseteq Condemned /\ UNCHANGED heapVars
      BY <2>3 DEF BeginDestructor, Condemned
    <3>. QED  BY <3>1, <3>2, SurvivorsKept DEF heapVars, ProgramModes
  <2>4. CASE FinishDestructor
    <3>1. ProgramRoots' = ProgramRoots
      BY <2>4, FinishDestructorTransparent DEF ProgramState, ProgramRoots
    <3>2. /\ mode = "sweep" /\ Condemned' \subseteq Condemned \cup {Null}
          /\ Release(victim)
      BY <2>4 DEF FinishDestructor, Condemned
    <3>3. \A o \in allocated \ Condemned : o \in allocated' /\ fields'[o] = fields[o]
      BY <3>2 DEF Release, Condemned, TypeInv, TypeOK
    <3>. QED  BY <3>1, <3>2, <3>3, SurvivorsKept DEF ProgramModes
  <2>5. CASE DestructorFails
    <3>1. ProgramRoots' = ProgramRoots
      BY <2>5, DestructorFailsTransparent DEF ProgramState, ProgramRoots
    <3>2. /\ mode = "sweep" /\ Condemned' \subseteq Condemned \cup {Null}
          /\ UNCHANGED heapVars
      BY <2>5 DEF DestructorFails, Condemned
    <3>. QED  BY <3>1, <3>2, SurvivorsKept DEF heapVars, ProgramModes
  <2>6. ASSUME NEW o \in Obj, MissingDestructor(o)
        PROVE  \E S \in SUBSET (allocated' \ Condemned') :
                 ProgramRoots' \subseteq S /\ Closed(S)'
    <3>1. /\ mode = "sweep" /\ Condemned' \subseteq Condemned
          /\ UNCHANGED <<heapVars, rootVars, victim, base>>
      BY <2>6 DEF MissingDestructor, Condemned
    <3>. QED  BY <3>1, SameRootVars, SurvivorsKept DEF heapVars, ProgramModes
  <2>. QED
    BY <2>2, <2>3, <2>4, <2>5, <2>6
       DEF Next, Collector, AddRoots, Mark, UndefinedBehaviour, SweepScan,
           FinishSweep, BeginClear, FinishClear
<1>. QED
  BY <1>1, BlankKept, NoOperandsLeft DEF HeapInv

LEMMA AlwaysHeapInv ==
    ASSUME TidyDestructors
    PROVE  Spec => [](TypeInv /\ SafetyInv /\ HeapInv)
<1>1. DiscreetDestructors
  BY DEF TidyDestructors, QuietDestructors, DiscreetDestructors
<1>2. TypeInv /\ SafetyInv /\ Init => HeapInv
  BY DEF Init, HeapInv, SafetyInv, RootsAlive
<1>3. ASSUME HeapInv, UNCHANGED vars PROVE HeapInv'
  <2>1. UNCHANGED <<ProgramRoots, Condemned>>
    BY <1>3, SameRootVars DEF vars, rootVars, Condemned
  <2>. QED  BY <1>3, <2>1 DEF vars, HeapInv, Closed
<1>4. TypeInv /\ SafetyInv /\ HeapInv /\ TypeInv' /\ SafetyInv' /\ [Next]_vars
        => HeapInv'
  BY <1>3, NextHeapInv
<1>. QED
  BY <1>1, <1>2, <1>4, AlwaysSafetyInv, PTL DEF Spec

(* Every step of the collector, and of the destructors it runs, is a step  *)
(* of the managed heap.                                                    *)
LEMMA ReleaseStep ==
    ASSUME TypeInv, HeapInv, NEW o \in objects, o \in Condemned, Release(o),
           mode \in {"sweep", "clear"}, UNCHANGED <<mode, ProgramRoots>>
    PROVE  Heap!Next
<1>1. o \in Obj /\ o \in allocated
  BY DEF TypeInv, TypeOK
<1>2. Heap!Free(o)
  BY <1>1 DEF Heap!Free, Heap!NoFields, Release, NoFields
<1>3. CASE mode = "sweep"
  <2>1. PICK S \in SUBSET (allocated \ Condemned) :
          ProgramRoots \subseteq S /\ Closed(S)
    BY <1>3 DEF HeapInv, ProgramModes
  <2>2. S \in SUBSET Obj /\ o \notin S /\ Heap!Closed(S)
    BY <2>1 DEF Heap!Closed, Closed, TypeInv, TypeOK
  <2>3. Heap!Reclaim(o)
    BY <1>2, <1>3, <2>1, <2>2 DEF Heap!Reclaim, Heap!Unreachable, ProgramModes
  <2>. QED  BY <1>1, <2>3 DEF Heap!Next
<1>4. CASE mode = "clear"
  <2>1. Heap!Release(o)
    BY <1>2, <1>4 DEF Heap!Release, ProgramModes
  <2>. QED  BY <1>1, <2>1 DEF Heap!Next
<1>. QED  BY <1>3, <1>4

LEMMA StutterStep ==
    ASSUME UNCHANGED <<allocated, fields, ProgramRoots>>, Runs' = Runs
    PROVE  Stutters
  BY DEF Stutters, Heap!vars, Runs

LEMMA CollectorImplements ==
    ASSUME TypeInv, SafetyInv, SafetyInv', HeapInv, Collector
    PROVE  Heap!Next \/ Stutters
<1> USE DEF heapVars
<1>1. mode' # "undefined"
  BY DEF SafetyInv, NoUseAfterFree
<1>2. CASE AddRoots \/ SweepScan \/ BeginClear \/ FinishClear
  <2>1. UNCHANGED <<allocated, fields, rootVars, victim, base>> /\ Runs' = Runs
    BY <1>2 DEF AddRoots, SweepScan, BeginClear, FinishClear, sweepVars, Runs,
                ProgramModes
  <2>. QED  BY <2>1, SameRootVars, StutterStep
<1>3. ASSUME NEW o \in Obj, Mark(o) PROVE Stutters
  <2>1. UNCHANGED <<heapVars, rootVars, mode, victim, base>>
    BY <1>1, <1>3 DEF Mark, UndefinedBehaviour, sweepVars
  <2>. QED  BY <2>1, SameRootVars, StutterStep DEF Runs
<1>4. ASSUME NEW o \in Obj, BeginDestructor(o) PROVE Stutters
  <2>1. UNCHANGED ProgramRoots
    BY <1>4, BeginDestructorTransparent DEF ProgramState, ProgramRoots
  <2>. QED  BY <1>4, <2>1, StutterStep DEF BeginDestructor, Runs
<1>5. CASE FinishDestructor
  <2>1. UNCHANGED ProgramRoots
    BY <1>5, FinishDestructorTransparent DEF ProgramState, ProgramRoots
  <2>2. /\ victim \in objects /\ victim \in Condemned /\ Release(victim)
        /\ mode \in {"sweep", "clear"} /\ UNCHANGED mode
    BY <1>5 DEF FinishDestructor, InDestructor, Condemned, TypeInv, Nesting
  <2>. QED  BY <2>1, <2>2, ReleaseStep
<1>6. CASE DestructorFails
  <2>1. UNCHANGED ProgramRoots
    BY <1>6, DestructorFailsTransparent DEF ProgramState, ProgramRoots
  <2>. QED  BY <1>6, <2>1, StutterStep DEF DestructorFails, Runs
<1>7. ASSUME NEW o \in Obj, MissingDestructor(o) PROVE Heap!Next \/ Stutters
  <2>1. /\ UNCHANGED <<rootVars, victim, base, mode>> /\ o \in Condemned
        /\ mode \in {"sweep", "clear"} /\ o \in objects
    BY <1>7 DEF MissingDestructor, Condemned, TypeInv, TypeOK
  <2>2. UNCHANGED ProgramRoots
    BY <2>1, SameRootVars
  <2>3. CASE mode = "sweep"
    <3>1. UNCHANGED heapVars /\ Runs' = Runs
      BY <1>7, <2>1, <2>3 DEF MissingDestructor, Runs
    <3>. QED  BY <2>2, <3>1, StutterStep
  <2>4. CASE mode # "sweep"
    BY <1>7, <2>1, <2>2, <2>4, ReleaseStep DEF MissingDestructor
  <2>. QED  BY <2>3, <2>4
<1>8. CASE FinishSweep
  <2>1. /\ mode = "sweep" /\ victim = Null
        /\ UNCHANGED <<heapVars, globals, stack, victim, base>>
        /\ \/ mode' = "down" /\ frames' = <<>>
           \/ mode' \in {"run", "roots"} /\ frames' = frames
    BY <1>8 DEF FinishSweep
  <2>2. CASE mode' = "down"
    <3>1. ProgramRoots' \subseteq ProgramRoots
      BY <2>1, <2>2 DEF ProgramRoots, ProgramFrames, ProgramStack
    <3>2. Heap!ShutDown
      BY <2>1, <2>2, <3>1 DEF Heap!ShutDown, ProgramModes
    <3>. QED  BY <3>2 DEF Heap!Next
  <2>3. CASE mode' # "down"
    <3>1. UNCHANGED <<heapVars, rootVars, victim, base>> /\ Runs' = Runs
      BY <2>1, <2>3 DEF rootVars, Runs, ProgramModes
    <3>. QED  BY <3>1, SameRootVars, StutterStep
  <2>. QED  BY <2>2, <2>3
<1>. QED
  BY <1>2, <1>3, <1>4, <1>5, <1>6, <1>7, <1>8 DEF Collector

LEMMA NextImplements ==
    ASSUME TidyDestructors, TypeInv, TypeInv', SafetyInv, SafetyInv', HeapInv, Next
    PROVE  Heap!Next \/ Stutters
<1>1. CASE Command /\ mode = "run"
  BY <1>1, ProgramCommandImplements
<1>2. CASE Command /\ mode # "run"
  <2>1. InDestructor
    BY <1>2, CommandRuns
  <2>2. UNCHANGED <<heapVars, ProgramRoots>> /\ mode' = mode
    BY <1>2, <2>1, QuietCommand DEF TidyDestructors
  <2>. QED  BY <2>2, StutterStep DEF heapVars, Runs
<1>3. CASE Collector
  BY <1>3, CollectorImplements
<1>. QED  BY <1>1, <1>2, <1>3 DEF Next

(* The virtual machine with its collector implements a heap that frees     *)
(* only what the program cannot reach, destructors that fail or are        *)
(* missing included.                                                       *)
THEOREM CollectorImplementsManagedHeap ==
    ASSUME TidyDestructors
    PROVE  Spec => ImplementsManagedHeap
<1>1. Init => Heap!Init
  <2> SUFFICES ASSUME Init PROVE Heap!Init
    OBVIOUS
  <2>1. ProgramRoots = {}
    BY DEF Init, ProgramRoots, ProgramFrames, ProgramStack, EmptyFrame
  <2>. QED
    BY <2>1 DEF Init, Heap!Init, Heap!NoFields, NoFields, ProgramModes
<1>2. ASSUME UNCHANGED vars PROVE UNCHANGED Heap!vars
  <2>1. UNCHANGED ProgramRoots
    BY <1>2, SameRootVars DEF vars, rootVars
  <2>. QED  BY <1>2, <2>1 DEF vars, Heap!vars
<1>3. TypeInv /\ SafetyInv /\ HeapInv /\ TypeInv' /\ SafetyInv' /\ [Next]_vars
        => [Heap!Next]_(Heap!vars)
  BY <1>2, NextImplements DEF Stutters
<1>. QED
  BY <1>1, <1>3, AlwaysHeapInv, PTL DEF Spec, ImplementsManagedHeap, Heap!Spec
===============================================================================
