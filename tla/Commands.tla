------------------------------- MODULE Commands -------------------------------
(***************************************************************************)
(* The bytecode commands: what each takes from the machine stack, what it  *)
(* leaves there, and how it fails.  A program is any sequence of commands; *)
(* a call runs its callee as a whole, interpreted or compiled.             *)
(*                                                                         *)
(* A value is <<type, content>>: one of the primitive types with a number  *)
(* or truth value, or "ref" with an object.  An object is <<class, data>>: *)
(* a box holds a primitive value, a Nullable an object or the null         *)
(* pointer; of the others, which hold <<>>, only the class matters: their  *)
(* fields have any value, null included.  Files, clocks and the like give  *)
(* any result.                                                             *)
(*                                                                         *)
(* Seeded faults: an operator Op_Fault is Op with a mistake; none is part  *)
(* of Spec.                                                                *)
(***************************************************************************)
EXTENDS Arithmetic, FiniteSetsExt, Sequences

CONSTANTS
    Functions,   \* the function repository: a sequence of functions
    Virtual,     \* per virtual name and class with that slot the real function
    Underscores, \* per virtual name how often "_" occurs in it
    Stored,      \* the objects that fields refer to
    Tiered,      \* ids of the functions that may be compiled
    Boundary,    \* jit_action_boundary_
    Room         \* bound: what fits on the stack and in the frame

ASSUME BoundsAssumption == Boundary \in Nat /\ Room \in Nat

VARIABLES
    stack,   \* the machine stack, its top last
    locals,  \* local_variables of the running frame
    actions, \* total_action_count_ per function that may be compiled, up to Boundary + 1
    mode     \* "run", or how the program ended

vars == <<stack, locals, actions, mode>>

Primitive == {"int", "float", "bool", "char", "byte"}
BoxClass == [int |-> "Int", float |-> "Float", bool |-> "Bool", char |-> "Char", byte |-> "Byte"]
BoxClasses == {BoxClass[t] : t \in Primitive}
PlainClasses == {"String", "Point", "StringArray", "ByteArray"}

(* A function leaves a value of a kind that ValuesOf knows, or none.       *)
ASSUME FunctionsAssumption ==
    /\ Functions \in Seq([id : STRING, params : Seq(STRING), result : STRING])
    /\ \A i \in DOMAIN Functions :
           Functions[i].result \in
               {"none", "Int", "Nullable", "Object"} \cup Primitive \cup PlainClasses
    /\ \A m \in DOMAIN Virtual : Underscores[m] \in Nat

Ref(object) == <<"ref", object>>
NullPointer == <<"nullptr", <<>>>>
Text == <<"String", <<>>>>
Point == <<"Point", <<>>>>
Box(v) == <<BoxClass[v[1]], v>>
Nullable(object) == <<"Nullable", object>>
IsNullable(v) == v[1] = "ref" /\ v[2][1] = "Nullable"

(* A kind is a primitive type or a class; "Object" is any class.           *)
KindOf(v) == IF v[1] = "ref" THEN v[2][1] ELSE v[1]
Holds(v, kind) == kind = "Any" \/ v[1] = IF kind \in Primitive THEN kind ELSE "ref"
OfKind(v, kind) == kind = "Any" \/ KindOf(v) = kind \/ (kind = "Object" /\ v[1] = "ref")

ValuesOf(kind) ==
    CASE kind = "int" -> {<<"int", n>> : n \in Ints}
      [] kind = "float" -> {<<"float", x>> : x \in Floats}
      [] kind = "bool" -> {<<"bool", b>> : b \in BOOLEAN}
      [] kind = "char" -> {<<"char", c>> : c \in Chars}
      [] kind = "byte" -> {<<"byte", b>> : b \in Bytes}
      [] kind = "Nullable" -> {Ref(Nullable(NullPointer)), Ref(Nullable(Text))}
      [] kind = "Int" -> {Ref(Box(<<"int", n>>)) : n \in Ints}
      [] OTHER -> {Ref(<<kind, <<>>>>)}

IsObject(o) ==
    o[1] \in PlainClasses \/ \E t \in Primitive : BoxClass[t] = o[1] /\ o[2] \in ValuesOf(t)

ASSUME StoredAssumption == \A o \in Stored : IsObject(o)

(* What a field of type Object may hold: an object, a Nullable or null.    *)
References ==
    LET pointers == Stored \cup {NullPointer}
    IN {Ref(o) : o \in pointers} \cup {Ref(Nullable(o)) : o \in pointers}
-----------------------------------------------------------------------------
(* Operands.  The first operand is the top of the stack.                   *)
Arg(i) == stack[Len(stack) + 1 - i]
Num(i) == Arg(i)[2]
Below(n) == SubSeq(stack, 1, Len(stack) - n)

(* TryExtractArgument and TryExtractTwoArguments                           *)
Extracted(kinds) ==
    /\ Len(stack) >= Len(kinds)
    /\ \A i \in DOMAIN kinds : Holds(Arg(i), kinds[i])

(* The code believes the bytecode that an object is there and of the class *)
(* a command is for.                                                       *)
Believed(kinds) == \A i \in DOMAIN kinds :
    kinds[i] = "Any" \/ (OfKind(Arg(i), kinds[i]) /\ Arg(i) # Ref(NullPointer))

(* The bound: what commands take many of takes one place, other values     *)
(* and all locals two, and a Nullable is not put into a Nullable.          *)
Light(v) == KindOf(v) \in {"String", "ByteArray"}
Shallow(v) == IsNullable(v) => v[2][2][1] # "Nullable"
Fits(s, l) ==
    /\ Len(s) + Cardinality({i \in DOMAIN s : ~Light(s[i])}) + 2 * Len(l) <= Room
    /\ \A i \in DOMAIN s : Shallow(s[i])

Leave(n, results) ==
    /\ stack' = Below(n) \o results
    /\ Fits(stack', locals)

Rest == UNCHANGED <<locals, actions>>
Running == mode = "run"
Go == UNCHANGED mode
End(m) == mode' = m

Refuse == End("error") /\ UNCHANGED stack /\ Rest
Undefined == End("undefined") /\ UNCHANGED stack /\ Rest

(* A command that takes operands and leaves one of some results, or fails  *)
(* if there is none; refused operands stay on the stack.                   *)
Compute(kinds, results) ==
    \/ /\ Go /\ Extracted(kinds) /\ Believed(kinds)
       /\ \E r \in results : Leave(Len(kinds), r)
       /\ Rest
    \/ /\ End("error") /\ Extracted(kinds) /\ Believed(kinds) /\ results = {}
       /\ stack' = Below(Len(kinds)) /\ Rest
    \/ ~Extracted(kinds) /\ Refuse
    \/ Extracted(kinds) /\ ~Believed(kinds) /\ Undefined

(* It leaves a value of one kind.                                          *)
Gives(kind, numbers) == {<<<<kind, n>>>> : n \in numbers}
Some(kind) == {<<v>> : v \in IF kind = "Object" THEN References ELSE ValuesOf(kind)}

(* The same, with failures that depend on the world: memory, files, text.  *)
Attempt(kinds, results) ==
    \/ Compute(kinds, results)
    \/ /\ End("error") /\ Extracted(kinds) /\ Believed(kinds)
       /\ stack' = Below(Len(kinds)) /\ Rest

(* A failure that leaves something behind.  A C++ exception leaves the     *)
(* interpreter without popping a frame.                                    *)
Abandon(m, kinds, left) ==
    /\ End(m) /\ Extracted(kinds) /\ Believed(kinds)
    /\ stack' = Below(Len(kinds)) \o left /\ Rest
Throw(kinds, left) == Abandon("exception", kinds, left)
-----------------------------------------------------------------------------
(* Literals, input, clocks, the system: a value, whatever is on the stack. *)
Push(kind) == Compute(<<>>, Some(kind))
PushLiteral == \E kind \in Primitive : Push(kind)
PushString == Attempt(<<>>, {<<Ref(Text)>>})
PushNull == Attempt(<<>>, {<<Ref(Nullable(NullPointer))>>})
Read == \/ \E kind \in {"char", "int", "float"} : Push(kind)
        \/ PushString
Time == Push("int")
SystemInfo == Push("int") \/ PushString

(* Commands that do not look for operands: on an empty stack the library's *)
(* precondition is broken.                                                 *)
Unchecked(action) == IF stack # <<>> THEN action ELSE Undefined

Pop == Unchecked(Go /\ Leave(1, <<>>) /\ Rest)
Dup == Unchecked(Go /\ Leave(0, <<Arg(1)>>) /\ Rest)

Swap == \/ Go /\ Len(stack) >= 2 /\ Leave(2, <<Arg(1), Arg(2)>>) /\ Rest
        \/ Len(stack) < 2 /\ Refuse

(* Takes n - 1 values off and puts them back in their order.               *)
Rotate(n) == \/ Go /\ n \in 1..Len(stack) \cup {1} /\ UNCHANGED stack /\ Rest
             \/ n \notin 1..Len(stack) \cup {1} /\ Refuse

LoadLocal(i) ==
    IF i < Len(locals) THEN Go /\ Leave(0, <<locals[i + 1]>>) /\ Rest
    ELSE Undefined

(* The frame grows to the index; what is new and not set is the integer 0. *)
SetLocal(i) == Unchecked(
    /\ Go
    /\ stack' = Below(1)
    /\ locals' = [j \in 1..(IF i < Len(locals) THEN Len(locals) ELSE i + 1) |->
                    IF j = i + 1 THEN Arg(1)
                    ELSE IF j <= Len(locals) THEN locals[j] ELSE <<"int", 0>>]
    /\ Fits(stack', locals')
    /\ UNCHANGED actions)
-----------------------------------------------------------------------------
(* Arithmetic.  The one quotient that has no representation is a fault of  *)
(* the processor, which ends the process.                                  *)
IntBinary(op) ==
    LET faults == /\ Extracted(<<"int", "int">>) /\ DivisionTraps(Num(1), Num(2))
                  /\ op \in {"IntDivide", "IntModulo"}
    IN \/ /\ ~faults
          /\ Compute(<<"int", "int">>, Gives("int", IntArithmetic(op, Num(1), Num(2))))
       \/ faults /\ End("crashed") /\ stack' = Below(2) /\ Rest

IntUnaryOps == {"IntNegate", "IntIncrement", "IntDecrement", "IntNot"}
IntBinaryOps == {"IntAdd", "IntSubtract", "IntMultiply", "IntDivide", "IntModulo"}
FloatBinaryOps == {"FloatAdd", "FloatSubtract", "FloatMultiply", "FloatDivide"}
ByteUnaryOps == {"ByteNegate", "ByteIncrement", "ByteDecrement", "ByteNot"}
ByteBinaryOps == {"ByteAdd", "ByteSubtract", "ByteMultiply", "ByteDivide", "ByteModulo"}
Relations == {"Equal", "NotEqual", "LessThan", "LessEqual", "GreaterThan", "GreaterEqual"}
BitOps == {"And", "Or", "Xor"}
Shifts == {"LeftShift", "RightShift"}

IntOps ==
    \/ \E op \in IntUnaryOps : Compute(<<"int">>, Gives("int", IntUnary(op, Num(1))))
    \/ \E op \in IntBinaryOps : IntBinary(op)
    \/ \E op \in BitOps :
           Compute(<<"int", "int">>, Gives("int", IntBitwise(op, Num(1), Num(2))))
    \/ \E op \in Shifts : Compute(<<"int", "int">>, Gives("int", IntShift(op, Num(1), Num(2))))

FloatOps ==
    \/ \E op \in {"FloatNegate", "FloatSqrt"} :
           Compute(<<"float">>, Gives("float", FloatUnary(op, Num(1))))
    \/ \E op \in FloatBinaryOps :
           Compute(<<"float", "float">>, Gives("float", FloatArithmetic(op, Num(1), Num(2))))

ByteOps ==
    \/ \E op \in ByteUnaryOps : Compute(<<"byte">>, Gives("byte", ByteUnary(op, Num(1))))
    \/ \E op \in ByteBinaryOps :
           Compute(<<"byte", "byte">>, Gives("byte", ByteArithmetic(op, Num(1), Num(2))))
    \/ \E op \in BitOps :
           Compute(<<"byte", "byte">>, Gives("byte", ByteBitwise(op, Num(1), Num(2))))
    \/ \E op \in Shifts :
           Compute(<<"byte", "byte">>, Gives("byte", ByteShift(op, Num(1), Num(2))))

BoolOps ==
    \/ Compute(<<"bool">>, Gives("bool", {~Num(1)}))
    \/ \E op \in {"BoolAnd", "BoolOr", "BoolXor"} :
           Compute(<<"bool", "bool">>, Gives("bool", BoolBinary(op, Num(1), Num(2))))

Compare(kind) == \E relation \in Relations :
    Compute(<<kind, kind>>,
            Gives("bool", IF kind = "float" THEN FloatCompares(relation, Num(1), Num(2))
                          ELSE {Compares(relation, Num(1), Num(2))}))

Convert ==
    \/ Compute(<<"int">>, Gives("float", {SignOf(Num(1))}))
    \/ Compute(<<"float">>, Gives("int", FloatToInt(Num(1))))
    \/ Compute(<<"byte">>, Gives("int", {Num(1)}))
    \/ Compute(<<"char">>, Gives("byte", {WrapByte(Num(1))}))
    \/ Compute(<<"byte">>, Gives("char", {Signed(Num(1), ByteBits)}))
    \/ Compute(<<"bool">>, Gives("byte", {IF Num(1) THEN 1 ELSE 0}))
-----------------------------------------------------------------------------
(* Text.  Parsing a number throws if there is none, a substring if it      *)
(* begins outside of the text.                                             *)
StringConcat == Attempt(<<"String", "String">>, {<<Ref(Text)>>})
StringLength == Compute(<<"String">>, Gives("int", {n \in Ints : n >= 0}))
StringSubstring ==
    \/ Attempt(<<"String", "int", "int">>, {<<Ref(Text)>>})
    \/ Throw(<<"String", "int", "int">>, <<Ref(Text)>>)
StringCompare == Compute(<<"String", "String">>, Some("int"))
StringTo(kind) == Compute(<<"String">>, Some(kind)) \/ Throw(<<"String">>, <<>>)
ToText(kind) == Attempt(<<kind>>, {<<Ref(Text)>>})

PrintText == Compute(<<"String">>, {<<>>})
FormatDateTime ==
    \/ Attempt(<<"int", "String">>, {<<Ref(Text)>>})
    \/ End("crashed") /\ Extracted(<<"int", "String">>) /\ stack' = Below(2) /\ Rest
ParseDateTime == Attempt(<<"String", "String">>, Some("Int"))

FileQuery == Attempt(<<"String">>, Some("bool"))
FilePair == Compute(<<"String", "String">>, Some("bool"))
ListDirectory == Attempt(<<"String">>, Some("StringArray"))
GetCurrentDirectory == PushString
ChangeDirectory == Compute(<<"String">>, Some("bool"))

Sleep == Compute(<<"int">>, {<<>>})
Exit ==
    \/ Extracted(<<"int">>) /\ End("exited") /\ stack' = Below(1) /\ Rest
    \/ ~Extracted(<<"int">>) /\ Refuse
GetEnvironmentVar ==
    \/ Attempt(<<"String">>, Some("Nullable"))
    \/ Abandon("error", <<"String">>, <<Ref(Nullable(NullPointer))>>)
SetEnvironmentVar == Compute(<<"String", "String">>, Some("bool"))

Random == Push("int") \/ Push("float")
Between(a, b, S) == {n \in S : (a <= n /\ n <= b) \/ (b <= n /\ n <= a)}
RandomRange == Compute(<<"int", "int">>, Gives("int", Between(Num(1), Num(2), Ints)))
RandomFloatRange ==
    Compute(<<"float", "float">>,
            Gives("float", IF NaN \in {Num(1), Num(2)} THEN Floats
                           ELSE Between(Num(1), Num(2), Signs)))
SeedRandom == Compute(<<"int">>, {<<>>})

Interop == Attempt(<<"String", "String", "ByteArray", "ByteArray">>, Some("int"))
-----------------------------------------------------------------------------
(* Objects.  A class has fields of types; here class Point has a truth     *)
(* value and an object.  A field that holds an object is null until it is  *)
(* assigned.                                                               *)
Layout(class) ==
    CASE class = "Point" -> <<"bool", "Object">>
      [] class = "Nullable" -> <<"Object">>
      [] class \in BoxClasses -> <<CHOOSE t \in Primitive : BoxClass[t] = class>>
      [] OTHER -> <<>>
HasField(object, i) == i < Len(Layout(object[1]))

Field(object, i) ==
    CASE object[1] = "Nullable" -> {Ref(object[2])}
      [] object[1] \in BoxClasses -> {object[2]}
      [] OTHER -> IF i = 0 THEN ValuesOf("bool") ELSE References
Fields(object, i) == IF HasField(object, i) THEN {<<f>> : f \in Field(object, i)} ELSE {}

GetField(i) == Compute(<<"Object">>, Fields(Num(1), i))

(* A box or a Nullable that is assigned to is another value: references    *)
(* equal to the one written through are to the same object or not.         *)
Assigned(object, v) ==
    CASE object[1] = "Nullable" -> Nullable(v[2])
      [] object[1] \in BoxClasses -> Box(v)
      [] OTHER -> object
Follow(v, old, new) ==
    CASE v = Ref(old) -> Ref(new)
      [] v = Ref(Nullable(old)) -> Ref(Nullable(new))
      [] OTHER -> v
Aliased(s, old, new) ==
    {[i \in DOMAIN s |-> IF i \in same THEN Follow(s[i], old, new) ELSE s[i]] :
        same \in SUBSET DOMAIN s}

SetField(i) ==
    LET object == Num(1)
        new == Assigned(object, Arg(2))
        takes == HasField(object, i) /\ Holds(Arg(2), Layout(object[1])[i + 1])
    IN \/ /\ Go /\ Extracted(<<"Object", "Any">>) /\ Believed(<<"Object">>)
          /\ takes /\ Shallow(Ref(new))
          /\ stack' \in Aliased(Below(2), object, new)
          /\ locals' \in Aliased(locals, object, new)
          /\ UNCHANGED actions
       \/ /\ End("error") /\ Extracted(<<"Object", "Any">>) /\ Believed(<<"Object">>)
          /\ ~takes /\ stack' = Below(2) /\ Rest
       \/ End("error") /\ Extracted(<<"Object">>) /\ Len(stack) = 1 /\ stack' = <<>> /\ Rest
       \/ Extracted(<<"Object", "Any">>) /\ ~Believed(<<"Object">>) /\ Undefined
       \/ ~Extracted(<<"Object">>) /\ Refuse

Unwrap_Unchecked == Compute(<<"Object">>, Fields(Num(1), 0))
Unwrap == Compute(<<"Object">>, Fields(Num(1), 0) \ {<<Ref(NullPointer)>>})

(* The value of a Nullable, or else the value below it.                    *)
NullCoalesce ==
    \/ /\ Go /\ Extracted(<<"Nullable">>) /\ Believed(<<"Nullable">>)
       /\ \/ Num(1)[2] = NullPointer /\ Leave(1, <<>>)
          \/ Num(1)[2] # NullPointer /\ Len(stack) > 1 /\ Leave(2, <<Ref(Num(1)[2])>>)
       /\ Rest
    \/ /\ Extracted(<<"Nullable">>)
       /\ ~Believed(<<"Nullable">>) \/ (Num(1)[2] # NullPointer /\ Len(stack) = 1)
       /\ Undefined
    \/ ~Extracted(<<"Nullable">>) /\ Refuse

IsNull == Compute(<<"Nullable">>, Gives("bool", {Num(1)[2] = NullPointer}))

GetVTable == Attempt(<<>>, Some("int"))

(* An object that is given another class is not what the commands believe  *)
(* of it any more; here it gets the one it has.                            *)
SetVTable == Attempt(<<"Point">>, {<<Ref(Point)>>})
TypeOf == Unchecked(Attempt(<<"Any">>, {<<Ref(Text)>>}))

(* IsType looks through a Nullable and follows a null pointer; TypeOf does *)
(* neither.                                                                *)
TypeNamed(v) == CASE ~IsNullable(v) -> KindOf(v)
                  [] IsNullable(v) -> IF v[2][2] = NullPointer THEN "Null" ELSE v[2][2][1]
IsType(type) == Unchecked(
    IF Arg(1) = Ref(NullPointer) THEN Undefined
    ELSE Compute(<<"Any">>, Gives("bool", {TypeNamed(Arg(1)) = type})))
SizeOf == Attempt(<<>>, Some("int"))
-----------------------------------------------------------------------------
(* Calls.  A function has an id, kinds of its parameters, the first on top *)
(* of the stack, and a kind of result or "none"; it counts its commands if *)
(* it may be compiled.                                                     *)
Arity(f) == Len(f.params)
HasArguments(f, s) ==
    Len(s) >= Arity(f) /\ \A i \in 1..Arity(f) : OfKind(s[Len(s) + 1 - i], f.params[i])
ResultsOf(f) == IF f.result = "none" THEN {<<>>} ELSE Some(f.result)
Ends == {"error", "exited", "exception", "crashed", "undefined"}

Counted(f) ==
    IF f.id \in DOMAIN actions
    THEN \E n \in actions[f.id]..(Boundary + 1) : actions' = [actions EXCEPT ![f.id] = n]
    ELSE UNCHANGED actions
Hot(f) == f.id \in DOMAIN actions /\ actions[f.id] > Boundary

(* After a safe call the result becomes a Nullable, in a box of its own if *)
(* it is not an object.                                                    *)
Optional(s) ==
    IF s = <<>> THEN s
    ELSE LET top == s[Len(s)]
         IN SubSeq(s, 1, Len(s) - 1)
              \o <<Ref(Nullable(IF top[1] = "ref" THEN top[2] ELSE Box(top)))>>

(* Function::Execute and JitCompilingFunction::Execute on a stack, by a    *)
(* safe call or another.  The body of the callee may end the program in    *)
(* any way.  When a compiled run fails, its arguments are read from a      *)
(* frame that is gone; without arguments the function is interpreted.      *)
Execute(f, s, safe) ==
    LET rest == SubSeq(s, 1, Len(s) - Arity(f))
    IN \/ Len(s) < Arity(f) /\ End("error") /\ stack' = s /\ Rest
       \/ /\ Go /\ HasArguments(f, s)
          /\ \E r \in ResultsOf(f) : stack' = IF safe THEN Optional(rest \o r) ELSE rest \o r
          /\ Fits(stack', locals)
          /\ Counted(f) /\ UNCHANGED locals
       \/ /\ Len(s) >= Arity(f)
          /\ \E m \in Ends : End(m)
          /\ stack' = rest /\ Rest
       \/ /\ Hot(f) /\ Len(s) >= Arity(f) /\ Arity(f) > 0
          /\ End("undefined") /\ stack' = rest /\ Rest

Ids == {Functions[i].id : i \in DOMAIN Functions}
Named(id) == {i \in DOMAIN Functions : Functions[i].id = id}

Call(id) ==
    \/ \E i \in Named(id) : Execute(Functions[i], stack, FALSE)
    \/ Named(id) = {} /\ Refuse

CallIndirect ==
    \/ /\ Extracted(<<"int">>)
       /\ \/ /\ Num(1) + 1 \in DOMAIN Functions
             /\ Execute(Functions[Num(1) + 1], Below(1), FALSE)
          \/ Num(1) + 1 \notin DOMAIN Functions /\ End("error") /\ stack' = Below(1) /\ Rest
    \/ ~Extracted(<<"int">>) /\ Refuse

(* The functions behind a virtual name for an object of the class.         *)
Overrides(m, class) ==
    IF m \in DOMAIN Virtual /\ class \in DOMAIN Virtual[m] THEN Named(Virtual[m][class]) ELSE {}

CallVirtual(m) ==
    \/ /\ Extracted(<<"Object">>) /\ Believed(<<"Object">>)
       /\ \/ \E i \in Overrides(m, KindOf(Arg(1))) : Execute(Functions[i], stack, FALSE)
          \/ Overrides(m, KindOf(Arg(1))) = {} /\ End("error") /\ stack' = Below(1) /\ Rest
    \/ Extracted(<<"Object">>) /\ ~Believed(<<"Object">>) /\ Undefined
    \/ ~Extracted(<<"Object">>) /\ Refuse

(* A constructor runs on a new object, all zero, which stays behind if     *)
(* there is no operand.  Before it runs nothing is taken.  That of a class *)
(* of the program is bytecode and may end the program in any way.          *)
Constructed(class, v) == IF class \in BoxClasses THEN Ref(Box(v)) ELSE Ref(<<class, <<>>>>)
EndsOf(class) == IF class = "Point" THEN Ends ELSE {"error"}
CallConstructor(class, kind) ==
    \/ Go /\ Extracted(<<kind>>) /\ Leave(1, <<Constructed(class, Arg(1))>>) /\ Rest
    \/ Refuse
    \/ End("error") /\ stack = <<>> /\ stack' = <<Constructed(class, <<kind, 0>>)>> /\ Rest
    \/ /\ stack # <<>> /\ stack' = Below(1) /\ Rest
       /\ \E m \in EndsOf(class) : End(m)

(* What SafeCall on a null takes off the stack: the operands of the method *)
(* if it is the id of a function, or else as many as its name tells; a     *)
(* negative count is a huge one.                                           *)
Discarded_This(m) ==
    IF Named(m) # {} THEN Arity(Functions[CHOOSE i \in Named(m) : TRUE])
    ELSE IF Underscores[m] < 2 THEN Len(stack) ELSE Underscores[m] - 2
Discarded(m) ==
    IF Named(m) # {} THEN Max({0, Arity(Functions[CHOOSE i \in Named(m) : TRUE]) - 1})
    ELSE IF Underscores[m] < 2 THEN Len(stack) ELSE Underscores[m] - 2

(* The functions that belong to an object and leave a result.              *)
Methods == {Functions[i].id : i \in {j \in DOMAIN Functions :
               /\ Functions[j].result # "none" /\ Functions[j].params # <<>>
               /\ Functions[j].params[1] \notin Primitive}}

Targets(m, class) == IF Named(m) # {} THEN Named(m) ELSE Overrides(m, class)

SafeCall(m) ==
    \/ /\ Extracted(<<"Nullable">>) /\ Believed(<<"Nullable">>)
       /\ \/ /\ Num(1)[2] = NullPointer /\ Go
             /\ stack' = SubSeq(stack, 1, Len(stack) - 1 - Discarded(m)) \o <<Arg(1)>>
             /\ Rest
          \/ /\ Num(1)[2] # NullPointer
             /\ \E i \in Targets(m, Num(1)[2][1]) :
                    Execute(Functions[i], Below(1) \o <<Ref(Num(1)[2])>>, TRUE)
          \/ /\ Num(1)[2] # NullPointer /\ Targets(m, Num(1)[2][1]) = {}
             /\ End("error") /\ stack' = Below(1) /\ Rest
    \/ Extracted(<<"Nullable">>) /\ ~Believed(<<"Nullable">>) /\ Undefined
    \/ ~Extracted(<<"Nullable">>) /\ Refuse
-----------------------------------------------------------------------------
Init == stack = <<>> /\ locals = <<>> /\ mode = "run" /\ actions = [id \in Tiered |-> 0]

Numbers ==
    /\ Running
    /\ PushLiteral \/ IntOps \/ FloatOps \/ ByteOps \/ BoolOps \/ Convert
Comparisons == Running /\ \E kind \in {"int", "float", "byte"} : Compare(kind)
Cells ==
    /\ Running
    /\ \/ PushString \/ PushNull \/ Pop \/ Dup \/ Swap
       \/ \E n \in Ints : Rotate(n)
       \/ \E i \in 0..1 : LoadLocal(i) \/ SetLocal(i)
Strings ==
    /\ Running
    /\ \/ StringConcat \/ StringLength \/ StringSubstring \/ StringCompare
       \/ \E kind \in {"int", "float"} : StringTo(kind) \/ ToText(kind)
Console == Running /\ (PrintText \/ Read)
Clock == Running /\ (Time \/ Sleep \/ FormatDateTime \/ ParseDateTime)
FileSystem ==
    /\ Running
    /\ FileQuery \/ FilePair \/ ListDirectory \/ GetCurrentDirectory \/ ChangeDirectory
Process ==
    /\ Running
    /\ Exit \/ GetEnvironmentVar \/ SetEnvironmentVar \/ SystemInfo \/ Interop
Randoms == Running /\ (Random \/ RandomRange \/ RandomFloatRange \/ SeedRandom)
Objects ==
    /\ Running
    /\ \/ \E i \in 0..1 : GetField(i) \/ SetField(i)
       \/ Unwrap \/ NullCoalesce \/ IsNull
       \/ GetVTable \/ SetVTable \/ TypeOf \/ SizeOf
       \/ \E type \in {"int", "Int", "String", "Nullable", "Null"} : IsType(type)
Calls ==
    /\ Running
    /\ \/ \E id \in Ids \cup {"unknown"} : Call(id)
       \/ CallIndirect
       \/ \E m \in DOMAIN Virtual : CallVirtual(m)
       \/ \E c \in {<<"Int", "int">>, <<"Point", "bool">>, <<"ByteArray", "int">>} : CallConstructor(c[1], c[2])
       \/ \E m \in DOMAIN Virtual \cup Methods : SafeCall(m)

Next == \/ Numbers \/ Comparisons \/ Cells \/ Strings \/ Console \/ Clock
        \/ FileSystem \/ Process \/ Randoms \/ Objects \/ Calls

Spec == Init /\ [][Next]_vars
-----------------------------------------------------------------------------
IsValue(v) ==
    IF v[1] = "ref" THEN \/ IsObject(v[2])
                         \/ v[2][1] = "Nullable" /\ (v[2][2] = NullPointer \/ IsObject(v[2][2]))
    ELSE v[1] \in Primitive /\ v \in ValuesOf(v[1])

(* Every value is in the range of its type: no command leaves an integer   *)
(* or a byte wider than its storage, or an object that was not built.      *)
TypeOK ==
    /\ \A i \in DOMAIN stack : IsValue(stack[i]) \/ stack[i] = Ref(NullPointer)
    /\ \A i \in DOMAIN locals : IsValue(locals[i]) \/ locals[i] = Ref(NullPointer)
    /\ actions \in [Tiered -> 0..(Boundary + 1)]
    /\ mode \in Ends \cup {"run"}

NoNull == \A v \in {stack[i] : i \in DOMAIN stack} \cup {locals[i] : i \in DOMAIN locals} :
    v # Ref(NullPointer)

(* A field is read, or a function hands over what it may have read.        *)
Yields ==
    \/ \E i \in 0..1 : GetField(i)
    \/ \E i \in DOMAIN Functions :
           /\ Functions[i].result = "Object"
           /\ \E s \in {stack, Below(1)} : Execute(Functions[i], s, FALSE)
Guarded == Unwrap \/ NullCoalesce \/ \E m \in DOMAIN Virtual \cup Methods : SafeCall(m)

(* The null pointer itself, which the next command would follow, gets to a *)
(* program that has none only from a field it reads or a function that     *)
(* returned one: Unwrap, NullCoalesce and SafeCall never let it out of a   *)
(* Nullable, and no other command makes it.                                *)
NullComesFromFields == [][NoNull /\ ~NoNull' => Yields /\ ~Guarded]_vars

(* The functions that a safe call of m can reach.                          *)
Reached(m) ==
    IF Named(m) # {} THEN Named(m)
    ELSE UNION {Named(Virtual[m][class]) : class \in DOMAIN Virtual[m]}

(* What SafeCall takes for granted of the names the compiler gives: each   *)
(* function has one of its own, a method has a receiver and a result, and  *)
(* a virtual name has an underscore for each operand and two more.         *)
NamesTellOperands ==
    /\ \A i, j \in DOMAIN Functions : Functions[i].id = Functions[j].id => i = j
    /\ \A m \in DOMAIN Virtual \cup Methods : \A i \in Reached(m) :
          /\ Functions[i].result # "none" /\ Arity(Functions[i]) > 0
          /\ Named(m) = {} => Underscores[m] = Arity(Functions[i]) + 1

(* A safe call on null takes the operands the method would have taken,     *)
(* and both leave a Nullable: the code after it finds the same stack.      *)
Receivers == {r \in (DOMAIN Virtual \cup Methods) \X (PlainClasses \cup BoxClasses) :
                Targets(r[1], r[2]) # {}}
Operands(m, class) == Arity(Functions[CHOOSE i \in Targets(m, class) : TRUE]) - 1
SafeCallIsUniform == [][
    (mode' = "run" /\ stack # <<>> /\ IsNullable(Arg(1))) =>
        \A r \in Receivers :
            LET below == Len(stack) - 1 - Operands(r[1], r[2])
            IN (below >= 0 /\ SafeCall(r[1])) =>
                   /\ Len(stack') = below + 1 /\ IsNullable(stack'[below + 1])
                   /\ SubSeq(stack', 1, below) = SubSeq(stack, 1, below)]_vars

(* The arithmetic of the VM is that of numbers, where a type can hold the  *)
(* result: dividing and taking the remainder belong together, subtracting  *)
(* undoes adding, of three comparisons one holds, and the bit operations   *)
(* agree with addition.                                                    *)
IntNumberLaws(a, b) ==
    /\ b # 0 /\ ~DivisionTraps(a, b) =>
           \A q \in IntArithmetic("IntDivide", a, b), r \in IntArithmetic("IntModulo", a, b) :
               q * b + r = a /\ AbsOf(r) < AbsOf(b) /\ r * a >= 0
    /\ a + b \in Ints =>
           \A n \in IntArithmetic("IntAdd", a, b) : IntArithmetic("IntSubtract", n, b) = {a}
    /\ Cardinality({r \in {"LessThan", "Equal", "GreaterThan"} : Compares(r, a, b)}) = 1
ByteNumberLaws(a, b) ==
    /\ b # 0 => \A q \in ByteArithmetic("ByteDivide", a, b), r \in ByteArithmetic("ByteModulo", a, b) :
           q * b + r = a /\ r < b
    /\ \A n \in ByteArithmetic("ByteAdd", a, b) : ByteArithmetic("ByteSubtract", n, b) = {a}
IntBitLaws(a, b) ==
    /\ \A x \in IntBitwise("And", a, b), y \in IntBitwise("Or", a, b) :
           IntArithmetic("IntAdd", x, y) = IntArithmetic("IntAdd", a, b)
    /\ \A x \in IntBitwise("Xor", a, b) : IntBitwise("Xor", x, b) = {a}
ByteBitLaws(a, b) ==
    \A x \in ByteBitwise("And", a, b) : \A y \in ByteUnary("ByteNot", x) :
        \A u \in ByteUnary("ByteNot", a), v \in ByteUnary("ByteNot", b) :
            ByteBitwise("Or", u, v) = {y}
TwoOnTop(kind) == Len(stack) >= 2 /\ KindOf(Arg(1)) = kind /\ KindOf(Arg(2)) = kind
NumberLaws ==
    /\ TwoOnTop("int") => IntNumberLaws(Num(1), Num(2))
    /\ TwoOnTop("byte") => ByteNumberLaws(Num(1), Num(2))
BitLaws ==
    /\ TwoOnTop("int") => IntBitLaws(Num(1), Num(2))
    /\ TwoOnTop("byte") => ByteBitLaws(Num(1), Num(2))
ArithmeticLaws == NumberLaws /\ BitLaws
=============================================================================
