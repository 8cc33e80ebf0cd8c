--------------------------- MODULE PureFunctionCache ---------------------------
(***************************************************************************)
(* PureFunction: a function whose results are remembered per argument list *)
(* in an unordered_map.  An object argument is remembered by its address   *)
(* together with the hash that its class's _GetHash_<C> computes.          *)
(*                                                                         *)
(* The hash functions and the body are bytecode, so a collection may run   *)
(* after any of their commands, and the body may call the function again.  *)
(* Meanwhile the call keeps its arguments in C++ locals that the collector *)
(* does not know.                                                          *)
(*                                                                         *)
(* Abstracted: the function is taken to be injective in what its arguments *)
(* denote, so that its result is the list of what they denote; objects     *)
(* have a content and no reference fields; a collection is one step (see   *)
(* GarbageCollector), which may come after any command.                    *)
(***************************************************************************)
EXTENDS Naturals, Sequences, FiniteSets

CONSTANTS
    Obj,            \* addresses
    Content,        \* what an object may contain
    Prim,           \* values that are not references
    Hash(_),        \* hash of a content or of a value
    Arity,          \* arity of the function
    ObjectParams,   \* its parameters of a class type
    ReturnsObject,  \* the function returns a new object
    MaxStack,       \* bound: operands the program pushes
    MaxDepth        \* bound: nested calls of the function

ASSUME ArityAssumption == Arity \in Nat \ {0}
ASSUME KindAssumption == ReturnsObject \in BOOLEAN /\ ObjectParams \subseteq 1..Arity
ASSUME ValueAssumption == Obj \cap Prim = {} /\ Content \cap Prim = {}

VARIABLES
    content,  \* contents of the objects, Free where there is none
    held,     \* objects the program's variables refer to
    stack,    \* RuntimeMemory::machine_stack, bottom first
    calls,    \* activations of PureFunction::Execute, outermost first
    cache,    \* PureFunction::cache_
    mode      \* "run", "failed" (an error ended the program), "undefined"

vars == <<content, held, stack, calls, cache, mode>>

Free == "free"

Result == [1..Arity -> Prim \cup Content]
Value == Obj \cup Prim \cup Result

ASSUME HashAssumption == \A v \in Prim \cup Content : Hash(v) \in Nat
ASSUME FreeAssumption == Free \notin Content \cup Prim
ASSUME ResultAssumption == Obj \cap Result = {}

(* No two contents have the same hash.                                     *)
HashIsPerfect == \A c, d \in Content : Hash(c) = Hash(d) => c = d

IsObject(v) == v \in Obj
Elements(seq) == {seq[i] : i \in DOMAIN seq}

(* The list of the last n operands, the top one first.                     *)
Taken(n) == [i \in 1..n |-> stack[Len(stack) - i + 1]]
Rest(n) == SubSeq(stack, 1, Len(stack) - n)
Reversed(seq) == [i \in 1..Len(seq) |-> seq[Len(seq) - i + 1]]

Denote(v) == IF IsObject(v) THEN content[v] ELSE v
Denoted(seq) == [i \in DOMAIN seq |-> Denote(seq[i])]

Current == calls[Len(calls)]
Calling == calls # <<>>
Update(call) == [calls EXCEPT ![Len(calls)] = call]
Callers == SubSeq(calls, 1, Len(calls) - 1)

(* Bytecode runs: the program's, or the body of the current call.          *)
Executing == mode = "run" /\ (Calling => Current.phase = "body")
Floor == IF Calling THEN Current.base ELSE 0

(* Seeded faults, here and below under names with an underscore: what a    *)
(* plausible mistake would make of the definition that follows them.       *)
Roots_NoLocals ==
    held \cup Elements(stack)

(* What the collector finds: variables, operands and frames' locals.       *)
Roots ==
    held \cup Elements(stack) \cup UNION {Elements(c.locals) : c \in Elements(calls)}
-----------------------------------------------------------------------------
(* The program and the bodies *)

Push(v) ==
    /\ Len(stack) < MaxStack
    /\ stack' = Append(stack, v)

New(o, c) ==
    /\ Executing
    /\ content[o] = Free
    /\ content' = [content EXCEPT ![o] = c]
    /\ Push(o)
    /\ UNCHANGED <<held, calls, cache, mode>>

Keep ==
    /\ Executing /\ ~Calling
    /\ stack # <<>>
    /\ IsObject(stack[Len(stack)])
    /\ held' = held \cup {stack[Len(stack)]}
    /\ stack' = Rest(1)
    /\ UNCHANGED <<content, calls, cache, mode>>

Forget(o) ==
    /\ Executing /\ ~Calling
    /\ o \in held
    /\ held' = held \ {o}
    /\ UNCHANGED <<content, stack, calls, cache, mode>>

Load(v) ==
    /\ Executing
    /\ v \in Prim \cup (IF Calling THEN Elements(Current.locals) ELSE held)
    /\ Push(v)
    /\ UNCHANGED <<content, held, calls, cache, mode>>

Discard ==
    /\ Executing
    /\ Len(stack) > Floor
    /\ stack' = Rest(1)
    /\ UNCHANGED <<content, held, calls, cache, mode>>

(* A command reads or writes the object on top of the stack.               *)
Touch(c) ==
    /\ Executing /\ ~Calling
    /\ stack # <<>>
    /\ LET o == stack[Len(stack)] IN
       /\ IsObject(o)
       /\ IF content[o] = Free
          THEN mode' = "undefined" /\ UNCHANGED <<content, stack>>
          ELSE /\ content' = [content EXCEPT ![o] = c]
               /\ stack' = Rest(1)
               /\ UNCHANGED mode
    /\ UNCHANGED <<held, calls, cache>>

(* The collection that may follow a command, of the program, of a body or  *)
(* of a hash function.                                                     *)
Collect ==
    /\ mode = "run"
    /\ Calling => Current.phase \in {"hashing", "body"}
    /\ content' = [o \in Obj |-> IF o \in Roots THEN content[o] ELSE Free]
    /\ UNCHANGED <<held, stack, calls, cache, mode>>
-----------------------------------------------------------------------------
(* PureFunction::Execute *)

(* The arguments are popped and put in the order in which they were        *)
(* pushed.                                                                 *)
CallPure ==
    /\ Executing
    /\ Len(calls) < MaxDepth
    /\ Len(stack) >= Floor + Arity
    /\ stack' = Rest(Arity)
    /\ calls' = Append(calls, [phase |-> "hash", args |-> Reversed(Taken(Arity)),
                               hashes |-> <<>>, locals |-> <<>>,
                               base |-> Len(stack) - Arity])
    /\ UNCHANGED <<content, held, cache, mode>>

Param == Len(Current.hashes) + 1
NextArg == Current.args[Param]
Hashed(h) == [Current EXCEPT !.phase = "hash", !.hashes = Append(@, h),
                             !.locals = <<>>]

HashPrimitive_Raw ==
    /\ mode = "run" /\ Calling
    /\ Current.phase = "hash"
    /\ Len(Current.hashes) < Arity
    /\ NextArg \in Prim /\ Param \notin ObjectParams
    /\ calls' = Update(Hashed(NextArg))
    /\ UNCHANGED <<content, held, stack, cache, mode>>

HashPrimitive ==
    /\ mode = "run" /\ Calling
    /\ Current.phase = "hash"
    /\ Len(Current.hashes) < Arity
    /\ NextArg \in Prim /\ Param \notin ObjectParams
    /\ calls' = Update(Hashed(Hash(NextArg)))
    /\ UNCHANGED <<content, held, stack, cache, mode>>

(* GetHash reads the object's vtable index and calls its hash function,    *)
(* with the object as the function's local; then the type is checked.      *)
BeginHash ==
    /\ mode = "run" /\ Calling
    /\ Current.phase = "hash"
    /\ Len(Current.hashes) < Arity
    /\ IsObject(NextArg)
    /\ IF content[NextArg] = Free
       THEN mode' = "undefined" /\ UNCHANGED calls
       ELSE /\ calls' = Update([Current EXCEPT !.phase = "hashing",
                                               !.locals = <<NextArg>>])
            /\ UNCHANGED mode
    /\ UNCHANGED <<content, held, stack, cache>>

FinishHash ==
    /\ mode = "run" /\ Calling
    /\ Current.phase = "hashing"
    /\ Param \in ObjectParams
    /\ IF content[NextArg] = Free
       THEN mode' = "undefined" /\ UNCHANGED calls
       ELSE calls' = Update(Hashed(Hash(content[NextArg]))) /\ UNCHANGED mode
    /\ UNCHANGED <<content, held, stack, cache>>

(* A type mismatch, which is found once the argument is hashed, a missing  *)
(* hash function, a body that fails: the error ends the program.           *)
Fails ==
    /\ mode = "run" /\ Calling
    /\ mode' = "failed"
    /\ UNCHANGED <<content, held, stack, calls, cache>>

KeyIs(entry, call) == entry.args = call.args
HashIs(entry, call) == entry.hashes = call.hashes

Found_FirstArgument(call) ==
    {entry \in cache : entry.args[1] = call.args[1]}

(* The entries that find or operator[] may return.  CacheKey::operator==   *)
(* compares the values alone; the libraries of GCC and Clang compare the   *)
(* stored hash codes first.                                                *)
Found(call) == {entry \in cache : KeyIs(entry, call) /\ HashIs(entry, call)}

Looking ==
    /\ mode = "run" /\ Calling
    /\ Current.phase = "hash"
    /\ Len(Current.hashes) = Arity

Hit_KeepsArguments(entry) ==
    /\ Looking
    /\ entry \in Found(Current)
    /\ stack' = Append(stack \o Current.args, entry.result)
    /\ calls' = Callers
    /\ UNCHANGED <<content, held, cache, mode>>

Hit(entry) ==
    /\ Looking
    /\ entry \in Found(Current)
    /\ stack' = Append(stack, entry.result)
    /\ calls' = Callers
    /\ UNCHANGED <<content, held, cache, mode>>

(* The arguments go back on the stack, and Function::Execute moves them    *)
(* into the body's frame, the top one first.                               *)
Miss ==
    /\ Looking
    /\ Found(Current) = {}
    /\ calls' = Update([Current EXCEPT !.phase = "body", !.locals = Reversed(Current.args)])
    /\ UNCHANGED <<content, held, stack, cache, mode>>

(* cache_[cache_key] = result_value                                        *)
Remember(result) ==
    cache' = (cache \ Found(Current)) \cup
             {[args |-> Current.args, hashes |-> Current.hashes, result |-> result]}

(* The body returns, having read its arguments.                            *)
BodyReturns ==
    /\ mode = "run" /\ Calling
    /\ Current.phase = "body"
    /\ Len(stack) = Current.base
    /\ IF \E i \in 1..Arity : Denote(Current.locals[i]) = Free
       THEN mode' = "undefined" /\ UNCHANGED <<content, stack, calls, cache>>
       ELSE /\ \/ /\ ~ReturnsObject
                  /\ LET r == Denoted(Current.locals) IN
                     Remember(r) /\ stack' = Append(stack, r)
                  /\ UNCHANGED content
               \/ /\ ReturnsObject
                  /\ \E o \in Obj, c \in Content :
                        /\ content[o] = Free
                        /\ content' = [content EXCEPT ![o] = c]
                        /\ Remember(o) /\ stack' = Append(stack, o)
            /\ calls' = Callers
            /\ UNCHANGED mode
    /\ UNCHANGED held
-----------------------------------------------------------------------------
Init ==
    /\ content = [o \in Obj |-> Free]
    /\ held = {} /\ stack = <<>> /\ calls = <<>> /\ cache = {}
    /\ mode = "run"

Next ==
    \/ \E o \in Obj : Forget(o) \/ \E c \in Content : New(o, c)
    \/ \E c \in Content : Touch(c)
    \/ \E v \in Obj \cup Prim : Load(v)
    \/ Keep \/ Discard \/ Collect
    \/ CallPure \/ HashPrimitive \/ BeginHash \/ FinishHash
    \/ \E entry \in cache : Hit(entry)
    \/ Miss \/ BodyReturns \/ Fails

Spec == Init /\ [][Next]_vars
-----------------------------------------------------------------------------
Activation == [phase : {"hash", "hashing", "body"}, args : Seq(Value),
               hashes : Seq(Nat), locals : Seq(Value), base : Nat]

(* Type invariant.                                                         *)
TypeOK ==
    /\ content \in [Obj -> Content \cup {Free}]
    /\ held \subseteq Obj
    /\ stack \in Seq(Value)
    /\ calls \in Seq(Activation)
    /\ cache \subseteq [args : Seq(Value), hashes : Seq(Nat), result : Value]
    /\ mode \in {"run", "failed", "undefined"}

(* Nothing is read through a stale reference: not by the program, and not  *)
(* by Execute, whose arguments are off the stack while it hashes them.     *)
NoUseAfterFree == mode # "undefined"

(* Whatever the map may return now is what the body would compute now:     *)
(* objects changed, or died and left their address to others, since the    *)
(* entry was made.                                                         *)
HitIsFresh ==
    Looking =>
        \A entry \in Found(Current) :
            entry.result = Denoted(Reversed(Current.args))

(* A call, answered from the map or not, takes its arguments off the stack *)
(* and leaves one result there; what lies below is untouched, through      *)
(* collections and nested calls.                                           *)
CallIsBalanced ==
    [][Calling /\ mode' = "run" =>
         LET below == Current.base IN
         /\ SubSeq(stack', 1, below) = SubSeq(stack, 1, below)
         /\ Len(calls') < Len(calls) => Len(stack') = below + 1]_vars
=============================================================================
