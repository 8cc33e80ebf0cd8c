------------------------ MODULE PureFunctionCacheProofs ------------------------
(***************************************************************************)
(* Theorems about PureFunctionCache, for every number of objects and       *)
(* values, every arity, and any depth of nested calls.                     *)
(***************************************************************************)
EXTENDS PureFunctionCache, TLAPS

(* What Execute's C++ locals hold in each phase of a call.                 *)
WellFormed(c) ==
    /\ Len(c.args) = Arity /\ Len(c.hashes) <= Arity
    /\ \A j \in 1..Len(c.hashes) : c.args[j] \in Obj \cup Prim
    /\ c.phase = "hashing" =>
         /\ Len(c.hashes) < Arity
         /\ c.args[Len(c.hashes) + 1] \in Obj
         /\ c.locals = <<c.args[Len(c.hashes) + 1]>>
    /\ c.phase = "body" => Len(c.hashes) = Arity /\ c.locals = Reversed(c.args)

(* Calls nest in bodies, each above the operands of its callers; outside   *)
(* of its body a call has no operands of its own.                          *)
Nesting ==
    /\ \A i \in 1..Len(calls) : WellFormed(calls[i])
    /\ \A i \in 1..(Len(calls) - 1) :
         calls[i].phase = "body" /\ calls[i].base <= calls[i + 1].base
    /\ Calling =>
         /\ Current.base <= Len(stack)
         /\ Current.phase # "body" => Len(stack) = Current.base

TypeInv == TypeOK /\ Nesting

(* Every reference that is kept somewhere is to an object that is there,   *)
(* provided that only the argument that is hashed last is an object, and   *)
(* that results are not objects.                                           *)
Live(v) == v \in Obj => content[v] # Free

HeldAreLive == \A o \in held : Live(o)

OperandsAreLive == \A i \in 1..Len(stack) : Live(stack[i])

CallIsSafe(c) ==
    /\ \A j \in 1..Len(c.locals) : Live(c.locals[j])
    /\ c.phase = "hash" => \A j \in 1..Arity : Live(c.args[j])
    /\ \A j \in 1..Len(c.hashes) : j < Arity => c.args[j] \in Prim

CallsAreSafe == \A i \in 1..Len(calls) : CallIsSafe(calls[i])

ResultsAreLists == \A entry \in cache : entry.result \in Result

SafetyInv ==
    TypeInv /\ HeldAreLive /\ OperandsAreLive /\ CallsAreSafe /\ ResultsAreLists
            /\ NoUseAfterFree

(* An entry was made when its arguments denoted d.                         *)
MadeFor(entry, d) ==
    /\ entry.result = [i \in 1..Arity |-> d[Arity - i + 1]]
    /\ \A j \in 1..Arity :
         /\ entry.args[j] \in Obj \cup Prim
         /\ entry.args[j] \in Prim => d[j] = entry.args[j]
         /\ entry.args[j] \in Obj => d[j] \in Content /\ entry.hashes[j] = Hash(d[j])

(* The hash codes of a call are those of what its arguments denote now.    *)
HashesAreCurrent(c) ==
    \A j \in 1..Len(c.hashes) : c.hashes[j] = Hash(Denote(c.args[j]))

CallsAreCurrent == \A i \in 1..Len(calls) : HashesAreCurrent(calls[i])

EntriesAreHonest ==
    \A entry \in cache : \E d \in [1..Arity -> Prim \cup Content] : MadeFor(entry, d)

FreshInv == SafetyInv /\ CallsAreCurrent /\ EntriesAreHonest

LEMMA PrefixFacts ==
    ASSUME NEW S, NEW s \in Seq(S), NEW n \in Nat, n <= Len(s)
    PROVE  /\ SubSeq(s, 1, n) \in Seq(S)
           /\ Len(SubSeq(s, 1, n)) = n
           /\ \A i \in 1..n : SubSeq(s, 1, n)[i] = s[i]
  OBVIOUS

LEMMA AppendFacts ==
    ASSUME NEW S, NEW s \in Seq(S), NEW e \in S
    PROVE  /\ Append(s, e) \in Seq(S)
           /\ Len(Append(s, e)) = Len(s) + 1
           /\ \A i \in 1..Len(s) : Append(s, e)[i] = s[i]
           /\ Append(s, e)[Len(s) + 1] = e
  OBVIOUS

LEMMA UpdateFacts ==
    ASSUME NEW S, NEW s \in Seq(S), NEW i \in 1..Len(s), NEW e \in S
    PROVE  /\ [s EXCEPT ![i] = e] \in Seq(S)
           /\ Len([s EXCEPT ![i] = e]) = Len(s)
           /\ [s EXCEPT ![i] = e][i] = e
           /\ \A j \in 1..Len(s) : j # i => [s EXCEPT ![i] = e][j] = s[j]
  OBVIOUS

(* Dropping operands.                                                      *)
LEMMA RestFacts ==
    ASSUME stack \in Seq(Value), NEW n \in Nat, n <= Len(stack)
    PROVE  /\ Rest(n) \in Seq(Value)
           /\ Len(Rest(n)) = Len(stack) - n
           /\ \A i \in 1..(Len(stack) - n) : Rest(n)[i] = stack[i]
<1>1. Len(stack) - n \in Nat /\ Len(stack) - n <= Len(stack)
  OBVIOUS
<1>. QED  BY <1>1, PrefixFacts DEF Rest

(* The arguments of a call, in the order in which they were pushed.        *)
LEMMA ArgumentFacts ==
    ASSUME stack \in Seq(Value), Arity <= Len(stack)
    PROVE  /\ Reversed(Taken(Arity)) \in Seq(Value)
           /\ Len(Reversed(Taken(Arity))) = Arity
           /\ \A i \in 1..Arity : Reversed(Taken(Arity))[i] = stack[Len(stack) - Arity + i]
<1>1. Arity \in Nat /\ Len(stack) \in Nat
  BY ArityAssumption
<1>2. \A i \in 1..Arity : Len(stack) - i + 1 \in 1..Len(stack)
  BY <1>1
<1>3. Taken(Arity) \in [1..Arity -> Value]
  BY <1>2 DEF Taken
<1>4. Taken(Arity) \in Seq(Value) /\ Len(Taken(Arity)) = Arity
  BY <1>1, <1>3
<1>5. \A i \in 1..Arity : Arity - i + 1 \in 1..Arity
  BY <1>1
<1>6. Reversed(Taken(Arity)) = [i \in 1..Arity |-> Taken(Arity)[Arity - i + 1]]
  BY <1>4 DEF Reversed
<1>7. Reversed(Taken(Arity)) \in [1..Arity -> Value]
  BY <1>3, <1>5, <1>6
<1>8. \A i \in 1..Arity :
        Reversed(Taken(Arity))[i] = stack[Len(stack) - (Arity - i + 1) + 1]
  BY <1>5, <1>6 DEF Taken
<1>9. \A i \in 1..Arity : Len(stack) - (Arity - i + 1) + 1 = Len(stack) - Arity + i
  BY <1>1
<1>. QED  BY <1>1, <1>7, <1>8, <1>9

LEMMA ReversedFacts ==
    ASSUME NEW S, NEW s \in Seq(S)
    PROVE  /\ Reversed(s) \in Seq(S) /\ Len(Reversed(s)) = Len(s)
           /\ \A i \in 1..Len(s) : /\ Reversed(s)[i] = s[Len(s) - i + 1]
                                  /\ Len(s) - i + 1 \in 1..Len(s)
<1>1. \A i \in 1..Len(s) : Len(s) - i + 1 \in 1..Len(s)
  OBVIOUS
<1>2. Reversed(s) \in [1..Len(s) -> S]
  BY <1>1 DEF Reversed
<1>. QED  BY <1>1, <1>2 DEF Reversed

LEMMA CurrentFacts ==
    ASSUME TypeInv, Calling
    PROVE  /\ Len(calls) \in Nat /\ Len(calls) >= 1 /\ Len(calls) \in 1..Len(calls)
           /\ Current \in Activation /\ WellFormed(Current)
           /\ Current.base \in Nat /\ Current.base <= Len(stack)
           /\ Len(Current.hashes) \in Nat /\ Param \in Nat /\ Param >= 1
           /\ Len(Current.hashes) < Arity => Param \in 1..Arity /\ NextArg \in Value
<1>1. calls \in Seq(Activation) /\ calls # <<>>
  BY DEF TypeInv, TypeOK, Calling
<1>2. Len(calls) \in Nat /\ Len(calls) >= 1 /\ Len(calls) \in 1..Len(calls)
  BY <1>1
<1>3. Current \in Activation
  BY <1>1, <1>2 DEF Current
<1>4. WellFormed(Current) /\ Current.base <= Len(stack)
  BY <1>2 DEF TypeInv, Nesting, Current
<1>5. /\ Current.base \in Nat /\ Current.hashes \in Seq(Nat)
      /\ Current.args \in Seq(Value)
  BY <1>3 DEF Activation
<1>6. Len(Current.hashes) \in Nat /\ Param \in Nat /\ Param >= 1
  BY <1>5 DEF Param
<1>7. Len(Current.hashes) < Arity => Param \in 1..Arity
  BY <1>6, ArityAssumption DEF Param
<1>8. Len(Current.args) = Arity
  BY <1>4 DEF WellFormed
<1>9. Len(Current.hashes) < Arity => NextArg \in Value
  BY <1>5, <1>7, <1>8 DEF NextArg
<1>. QED  BY <1>2, <1>3, <1>4, <1>5, <1>6, <1>7, <1>9
-----------------------------------------------------------------------------
(* The ways in which a step changes the calls.                             *)

(* The program or a body works above the operands that were there.         *)
LEMMA WorkNests ==
    ASSUME TypeInv, calls' = calls, stack' \in Seq(Value),
           Calling => Current.phase = "body" /\ Current.base <= Len(stack')
    PROVE  Nesting'
<1>1. Calling' <=> Calling
  BY DEF Calling
<1>2. Current' = Current
  BY DEF Current
<1>. QED  BY <1>1, <1>2 DEF TypeInv, Nesting

LEMMA StillNests ==
    ASSUME TypeInv, calls' = calls, stack' = stack
    PROVE  Nesting'
<1>1. Calling' <=> Calling
  BY DEF Calling
<1>2. Current' = Current
  BY DEF Current
<1>. QED  BY <1>1, <1>2 DEF TypeInv, Nesting

(* A call goes on to its next phase.                                       *)
LEMMA UpdateNests ==
    ASSUME TypeInv, Calling, NEW c \in Activation, WellFormed(c),
           c.base = Current.base, Current.phase # "body",
           calls' = Update(c), stack' = stack
    PROVE  calls' \in Seq(Activation) /\ Nesting'
<1>1. calls \in Seq(Activation) /\ Len(calls) \in 1..Len(calls)
  BY CurrentFacts DEF TypeInv, TypeOK
<1>2. calls' = [calls EXCEPT ![Len(calls)] = c]
  BY DEF Update
<1>3. /\ calls' \in Seq(Activation) /\ Len(calls') = Len(calls)
      /\ calls'[Len(calls)] = c
      /\ \A j \in 1..Len(calls) : j # Len(calls) => calls'[j] = calls[j]
  BY <1>1, <1>2, UpdateFacts
<1>4. Current' = c
  BY <1>3 DEF Current
<1>5. \A i \in 1..Len(calls') : WellFormed(calls'[i])
  <2>1. TAKE i \in 1..Len(calls')
  <2>2. calls'[i] = c \/ calls'[i] = calls[i]
    BY <1>3, <2>1
  <2>3. WellFormed(calls[i])
    BY <1>3, <2>1 DEF TypeInv, Nesting
  <2>. QED  BY <2>2, <2>3
<1>6. ASSUME NEW i \in 1..(Len(calls') - 1)
      PROVE  calls'[i].phase = "body" /\ calls'[i].base <= calls'[i + 1].base
  <2>1. i \in 1..(Len(calls) - 1) /\ i \in 1..Len(calls) /\ i + 1 \in 1..Len(calls)
    BY <1>1, <1>3, <1>6
  <2>2. calls'[i] = calls[i]
    BY <1>1, <1>3, <2>1
  <2>3. calls'[i + 1].base = calls[i + 1].base
    BY <1>1, <1>3, <2>1 DEF Current
  <2>. QED  BY <2>1, <2>2, <2>3 DEF TypeInv, Nesting
<1>7. c.base <= Len(stack') /\ (c.phase # "body" => Len(stack') = c.base)
  BY DEF TypeInv, Nesting
<1>. QED  BY <1>3, <1>4, <1>5, <1>6, <1>7 DEF Nesting

(* A call returns, with its result above its caller's operands.            *)
LEMMA ReturnNests ==
    ASSUME TypeInv, Calling, Len(stack) = Current.base, NEW r \in Value,
           calls' = Callers, stack' = Append(stack, r)
    PROVE  /\ calls' \in Seq(Activation) /\ stack' \in Seq(Value)
           /\ Len(calls') = Len(calls) - 1
           /\ \A i \in 1..Len(calls') : calls'[i] = calls[i]
           /\ Nesting'
<1>1. calls \in Seq(Activation) /\ stack \in Seq(Value)
  BY DEF TypeInv, TypeOK
<1>2. Len(calls) \in Nat /\ Len(calls) - 1 \in Nat /\ Len(calls) - 1 <= Len(calls)
  BY CurrentFacts
<1>3. /\ calls' \in Seq(Activation) /\ Len(calls') = Len(calls) - 1
      /\ \A i \in 1..Len(calls') : calls'[i] = calls[i]
  BY <1>1, <1>2, PrefixFacts DEF Callers
<1>4. stack' \in Seq(Value) /\ Len(stack') = Len(stack) + 1
  BY <1>1, AppendFacts
<1>5. \A i \in 1..Len(calls') : WellFormed(calls'[i])
  <2>1. TAKE i \in 1..Len(calls')
  <2>2. calls'[i] = calls[i] /\ i \in 1..Len(calls)
    BY <1>2, <1>3, <2>1
  <2>. QED  BY <2>2 DEF TypeInv, Nesting
<1>6. ASSUME NEW i \in 1..(Len(calls') - 1)
      PROVE  calls'[i].phase = "body" /\ calls'[i].base <= calls'[i + 1].base
  <2>1. i \in 1..(Len(calls) - 1) /\ i \in 1..Len(calls') /\ i + 1 \in 1..Len(calls')
    BY <1>2, <1>3, <1>6
  <2>2. calls'[i] = calls[i] /\ calls'[i + 1] = calls[i + 1]
    BY <1>3, <2>1
  <2>. QED  BY <2>1, <2>2 DEF TypeInv, Nesting
<1>7. ASSUME Calling'
      PROVE  Current'.phase = "body" /\ Current'.base <= Len(stack')
  <2>1. Len(calls') \in 1..Len(calls') /\ Len(calls') \in 1..(Len(calls) - 1)
    BY <1>2, <1>3, <1>7 DEF Calling
  <2>2. Current' = calls[Len(calls')] /\ calls[Len(calls') + 1] = Current
    BY <1>2, <1>3, <2>1 DEF Current
  <2>3. Current'.phase = "body" /\ Current'.base <= Current.base
    BY <2>1, <2>2 DEF TypeInv, Nesting
  <2>4. Current' \in Activation
    BY <1>3, <2>1, <2>2
  <2>5. Current'.base \in Nat /\ Len(stack) \in Nat
    BY <1>1, <2>4 DEF Activation
  <2>. QED  BY <1>4, <2>3, <2>5
<1>. QED  BY <1>3, <1>4, <1>5, <1>6, <1>7 DEF Nesting
-----------------------------------------------------------------------------
(* The steps of the program and of the bodies.                             *)

LEMMA PushFacts ==
    ASSUME TypeInv, Executing, NEW v \in Value, Push(v), calls' = calls
    PROVE  stack' \in Seq(Value) /\ Nesting'
<1>1. stack \in Seq(Value) /\ stack' = Append(stack, v)
  BY DEF TypeInv, TypeOK, Push
<1>2. stack' \in Seq(Value) /\ Len(stack') = Len(stack) + 1 /\ Len(stack) \in Nat
  BY <1>1, AppendFacts
<1>3. Calling => Current.phase = "body" /\ Current.base <= Len(stack')
  BY <1>2, CurrentFacts DEF Executing
<1>. QED  BY <1>2, <1>3, WorkNests

LEMMA DropFacts ==
    ASSUME TypeInv, Executing, NEW n \in Nat, n <= Len(stack),
           Calling => Current.base <= Len(stack) - n,
           stack' = Rest(n), calls' = calls
    PROVE  stack' \in Seq(Value) /\ Nesting'
<1>1. stack' \in Seq(Value) /\ Len(stack') = Len(stack) - n
  BY RestFacts DEF TypeInv, TypeOK
<1>2. Calling => Current.phase = "body" /\ Current.base <= Len(stack')
  BY <1>1 DEF Executing
<1>. QED  BY <1>1, <1>2, WorkNests

LEMMA NewKeepsType ==
    ASSUME TypeInv, NEW o \in Obj, NEW c \in Content, New(o, c)
    PROVE  TypeInv'
<1>1. stack' \in Seq(Value) /\ Nesting'
  BY PushFacts DEF New, Value
<1>2. content' \in [Obj -> Content \cup {Free}]
  BY DEF New, TypeInv, TypeOK
<1>. QED  BY <1>1, <1>2 DEF New, TypeInv, TypeOK

LEMMA KeepKeepsType ==
    ASSUME TypeInv, Keep
    PROVE  TypeInv'
<1>1. stack \in Seq(Value) /\ stack # <<>>
  BY DEF TypeInv, TypeOK, Keep
<1>2. 1 \in Nat /\ 1 <= Len(stack)
  BY <1>1
<1>3. stack' \in Seq(Value) /\ Nesting'
  BY <1>2, DropFacts DEF Keep
<1>. QED  BY <1>3 DEF Keep, TypeInv, TypeOK, IsObject

LEMMA DiscardKeepsType ==
    ASSUME TypeInv, Discard
    PROVE  TypeInv'
<1>1. stack \in Seq(Value) /\ Len(stack) > Floor
  BY DEF TypeInv, TypeOK, Discard
<1>2. Floor \in Nat /\ Len(stack) \in Nat /\ (Calling => Floor = Current.base)
  BY <1>1, CurrentFacts DEF Floor
<1>3. 1 \in Nat /\ 1 <= Len(stack) /\ (Calling => Current.base <= Len(stack) - 1)
  BY <1>1, <1>2
<1>4. stack' \in Seq(Value) /\ Nesting'
  BY <1>3, DropFacts DEF Discard
<1>. QED  BY <1>4 DEF Discard, TypeInv, TypeOK

LEMMA LoadKeepsType ==
    ASSUME TypeInv, NEW v \in Obj \cup Prim, Load(v)
    PROVE  TypeInv'
<1>1. stack' \in Seq(Value) /\ Nesting'
  BY PushFacts DEF Load, Value
<1>. QED  BY <1>1 DEF Load, TypeInv, TypeOK

LEMMA ForgetKeepsType ==
    ASSUME TypeInv, NEW o \in Obj, Forget(o)
    PROVE  TypeInv'
<1>1. Nesting'
  BY StillNests DEF Forget
<1>. QED  BY <1>1 DEF Forget, TypeInv, TypeOK

LEMMA TouchKeepsType ==
    ASSUME TypeInv, NEW c \in Content, Touch(c)
    PROVE  TypeInv'
<1>. DEFINE o == stack[Len(stack)]
<1>1. stack \in Seq(Value) /\ stack # <<>> /\ Executing /\ ~Calling /\ o \in Obj
  BY DEF TypeInv, TypeOK, Touch, IsObject
<1>2. 1 \in Nat /\ 1 <= Len(stack)
  BY <1>1
<1>3. CASE content[o] = Free
  <2>1. /\ mode' = "undefined" /\ UNCHANGED <<content, stack>>
        /\ UNCHANGED <<held, calls, cache>>
    BY <1>3 DEF Touch
  <2>2. Nesting'
    BY <2>1, StillNests
  <2>. QED  BY <2>1, <2>2 DEF TypeInv, TypeOK
<1>4. CASE content[o] # Free
  <2>1. /\ content' = [content EXCEPT ![o] = c] /\ stack' = Rest(1)
        /\ UNCHANGED <<held, calls, cache, mode>>
    BY <1>4 DEF Touch
  <2>2. stack' \in Seq(Value) /\ Nesting'
    BY <1>1, <1>2, <2>1, DropFacts
  <2>3. content' \in [Obj -> Content \cup {Free}]
    BY <2>1 DEF TypeInv, TypeOK
  <2>. QED  BY <2>1, <2>2, <2>3 DEF TypeInv, TypeOK
<1>. QED  BY <1>3, <1>4

LEMMA CollectKeepsType ==
    ASSUME TypeInv, Collect
    PROVE  TypeInv'
<1>1. Nesting'
  BY StillNests DEF Collect
<1>2. content' \in [Obj -> Content \cup {Free}]
  BY DEF Collect, TypeInv, TypeOK
<1>. QED  BY <1>1, <1>2 DEF Collect, TypeInv, TypeOK
-----------------------------------------------------------------------------
(* The steps of Execute.                                                   *)

LEMMA CallFacts ==
    ASSUME TypeInv, CallPure
    PROVE  LET c == calls'[Len(calls')] IN
           /\ stack' = Rest(Arity) /\ stack' \in Seq(Value)
           /\ Arity \in Nat /\ Arity <= Len(stack)
           /\ Len(stack') = Len(stack) - Arity
           /\ calls' = Append(calls, c) /\ calls' \in Seq(Activation)
           /\ Len(calls') = Len(calls) + 1
           /\ \A i \in 1..Len(calls) : calls'[i] = calls[i]
           /\ c \in Activation /\ c.phase = "hash"
           /\ c.hashes = <<>> /\ c.locals = <<>> /\ c.base = Len(stack')
           /\ c.args \in Seq(Value) /\ Len(c.args) = Arity
           /\ \A j \in 1..Arity : c.args[j] = stack[Len(stack) - Arity + j]
           /\ \A j \in 1..Arity : Len(stack) - Arity + j \in 1..Len(stack)
           /\ Calling => Current.base <= Len(stack')
<1>. DEFINE c == [phase |-> "hash", args |-> Reversed(Taken(Arity)),
                  hashes |-> <<>>, locals |-> <<>>, base |-> Len(stack) - Arity]
<1>1. /\ Executing /\ Len(stack) >= Floor + Arity
      /\ stack' = Rest(Arity) /\ calls' = Append(calls, c)
  BY DEF CallPure
<1>2. stack \in Seq(Value) /\ calls \in Seq(Activation) /\ Arity \in Nat
  BY ArityAssumption DEF TypeInv, TypeOK
<1>3. Floor \in Nat /\ (Calling => Floor = Current.base)
  BY CurrentFacts DEF Floor
<1>4. Len(stack) \in Nat /\ Arity <= Len(stack) /\ Floor <= Len(stack) - Arity
  BY <1>1, <1>2, <1>3
<1>5. stack' \in Seq(Value) /\ Len(stack') = Len(stack) - Arity
  BY <1>1, <1>2, <1>4, RestFacts
<1>6. /\ c.args \in Seq(Value) /\ Len(c.args) = Arity
      /\ \A j \in 1..Arity : c.args[j] = stack[Len(stack) - Arity + j]
  BY <1>2, <1>4, ArgumentFacts
<1>7. \A j \in 1..Arity : Len(stack) - Arity + j \in 1..Len(stack)
  BY <1>2, <1>4
<1>8. c \in Activation
  <2>1. <<>> \in Seq(Nat) /\ <<>> \in Seq(Value) /\ Len(stack) - Arity \in Nat
    BY <1>2, <1>4
  <2>. QED  BY <1>6, <2>1 DEF Activation
<1>9. /\ calls' \in Seq(Activation) /\ Len(calls') = Len(calls) + 1
      /\ \A i \in 1..Len(calls) : calls'[i] = calls[i]
      /\ calls'[Len(calls) + 1] = c
  BY <1>1, <1>2, <1>8, AppendFacts
<1>. HIDE DEF c
<1>10. calls'[Len(calls')] = c
  BY <1>9
<1>11. /\ c.phase = "hash" /\ c.hashes = <<>> /\ c.locals = <<>>
       /\ c.base = Len(stack')
  BY <1>5 DEF c
<1>. QED  BY <1>1, <1>2, <1>3, <1>4, <1>5, <1>6, <1>7, <1>8, <1>9, <1>10, <1>11

LEMMA CallKeepsType ==
    ASSUME TypeInv, CallPure
    PROVE  TypeInv'
<1>. DEFINE c == calls'[Len(calls')]
<1>. HIDE DEF c
<1>1. /\ stack' \in Seq(Value) /\ calls' \in Seq(Activation)
      /\ Len(calls') = Len(calls) + 1
      /\ \A i \in 1..Len(calls) : calls'[i] = calls[i]
      /\ c.phase = "hash" /\ c.hashes = <<>> /\ c.base = Len(stack')
      /\ Len(c.args) = Arity
      /\ Calling => Current.base <= Len(stack')
  BY CallFacts DEF c
<1>2. calls'[Len(calls) + 1] = c /\ Current' = c /\ Len(calls) \in Nat
  BY <1>1 DEF c, Current, TypeInv, TypeOK
<1>3. WellFormed(c)
  BY <1>1, ArityAssumption DEF WellFormed
<1>4. \A i \in 1..Len(calls') : WellFormed(calls'[i])
  <2>1. TAKE i \in 1..Len(calls')
  <2>2. CASE i = Len(calls) + 1
    BY <1>2, <1>3, <2>2
  <2>3. CASE i \in 1..Len(calls)
    BY <1>1, <2>3 DEF TypeInv, Nesting
  <2>. QED  BY <1>1, <1>2, <2>1, <2>2, <2>3
<1>5. ASSUME NEW i \in 1..(Len(calls') - 1)
      PROVE  calls'[i].phase = "body" /\ calls'[i].base <= calls'[i + 1].base
  <2>1. i \in 1..Len(calls) /\ calls'[i] = calls[i]
    BY <1>1, <1>2, <1>5
  <2>2. CASE i = Len(calls)
    <3>1. Calling /\ calls'[i] = Current /\ calls'[i + 1] = c
      BY <1>1, <1>2, <2>1, <2>2 DEF Calling, Current, TypeInv, TypeOK
    <3>2. Current.phase = "body"
      BY <3>1 DEF CallPure, Executing
    <3>. QED  BY <1>1, <3>1, <3>2
  <2>3. CASE i # Len(calls)
    <3>1. i \in 1..(Len(calls) - 1) /\ i + 1 \in 1..Len(calls)
      BY <1>2, <2>1, <2>3
    <3>2. calls'[i + 1] = calls[i + 1]
      BY <1>1, <3>1
    <3>. QED  BY <2>1, <3>1, <3>2 DEF TypeInv, Nesting
  <2>. QED  BY <2>2, <2>3
<1>6. Len(stack') \in Nat
  BY <1>1
<1>7. Nesting'
  BY <1>1, <1>2, <1>4, <1>5, <1>6 DEF Nesting
<1>. QED  BY <1>1, <1>7 DEF TypeInv, TypeOK, CallPure

(* The record that Hashed(h) leaves: one hash code more.                   *)
LEMMA HashedFacts ==
    ASSUME TypeInv, Calling, NEW h \in Nat, Len(Current.hashes) < Arity,
           Current.phase # "body", NextArg \in Obj \cup Prim
    PROVE  LET c == Hashed(h) IN
           /\ c \in Activation /\ WellFormed(c)
           /\ c.phase = "hash" /\ c.args = Current.args
           /\ c.base = Current.base /\ c.locals = <<>>
           /\ Len(c.hashes) = Param /\ c.hashes[Param] = h
           /\ \A j \in 1..Len(c.hashes) : j # Param =>
                j \in 1..Len(Current.hashes) /\ c.hashes[j] = Current.hashes[j]
<1>. DEFINE c == Hashed(h)
<1>1. /\ Current \in Activation /\ WellFormed(Current)
      /\ Current.hashes \in Seq(Nat) /\ Param \in 1..Arity
  BY CurrentFacts DEF Activation
<1>2. /\ c.phase = "hash" /\ c.args = Current.args /\ c.base = Current.base
      /\ c.hashes = Append(Current.hashes, h) /\ c.locals = <<>>
  BY <1>1 DEF Hashed, Activation
<1>3. <<>> \in Seq(Value) /\ Append(Current.hashes, h) \in Seq(Nat)
  BY <1>1
<1>4. c \in Activation
  BY <1>1, <1>3 DEF Hashed, Activation
<1>. HIDE DEF c
<1>5. Len(c.hashes) = Param /\ c.hashes[Param] = h
  BY <1>1, <1>2, AppendFacts DEF Param
<1>6. \A j \in 1..Len(c.hashes) : j # Param =>
        j \in 1..Len(Current.hashes) /\ c.hashes[j] = Current.hashes[j]
  BY <1>1, <1>2, <1>5, AppendFacts DEF Param
<1>7. \A j \in 1..Len(c.hashes) : c.args[j] \in Obj \cup Prim
  <2>1. TAKE j \in 1..Len(c.hashes)
  <2>2. CASE j = Param
    BY <1>2, <2>2 DEF NextArg
  <2>3. CASE j # Param
    BY <1>1, <1>2, <1>6, <2>1, <2>3 DEF WellFormed
  <2>. QED  BY <2>2, <2>3
<1>8. Len(c.args) = Arity /\ Len(c.hashes) <= Arity
  BY <1>1, <1>2, <1>5 DEF WellFormed
<1>9. WellFormed(c)
  BY <1>2, <1>7, <1>8 DEF WellFormed
<1>. QED  BY <1>2, <1>4, <1>5, <1>6, <1>9 DEF c

LEMMA DenotationIsHashed ==
    ASSUME TypeInv, NEW v \in Obj \cup Prim, Denote(v) # Free
    PROVE  Denote(v) \in Prim \cup Content /\ Hash(Denote(v)) \in Nat
<1>1. Denote(v) \in Prim \cup Content
  BY DEF Denote, IsObject, TypeInv, TypeOK
<1>. QED  BY <1>1, HashAssumption

LEMMA HashPrimitiveFacts ==
    ASSUME TypeInv, HashPrimitive
    PROVE  /\ Calling /\ Current.phase = "hash" /\ Len(Current.hashes) < Arity
           /\ NextArg \in Prim /\ Denote(NextArg) = NextArg
           /\ Hash(NextArg) \in Nat
           /\ calls' = Update(Hashed(Hash(NextArg)))
<1>1. /\ Calling /\ Current.phase = "hash" /\ Len(Current.hashes) < Arity
      /\ NextArg \in Prim /\ calls' = Update(Hashed(Hash(NextArg)))
  BY DEF HashPrimitive
<1>. QED  BY <1>1, HashAssumption, ValueAssumption DEF Denote, IsObject

LEMMA HashPrimitiveKeepsType ==
    ASSUME TypeInv, HashPrimitive
    PROVE  TypeInv'
<1>. DEFINE c == Hashed(Hash(NextArg))
<1>1. /\ c \in Activation /\ WellFormed(c) /\ c.base = Current.base
      /\ Calling /\ Current.phase # "body" /\ calls' = Update(c)
  BY HashPrimitiveFacts, HashedFacts
<1>. HIDE DEF c
<1>2. calls' \in Seq(Activation) /\ Nesting'
  BY <1>1, UpdateNests DEF HashPrimitive
<1>. QED  BY <1>2 DEF HashPrimitive, TypeInv, TypeOK

LEMMA BeginFacts ==
    ASSUME TypeInv, BeginHash
    PROVE  LET c == [Current EXCEPT !.phase = "hashing", !.locals = <<NextArg>>] IN
           /\ Calling /\ Current.phase = "hash" /\ Len(Current.hashes) < Arity
           /\ NextArg \in Obj /\ Param \in 1..Arity
           /\ content[NextArg] # Free => calls' = Update(c) /\ mode' = mode
           /\ content[NextArg] = Free => calls' = calls /\ mode' = "undefined"
           /\ c \in Activation /\ WellFormed(c)
           /\ c.base = Current.base /\ c.phase = "hashing"
           /\ c.args = Current.args /\ c.hashes = Current.hashes
           /\ c.locals = <<NextArg>>
<1>. DEFINE c == [Current EXCEPT !.phase = "hashing", !.locals = <<NextArg>>]
<1>1. /\ Calling /\ Current.phase = "hash" /\ Len(Current.hashes) < Arity
      /\ NextArg \in Obj
      /\ content[NextArg] # Free => calls' = Update(c) /\ mode' = mode
      /\ content[NextArg] = Free => calls' = calls /\ mode' = "undefined"
  BY DEF BeginHash, IsObject
<1>2. Current \in Activation /\ WellFormed(Current) /\ Param \in 1..Arity
  BY <1>1, CurrentFacts
<1>3. /\ c.base = Current.base /\ c.phase = "hashing" /\ c.locals = <<NextArg>>
      /\ c.args = Current.args /\ c.hashes = Current.hashes
  BY <1>2 DEF Activation
<1>4. <<NextArg>> \in Seq(Value)
  BY <1>1 DEF Value
<1>5. c \in Activation
  BY <1>2, <1>4 DEF Activation
<1>. HIDE DEF c
<1>6. WellFormed(c)
  BY <1>1, <1>2, <1>3 DEF WellFormed, NextArg, Param
<1>. QED  BY <1>1, <1>2, <1>3, <1>5, <1>6 DEF c

LEMMA BeginKeepsType ==
    ASSUME TypeInv, BeginHash
    PROVE  TypeInv'
<1>. DEFINE c == [Current EXCEPT !.phase = "hashing", !.locals = <<NextArg>>]
<1>1. UNCHANGED <<content, held, stack, cache>>
  BY DEF BeginHash
<1>2. CASE content[NextArg] = Free
  <2>1. calls' = calls /\ mode' = "undefined"
    BY <1>2, BeginFacts
  <2>. QED  BY <1>1, <2>1, StillNests DEF TypeInv, TypeOK
<1>3. CASE content[NextArg] # Free
  <2>1. /\ c \in Activation /\ WellFormed(c) /\ c.base = Current.base
        /\ Calling /\ Current.phase # "body" /\ calls' = Update(c) /\ mode' = mode
    BY <1>3, BeginFacts
  <2>. HIDE DEF c
  <2>2. calls' \in Seq(Activation) /\ Nesting'
    BY <1>1, <2>1, UpdateNests
  <2>. QED  BY <1>1, <2>1, <2>2 DEF TypeInv, TypeOK
<1>. QED  BY <1>2, <1>3

LEMMA FinishFacts ==
    ASSUME TypeInv, FinishHash
    PROVE  /\ Calling /\ Current.phase = "hashing" /\ Len(Current.hashes) < Arity
           /\ NextArg \in Obj /\ Current.locals = <<NextArg>>
           /\ Param \in ObjectParams /\ Param \in 1..Arity
           /\ content[NextArg] = Free => calls' = calls /\ mode' = "undefined"
           /\ content[NextArg] # Free =>
                /\ Denote(NextArg) = content[NextArg] /\ Hash(Denote(NextArg)) \in Nat
                /\ calls' = Update(Hashed(Hash(Denote(NextArg)))) /\ mode' = mode
<1>1. /\ Calling /\ Current.phase = "hashing" /\ Param \in ObjectParams
      /\ content[NextArg] = Free => calls' = calls /\ mode' = "undefined"
      /\ content[NextArg] # Free =>
           calls' = Update(Hashed(Hash(content[NextArg]))) /\ mode' = mode
  BY DEF FinishHash
<1>2. /\ Len(Current.hashes) < Arity /\ NextArg \in Obj
      /\ Current.locals = <<NextArg>>
  BY <1>1, CurrentFacts DEF WellFormed, NextArg, Param
<1>3. Param \in 1..Arity
  BY <1>1, KindAssumption
<1>4. Denote(NextArg) = content[NextArg]
  BY <1>2 DEF Denote, IsObject
<1>. QED  BY <1>1, <1>2, <1>3, <1>4, DenotationIsHashed

LEMMA FinishKeepsType ==
    ASSUME TypeInv, FinishHash
    PROVE  TypeInv'
<1>. DEFINE c == Hashed(Hash(Denote(NextArg)))
<1>1. UNCHANGED <<content, held, stack, cache>>
  BY DEF FinishHash
<1>2. CASE content[NextArg] = Free
  <2>1. calls' = calls /\ mode' = "undefined"
    BY <1>2, FinishFacts
  <2>. QED  BY <1>1, <2>1, StillNests DEF TypeInv, TypeOK
<1>3. CASE content[NextArg] # Free
  <2>1. /\ c \in Activation /\ WellFormed(c) /\ c.base = Current.base
        /\ Calling /\ Current.phase # "body" /\ calls' = Update(c) /\ mode' = mode
    BY <1>3, FinishFacts, HashedFacts
  <2>. HIDE DEF c
  <2>2. calls' \in Seq(Activation) /\ Nesting'
    BY <1>1, <2>1, UpdateNests
  <2>. QED  BY <1>1, <2>1, <2>2 DEF TypeInv, TypeOK
<1>. QED  BY <1>2, <1>3

LEMMA FailKeepsType ==
    ASSUME TypeInv, Fails
    PROVE  TypeInv'
<1>1. Nesting'
  BY StillNests DEF Fails
<1>. QED  BY <1>1 DEF Fails, TypeInv, TypeOK

LEMMA HitKeepsType ==
    ASSUME TypeInv, NEW entry \in cache, Hit(entry)
    PROVE  TypeInv'
<1>1. /\ Calling /\ calls' = Callers /\ stack' = Append(stack, entry.result)
      /\ UNCHANGED <<content, held, cache, mode>> /\ Current.phase = "hash"
  BY DEF Hit, Looking
<1>2. entry.result \in Value
  BY DEF TypeInv, TypeOK
<1>3. Len(stack) = Current.base
  BY <1>1 DEF TypeInv, Nesting
<1>4. calls' \in Seq(Activation) /\ stack' \in Seq(Value) /\ Nesting'
  BY <1>1, <1>2, <1>3, ReturnNests
<1>. QED  BY <1>1, <1>4 DEF TypeInv, TypeOK

LEMMA MissFacts ==
    ASSUME TypeInv, Miss
    PROVE  LET c == [Current EXCEPT !.phase = "body", !.locals = Reversed(Current.args)] IN
           /\ Calling /\ Current.phase = "hash" /\ calls' = Update(c)
           /\ c \in Activation /\ WellFormed(c)
           /\ c.base = Current.base /\ c.phase = "body"
           /\ Len(c.hashes) = Arity
           /\ c.args = Current.args /\ c.hashes = Current.hashes
           /\ c.locals = Reversed(c.args)
<1>. DEFINE c == [Current EXCEPT !.phase = "body", !.locals = Reversed(Current.args)]
<1>1. /\ Calling /\ Current.phase = "hash" /\ Len(Current.hashes) = Arity
      /\ calls' = Update(c)
  BY DEF Miss, Looking
<1>2. Current \in Activation /\ WellFormed(Current)
  BY <1>1, CurrentFacts
<1>3. /\ c.base = Current.base /\ c.phase = "body" /\ c.locals = Reversed(c.args)
      /\ c.args = Current.args /\ c.hashes = Current.hashes
  BY <1>2 DEF Activation
<1>4. Current.args \in Seq(Value)
  BY <1>2 DEF Activation
<1>5. Reversed(Current.args) \in Seq(Value)
  BY <1>4, ReversedFacts
<1>6. c \in Activation
  BY <1>2, <1>5 DEF Activation
<1>. HIDE DEF c
<1>7. WellFormed(c)
  BY <1>1, <1>2, <1>3 DEF WellFormed
<1>. QED  BY <1>1, <1>3, <1>6, <1>7 DEF c

LEMMA MissKeepsType ==
    ASSUME TypeInv, Miss
    PROVE  TypeInv'
<1>. DEFINE c == [Current EXCEPT !.phase = "body", !.locals = Reversed(Current.args)]
<1>1. /\ Calling /\ Current.phase # "body" /\ calls' = Update(c)
      /\ c \in Activation /\ WellFormed(c) /\ c.base = Current.base
  BY MissFacts
<1>. HIDE DEF c
<1>2. UNCHANGED <<content, held, stack, cache, mode>>
  BY DEF Miss
<1>3. calls' \in Seq(Activation) /\ Nesting'
  BY <1>1, <1>2, UpdateNests
<1>. QED  BY <1>2, <1>3 DEF TypeInv, TypeOK

(* The locals of a body are the arguments, the last one first, and each of *)
(* them has been hashed: none is a list that a nested call returned.       *)
LEMMA BodyFacts ==
    ASSUME TypeInv, Calling, Current.phase = "body"
    PROVE  /\ Arity \in Nat /\ Current.locals \in Seq(Value)
           /\ Len(Current.locals) = Arity /\ Len(Current.hashes) = Arity
           /\ Current.locals = Reversed(Current.args)
           /\ Current.args \in Seq(Value) /\ Len(Current.args) = Arity
           /\ \A i \in 1..Arity : /\ Arity - i + 1 \in 1..Arity
                                  /\ Current.locals[i] = Current.args[Arity - i + 1]
                                  /\ Current.locals[i] \in Obj \cup Prim
                                  /\ Current.args[i] \in Obj \cup Prim
<1>1. Current \in Activation /\ WellFormed(Current)
  BY CurrentFacts
<1>2. /\ Current.args \in Seq(Value) /\ Len(Current.args) = Arity
      /\ Len(Current.hashes) = Arity /\ Current.locals = Reversed(Current.args)
      /\ \A i \in 1..Arity : Current.args[i] \in Obj \cup Prim
  BY <1>1 DEF Activation, WellFormed
<1>3. /\ Current.locals \in Seq(Value) /\ Len(Current.locals) = Arity
      /\ \A i \in 1..Arity : /\ Current.locals[i] = Current.args[Arity - i + 1]
                             /\ Arity - i + 1 \in 1..Arity
  BY <1>2, ReversedFacts
<1>. QED  BY <1>2, <1>3, ArityAssumption

LEMMA ReturnFacts ==
    ASSUME TypeInv, BodyReturns
    PROVE  /\ Calling /\ Current.phase = "body" /\ Len(stack) = Current.base
           /\ held' = held
           /\ \/ /\ \E i \in 1..Arity : Denote(Current.locals[i]) = Free
                 /\ mode' = "undefined" /\ UNCHANGED <<content, stack, calls, cache>>
              \/ /\ calls' = Callers /\ mode' = mode
                 /\ \E r \in Value :
                      /\ Remember(r) /\ stack' = Append(stack, r)
                      /\ \/ /\ ~ReturnsObject /\ content' = content
                            /\ r = Denoted(Current.locals) /\ r \in Result
                         \/ /\ ReturnsObject /\ r \in Obj
                            /\ content[r] = Free
                            /\ \E c \in Content : content' = [content EXCEPT ![r] = c]
<1>1. Calling /\ Current.phase = "body" /\ Len(stack) = Current.base /\ held' = held
  BY DEF BodyReturns
<1>2. CASE \E i \in 1..Arity : Denote(Current.locals[i]) = Free
  BY <1>1, <1>2 DEF BodyReturns
<1>3. CASE ~ \E i \in 1..Arity : Denote(Current.locals[i]) = Free
  <2>1. calls' = Callers /\ mode' = mode
    BY <1>3 DEF BodyReturns
  <2>2. CASE ~ReturnsObject
    <3>. DEFINE r == Denoted(Current.locals)
    <3>1. Remember(r) /\ stack' = Append(stack, r) /\ content' = content
      BY <1>3, <2>2 DEF BodyReturns
    <3>2. DOMAIN Current.locals = 1..Arity
      BY <1>1, BodyFacts
    <3>3. \A i \in 1..Arity : Denote(Current.locals[i]) \in Prim \cup Content
      BY <1>1, <1>3, BodyFacts, DenotationIsHashed
    <3>4. r \in Result
      BY <3>2, <3>3 DEF Denoted, Result
    <3>. QED  BY <1>1, <2>1, <2>2, <3>1, <3>4 DEF Value
  <2>3. CASE ReturnsObject
    <3>1. PICK o \in Obj, c \in Content :
            /\ content[o] = Free /\ content' = [content EXCEPT ![o] = c]
            /\ Remember(o) /\ stack' = Append(stack, o)
      BY <1>3, <2>3 DEF BodyReturns
    <3>. QED  BY <1>1, <2>1, <2>3, <3>1 DEF Value
  <2>. QED  BY <2>2, <2>3
<1>. QED  BY <1>2, <1>3

LEMMA RememberKeepsType ==
    ASSUME TypeInv, Calling, NEW r \in Value, Remember(r)
    PROVE  cache' \subseteq [args : Seq(Value), hashes : Seq(Nat), result : Value]
<1>1. Current.args \in Seq(Value) /\ Current.hashes \in Seq(Nat)
  BY CurrentFacts DEF Activation
<1>2. [args |-> Current.args, hashes |-> Current.hashes, result |-> r]
        \in [args : Seq(Value), hashes : Seq(Nat), result : Value]
  BY <1>1
<1>. QED  BY <1>2 DEF Remember, TypeInv, TypeOK

LEMMA ReturnKeepsType ==
    ASSUME TypeInv, BodyReturns
    PROVE  TypeInv'
<1>1. Calling /\ Len(stack) = Current.base /\ held' = held
  BY ReturnFacts
<1>2. CASE mode' = "undefined" /\ UNCHANGED <<content, stack, calls, cache>>
  BY <1>1, <1>2, StillNests DEF TypeInv, TypeOK
<1>3. ASSUME calls' = Callers, mode' = mode, NEW r \in Value,
             Remember(r), stack' = Append(stack, r),
             \/ content' = content
             \/ r \in Obj /\ \E c \in Content : content' = [content EXCEPT ![r] = c]
      PROVE  TypeInv'
  <2>1. calls' \in Seq(Activation) /\ stack' \in Seq(Value) /\ Nesting'
    BY <1>1, <1>3, ReturnNests
  <2>2. content' \in [Obj -> Content \cup {Free}]
    BY <1>3 DEF TypeInv, TypeOK
  <2>3. cache' \subseteq [args : Seq(Value), hashes : Seq(Nat), result : Value]
    BY <1>1, <1>3, RememberKeepsType
  <2>. QED  BY <1>1, <1>3, <2>1, <2>2, <2>3 DEF TypeInv, TypeOK
<1>. QED  BY <1>2, <1>3, ReturnFacts

LEMMA InitType ==
    ASSUME Init
    PROVE  TypeInv
<1>1. /\ content = [o \in Obj |-> Free] /\ held = {} /\ stack = <<>>
      /\ calls = <<>> /\ cache = {} /\ mode = "run"
  BY DEF Init
<1>2. TypeOK
  BY <1>1 DEF TypeOK
<1>3. Len(calls) = 0 /\ ~Calling
  BY <1>1 DEF Calling
<1>4. Nesting
  BY <1>3 DEF Nesting
<1>. QED  BY <1>2, <1>4 DEF TypeInv

LEMMA StutterKeepsType ==
    ASSUME TypeInv, UNCHANGED vars
    PROVE  TypeInv'
<1>1. Nesting'
  BY StillNests DEF vars
<1>. QED  BY <1>1 DEF vars, TypeInv, TypeOK

LEMMA StepKeepsType ==
    ASSUME TypeInv, [Next]_vars
    PROVE  TypeInv'
<1>1. ASSUME NEW o \in Obj, Forget(o) PROVE TypeInv'
  BY <1>1, ForgetKeepsType
<1>2. ASSUME NEW o \in Obj, NEW c \in Content, New(o, c) PROVE TypeInv'
  BY <1>2, NewKeepsType
<1>3. ASSUME NEW c \in Content, Touch(c) PROVE TypeInv'
  BY <1>3, TouchKeepsType
<1>4. ASSUME NEW v \in Obj \cup Prim, Load(v) PROVE TypeInv'
  BY <1>4, LoadKeepsType
<1>5. CASE Keep \/ Discard \/ Collect
  BY <1>5, KeepKeepsType, DiscardKeepsType, CollectKeepsType
<1>6. CASE CallPure \/ HashPrimitive \/ BeginHash \/ FinishHash
  BY <1>6, CallKeepsType, HashPrimitiveKeepsType, BeginKeepsType, FinishKeepsType
<1>7. ASSUME NEW entry \in cache, Hit(entry) PROVE TypeInv'
  BY <1>7, HitKeepsType
<1>8. CASE Miss \/ BodyReturns \/ Fails
  BY <1>8, MissKeepsType, ReturnKeepsType, FailKeepsType
<1>9. CASE UNCHANGED vars
  BY <1>9, StutterKeepsType
<1>. QED  BY <1>1, <1>2, <1>3, <1>4, <1>5, <1>6, <1>7, <1>8, <1>9 DEF Next

(* The variables of the cache have their types in every reachable state,   *)
(* for any arity, any parameters and any nesting of calls and collections. *)
THEOREM TypeCorrect == Spec => []TypeOK
<1>1. Init => TypeInv
  BY InitType
<1>2. TypeInv /\ [Next]_vars => TypeInv'
  BY StepKeepsType
<1>3. TypeInv => TypeOK
  BY DEF TypeInv
<1>. QED  BY <1>1, <1>2, <1>3, PTL DEF Spec
-----------------------------------------------------------------------------
(* What lies below a call.                                                 *)

LEMMA SamePrefix ==
    ASSUME NEW S, NEW s \in Seq(S), NEW t \in Seq(S), NEW n \in Nat,
           n <= Len(s), n <= Len(t), \A i \in 1..n : s[i] = t[i]
    PROVE  SubSeq(s, 1, n) = SubSeq(t, 1, n)
  OBVIOUS

LEMMA AppendKeepsBelow ==
    ASSUME TypeInv, Calling, NEW v \in Value
    PROVE  SubSeq(Append(stack, v), 1, Current.base) = SubSeq(stack, 1, Current.base)
<1>1. stack \in Seq(Value) /\ Current.base \in Nat /\ Current.base <= Len(stack)
  BY CurrentFacts DEF TypeInv, TypeOK
<1>2. /\ Append(stack, v) \in Seq(Value) /\ Current.base <= Len(Append(stack, v))
      /\ \A i \in 1..Current.base : Append(stack, v)[i] = stack[i]
  BY <1>1, AppendFacts
<1>. QED  BY <1>1, <1>2, SamePrefix

LEMMA RestKeepsBelow ==
    ASSUME TypeInv, Calling, NEW n \in Nat, n <= Len(stack),
           Current.base <= Len(stack) - n
    PROVE  SubSeq(Rest(n), 1, Current.base) = SubSeq(stack, 1, Current.base)
<1>1. /\ stack \in Seq(Value) /\ Current.base \in Nat /\ Current.base <= Len(stack)
      /\ Len(stack) \in Nat
  BY CurrentFacts DEF TypeInv, TypeOK
<1>2. /\ Rest(n) \in Seq(Value) /\ Current.base <= Len(Rest(n))
      /\ \A i \in 1..(Len(stack) - n) : Rest(n)[i] = stack[i]
  BY <1>1, RestFacts
<1>3. \A i \in 1..Current.base : i \in 1..(Len(stack) - n)
  BY <1>1
<1>. QED  BY <1>1, <1>2, <1>3, SamePrefix

(* A step of the current call, its last one or not.                        *)
Balanced ==
    LET below == Current.base IN
    /\ SubSeq(stack', 1, below) = SubSeq(stack, 1, below)
    /\ Len(calls') < Len(calls) => Len(stack') = below + 1

LEMMA InnerStepIsBalanced ==
    ASSUME TypeInv, Calling, Len(calls') >= Len(calls),
           SubSeq(stack', 1, Current.base) = SubSeq(stack, 1, Current.base),
           Len(calls') \in Nat
    PROVE  Balanced
  BY CurrentFacts DEF Balanced

LEMMA ReturnIsBalanced ==
    ASSUME TypeInv, Calling, Len(stack) = Current.base, NEW r \in Value,
           stack' = Append(stack, r)
    PROVE  Balanced
<1>1. Len(stack') = Current.base + 1
  BY AppendFacts DEF TypeInv, TypeOK
<1>. QED  BY <1>1, AppendKeepsBelow DEF Balanced

LEMMA StepIsBalanced ==
    ASSUME TypeInv, Next, Calling, mode' = "run"
    PROVE  Balanced
<1>1. TypeInv' /\ Len(calls') \in Nat /\ Len(calls) \in Nat
  <2>1. TypeInv'
    BY StepKeepsType
  <2>. QED  BY <2>1 DEF TypeInv, TypeOK
<1>2. ASSUME NEW v \in Value, Push(v), calls' = calls
      PROVE  Balanced
  <2>1. stack' = Append(stack, v) /\ Len(calls') >= Len(calls)
    BY <1>1, <1>2 DEF Push
  <2>2. SubSeq(stack', 1, Current.base) = SubSeq(stack, 1, Current.base)
    BY <2>1, AppendKeepsBelow
  <2>. QED  BY <1>1, <2>1, <2>2, InnerStepIsBalanced
<1>3. ASSUME stack' = stack, Len(calls') >= Len(calls)
      PROVE  Balanced
  BY <1>1, <1>3, InnerStepIsBalanced
<1>4. ASSUME NEW o \in Obj, NEW c \in Content, New(o, c) PROVE Balanced
  BY <1>2, <1>4 DEF New, Value
<1>5. ASSUME NEW v \in Obj \cup Prim, Load(v) PROVE Balanced
  BY <1>2, <1>5 DEF Load, Value
<1>6. CASE Discard
  <2>1. stack' = Rest(1) /\ calls' = calls /\ Len(stack) > Current.base
    BY <1>6 DEF Discard, Floor
  <2>2. Len(stack) \in Nat /\ Current.base \in Nat
    BY CurrentFacts DEF TypeInv, TypeOK
  <2>3. 1 \in Nat /\ 1 <= Len(stack) /\ Current.base <= Len(stack) - 1
    BY <2>1, <2>2
  <2>4. SubSeq(stack', 1, Current.base) = SubSeq(stack, 1, Current.base)
    BY <2>1, <2>3, RestKeepsBelow
  <2>5. Len(calls') >= Len(calls)
    BY <1>1, <2>1
  <2>. QED  BY <1>1, <2>4, <2>5, InnerStepIsBalanced
<1>7. CASE CallPure
  <2>1. /\ stack' = Rest(Arity) /\ Arity \in Nat /\ Arity <= Len(stack)
        /\ Len(stack') = Len(stack) - Arity /\ Current.base <= Len(stack')
        /\ Len(calls') = Len(calls) + 1
    BY <1>7, CallFacts
  <2>2. Len(calls') >= Len(calls) /\ Current.base <= Len(stack) - Arity
    BY <1>1, <2>1
  <2>3. SubSeq(stack', 1, Current.base) = SubSeq(stack, 1, Current.base)
    BY <2>1, <2>2, RestKeepsBelow
  <2>. QED  BY <1>1, <2>2, <2>3, InnerStepIsBalanced
<1>8. CASE HashPrimitive \/ BeginHash \/ FinishHash \/ Miss
  <2>1. calls \in Seq(Activation) /\ stack' = stack
    BY <1>8 DEF TypeInv, TypeOK, HashPrimitive, BeginHash, FinishHash, Miss
  <2>2. calls' = calls \/ \E c : calls' = Update(c)
    BY <1>8 DEF HashPrimitive, BeginHash, FinishHash, Miss
  <2>3. \A c : Len(Update(c)) = Len(calls)
    BY <2>1 DEF Update
  <2>. QED  BY <1>1, <1>3, <2>1, <2>2, <2>3
<1>9. ASSUME NEW entry \in cache, Hit(entry) PROVE Balanced
  <2>1. /\ entry.result \in Value /\ stack' = Append(stack, entry.result)
        /\ Len(stack) = Current.base
    BY <1>9 DEF Hit, Looking, TypeInv, TypeOK, Nesting
  <2>. QED  BY <2>1, ReturnIsBalanced
<1>10. CASE BodyReturns
  <2>1. PICK r \in Value : stack' = Append(stack, r)
    BY <1>10, ReturnFacts
  <2>. QED  BY <1>10, <2>1, ReturnFacts, ReturnIsBalanced
<1>11. CASE Collect \/ Fails
  BY <1>1, <1>3, <1>11 DEF Collect, Fails
<1>12. CASE Keep \/ (\E o \in Obj : Forget(o)) \/ (\E c \in Content : Touch(c))
  BY <1>12 DEF Keep, Forget, Touch
<1>. QED  BY <1>4, <1>5, <1>6, <1>7, <1>8, <1>9, <1>10, <1>11, <1>12 DEF Next

(* A call, whether it is answered from the map or by its body, replaces    *)
(* its arguments by one result and leaves what lies below them alone,      *)
(* whatever is collected, called or returned meanwhile.                    *)
THEOREM CallsAreBalanced == Spec => CallIsBalanced
<1>1. Init => TypeInv
  BY InitType
<1>2. TypeInv /\ [Next]_vars => TypeInv'
  BY StepKeepsType
<1>3. TypeInv /\ Next =>
        (Calling /\ mode' = "run" =>
           LET below == Current.base IN
           /\ SubSeq(stack', 1, below) = SubSeq(stack, 1, below)
           /\ Len(calls') < Len(calls) => Len(stack') = below + 1)
  BY StepIsBalanced DEF Balanced
<1>. QED  BY <1>1, <1>2, <1>3, PTL DEF Spec, CallIsBalanced
-----------------------------------------------------------------------------
(* References stay live.                                                   *)

(* What the program and the bodies do to a reference.                      *)
LiveStayLive == \A v : Live(v) => Live(v)'

LEMMA SameContent ==
    ASSUME content' = content
    PROVE  LiveStayLive
  BY DEF LiveStayLive, Live

LEMMA WriteKeepsLive ==
    ASSUME TypeInv, NEW o \in Obj, NEW c \in Content,
           content' = [content EXCEPT ![o] = c]
    PROVE  LiveStayLive
<1>1. content \in [Obj -> Content \cup {Free}] /\ c # Free
  BY FreeAssumption DEF TypeInv, TypeOK
<1>. QED  BY <1>1 DEF LiveStayLive, Live

LEMMA WorkIsSafe ==
    ASSUME SafetyInv, TypeInv', LiveStayLive, HeldAreLive', OperandsAreLive',
           UNCHANGED <<calls, cache, mode>>
    PROVE  SafetyInv'
<1>1. CallsAreSafe'
  <2>1. ASSUME NEW c, CallIsSafe(c) PROVE CallIsSafe(c)'
    BY <2>1 DEF CallIsSafe, LiveStayLive
  <2>. QED  BY <2>1 DEF SafetyInv, CallsAreSafe
<1>2. ResultsAreLists' /\ NoUseAfterFree'
  BY DEF SafetyInv, ResultsAreLists, NoUseAfterFree
<1>. QED  BY <1>1, <1>2 DEF SafetyInv

LEMMA OperandsStayLive ==
    ASSUME SafetyInv, LiveStayLive, stack' = stack
    PROVE  OperandsAreLive'
  BY DEF SafetyInv, OperandsAreLive, LiveStayLive

LEMMA PushedIsLive ==
    ASSUME SafetyInv, LiveStayLive, NEW v \in Value, Live(v)',
           stack' = Append(stack, v)
    PROVE  OperandsAreLive'
<1>1. /\ Len(stack) \in Nat /\ Len(stack') = Len(stack) + 1
      /\ \A i \in 1..Len(stack) : stack'[i] = stack[i]
      /\ stack'[Len(stack) + 1] = v
  BY AppendFacts DEF SafetyInv, TypeInv, TypeOK
<1>2. ASSUME NEW i \in 1..Len(stack')
      PROVE  stack'[i] \in Obj => content'[stack'[i]] # Free
  <2>1. CASE i = Len(stack) + 1
    BY <1>1, <2>1 DEF Live
  <2>2. CASE i \in 1..Len(stack)
    <3>1. Live(stack[i])
      BY <2>2 DEF SafetyInv, OperandsAreLive
    <3>. QED  BY <1>1, <2>2, <3>1 DEF LiveStayLive, Live
  <2>. QED  BY <1>1, <1>2, <2>1, <2>2
<1>. QED  BY <1>2 DEF OperandsAreLive, Live

LEMMA DroppedLeavesLive ==
    ASSUME SafetyInv, LiveStayLive, NEW n \in Nat, n <= Len(stack), stack' = Rest(n)
    PROVE  OperandsAreLive'
<1>1. /\ Len(stack) \in Nat /\ Len(stack') = Len(stack) - n
      /\ \A i \in 1..(Len(stack) - n) : stack'[i] = stack[i]
  BY RestFacts DEF SafetyInv, TypeInv, TypeOK
<1>2. ASSUME NEW i \in 1..Len(stack')
      PROVE  stack'[i] \in Obj => content'[stack'[i]] # Free
  <2>1. i \in 1..Len(stack) /\ stack'[i] = stack[i]
    BY <1>1, <1>2
  <2>2. Live(stack[i])
    BY <2>1 DEF SafetyInv, OperandsAreLive
  <2>. QED  BY <2>1, <2>2 DEF LiveStayLive, Live
<1>. QED  BY <1>2 DEF OperandsAreLive, Live

LEMMA HeldStayLive ==
    ASSUME SafetyInv, LiveStayLive, held' \subseteq held
    PROVE  HeldAreLive'
  BY DEF SafetyInv, HeldAreLive, LiveStayLive

LEMMA NewIsSafe ==
    ASSUME SafetyInv, TypeInv', NEW o \in Obj, NEW c \in Content, New(o, c)
    PROVE  SafetyInv'
<1>1. TypeInv /\ content' = [content EXCEPT ![o] = c] /\ stack' = Append(stack, o)
  BY DEF SafetyInv, New, Push
<1>2. LiveStayLive
  BY <1>1, WriteKeepsLive
<1>3. Live(o)'
  BY <1>1, FreeAssumption DEF Live, TypeInv, TypeOK
<1>4. HeldAreLive' /\ OperandsAreLive'
  BY <1>1, <1>2, <1>3, HeldStayLive, PushedIsLive DEF New, Value
<1>. QED  BY <1>2, <1>4, WorkIsSafe DEF New

LEMMA KeepIsSafe ==
    ASSUME SafetyInv, TypeInv', Keep
    PROVE  SafetyInv'
<1>1. stack \in Seq(Value) /\ stack # <<>>
  BY DEF SafetyInv, TypeInv, TypeOK, Keep
<1>2. 1 \in Nat /\ 1 <= Len(stack) /\ Len(stack) \in 1..Len(stack)
  BY <1>1
<1>3. LiveStayLive
  BY SameContent DEF Keep
<1>4. Live(stack[Len(stack)])
  BY <1>2 DEF SafetyInv, OperandsAreLive
<1>5. HeldAreLive'
  BY <1>3, <1>4 DEF Keep, SafetyInv, HeldAreLive, LiveStayLive
<1>6. OperandsAreLive'
  BY <1>2, <1>3, DroppedLeavesLive DEF Keep
<1>. QED  BY <1>3, <1>5, <1>6, WorkIsSafe DEF Keep

LEMMA DiscardIsSafe ==
    ASSUME SafetyInv, TypeInv', Discard
    PROVE  SafetyInv'
<1>1. TypeInv /\ stack \in Seq(Value) /\ Len(stack) > Floor
  BY DEF SafetyInv, TypeInv, TypeOK, Discard
<1>2. Floor \in Nat /\ Len(stack) \in Nat
  BY <1>1, CurrentFacts DEF Floor
<1>3. 1 \in Nat /\ 1 <= Len(stack)
  BY <1>1, <1>2
<1>4. LiveStayLive
  BY SameContent DEF Discard
<1>5. HeldAreLive' /\ OperandsAreLive'
  BY <1>3, <1>4, HeldStayLive, DroppedLeavesLive DEF Discard
<1>. QED  BY <1>4, <1>5, WorkIsSafe DEF Discard

LEMMA LoadIsSafe ==
    ASSUME SafetyInv, TypeInv', NEW v \in Obj \cup Prim, Load(v)
    PROVE  SafetyInv'
<1>1. LiveStayLive /\ stack' = Append(stack, v)
  BY SameContent DEF Load, Push
<1>2. Live(v)
  <2>1. CASE v \in Prim
    BY <2>1, ValueAssumption DEF Live
  <2>2. CASE Calling /\ v \in Elements(Current.locals)
    <3>1. Len(calls) \in 1..Len(calls) /\ Current.locals \in Seq(Value)
      BY <2>2, CurrentFacts DEF SafetyInv, Activation
    <3>2. CallIsSafe(Current)
      BY <3>1 DEF SafetyInv, CallsAreSafe, Current
    <3>. QED  BY <2>2, <3>1, <3>2 DEF CallIsSafe, Elements
  <2>3. CASE v \in held
    BY <2>3 DEF SafetyInv, HeldAreLive
  <2>. QED  BY <2>1, <2>2, <2>3 DEF Load
<1>3. Live(v)'
  BY <1>1, <1>2 DEF LiveStayLive
<1>4. HeldAreLive' /\ OperandsAreLive'
  BY <1>1, <1>3, HeldStayLive, PushedIsLive DEF Load, Value
<1>. QED  BY <1>1, <1>4, WorkIsSafe DEF Load

LEMMA ForgetIsSafe ==
    ASSUME SafetyInv, TypeInv', NEW o \in Obj, Forget(o)
    PROVE  SafetyInv'
<1>1. LiveStayLive
  BY SameContent DEF Forget
<1>2. HeldAreLive' /\ OperandsAreLive'
  BY <1>1, HeldStayLive, OperandsStayLive DEF Forget
<1>. QED  BY <1>1, <1>2, WorkIsSafe DEF Forget

LEMMA TouchIsSafe ==
    ASSUME SafetyInv, TypeInv', NEW c \in Content, Touch(c)
    PROVE  SafetyInv'
<1>. DEFINE o == stack[Len(stack)]
<1>1. stack \in Seq(Value) /\ stack # <<>> /\ o \in Obj
  BY DEF SafetyInv, TypeInv, TypeOK, Touch, IsObject
<1>2. 1 \in Nat /\ 1 <= Len(stack) /\ Len(stack) \in 1..Len(stack)
  BY <1>1
<1>3. content[o] # Free
  BY <1>1, <1>2 DEF SafetyInv, OperandsAreLive, Live
<1>4. /\ content' = [content EXCEPT ![o] = c] /\ stack' = Rest(1)
      /\ UNCHANGED <<held, calls, cache, mode>>
  BY <1>3 DEF Touch
<1>5. LiveStayLive
  BY <1>1, <1>4, WriteKeepsLive DEF SafetyInv
<1>6. HeldAreLive' /\ OperandsAreLive'
  BY <1>2, <1>4, <1>5, HeldStayLive, DroppedLeavesLive
<1>. QED  BY <1>4, <1>5, <1>6, WorkIsSafe

(* What a collection finds.                                                *)
LEMMA RootFacts ==
    ASSUME TypeInv
    PROVE  /\ held \subseteq Roots
           /\ \A i \in 1..Len(stack) : stack[i] \in Roots
           /\ \A i \in 1..Len(calls) : \A j \in 1..Len(calls[i].locals) :
                calls[i].locals[j] \in Roots
<1>1. \A i \in 1..Len(stack) : stack[i] \in Elements(stack)
  BY DEF TypeInv, TypeOK, Elements
<1>2. ASSUME NEW i \in 1..Len(calls), NEW j \in 1..Len(calls[i].locals)
      PROVE  calls[i].locals[j] \in Roots
  <2>1. calls \in Seq(Activation) /\ calls[i] \in Activation
    BY DEF TypeInv, TypeOK
  <2>2. calls[i] \in Elements(calls)
    BY <2>1 DEF Elements
  <2>3. calls[i].locals \in Seq(Value)
    BY <2>1 DEF Activation
  <2>4. calls[i].locals[j] \in Elements(calls[i].locals)
    BY <2>3 DEF Elements
  <2>. QED  BY <2>2, <2>4 DEF Roots
<1>. QED  BY <1>1, <1>2 DEF Roots

(* At a collection every call has its arguments in a frame.                *)
LEMMA NobodyLooksAtCollection ==
    ASSUME TypeInv, Collect, NEW i \in 1..Len(calls)
    PROVE  calls[i].phase # "hash"
<1>1. Len(calls) \in Nat /\ Calling
  BY DEF TypeInv, TypeOK, Calling
<1>2. CASE i = Len(calls)
  BY <1>1, <1>2 DEF Collect, Current
<1>3. CASE i # Len(calls)
  <2>1. i \in 1..(Len(calls) - 1)
    BY <1>1, <1>3
  <2>. QED  BY <2>1 DEF TypeInv, Nesting
<1>. QED  BY <1>2, <1>3

LEMMA CollectIsSafe ==
    ASSUME SafetyInv, TypeInv', Collect
    PROVE  SafetyInv'
<1>. USE DEF Live
<1>1. /\ UNCHANGED <<held, stack, calls, cache, mode>> /\ TypeInv
      /\ \A o \in Obj : o \in Roots => content'[o] = content[o]
  BY DEF Collect, SafetyInv
<1>2. HeldAreLive'
  BY <1>1, RootFacts DEF SafetyInv, HeldAreLive
<1>3. OperandsAreLive'
  BY <1>1, RootFacts DEF SafetyInv, OperandsAreLive
<1>4. CallsAreSafe'
  <2>1. ASSUME NEW i \in 1..Len(calls)
        PROVE  CallIsSafe(calls[i])'
    <3>1. CallIsSafe(calls[i]) /\ calls'[i] = calls[i] /\ calls[i].phase # "hash"
      BY <1>1, NobodyLooksAtCollection DEF SafetyInv, CallsAreSafe
    <3>2. \A j \in 1..Len(calls[i].locals) : calls[i].locals[j] \in Roots
      BY <1>1, RootFacts
    <3>. QED  BY <1>1, <3>1, <3>2 DEF CallIsSafe
  <2>. QED  BY <1>1, <2>1 DEF CallsAreSafe
<1>5. ResultsAreLists' /\ NoUseAfterFree'
  BY <1>1 DEF SafetyInv, ResultsAreLists, NoUseAfterFree
<1>. QED  BY <1>2, <1>3, <1>4, <1>5 DEF SafetyInv

(* The steps of Execute leave the objects alone.                           *)
LEMMA ExecuteIsSafe ==
    ASSUME SafetyInv, TypeInv', UNCHANGED <<content, held>>, mode' # "undefined",
           OperandsAreLive', CallsAreSafe', ResultsAreLists'
    PROVE  SafetyInv'
<1>1. HeldAreLive'
  BY SameContent, HeldStayLive
<1>. QED  BY <1>1 DEF SafetyInv, NoUseAfterFree

LEMMA SameCallIsSafe ==
    ASSUME content' = content, NEW c, CallIsSafe(c)
    PROVE  CallIsSafe(c)'
  BY DEF CallIsSafe, Live

LEMMA UpdateIsSafe ==
    ASSUME SafetyInv, TypeInv', Calling, NEW c \in Activation, CallIsSafe(c),
           calls' = Update(c), UNCHANGED <<content, held, stack, cache, mode>>
    PROVE  SafetyInv'
<1>1. calls \in Seq(Activation) /\ Len(calls) \in 1..Len(calls)
  BY CurrentFacts DEF SafetyInv, TypeInv, TypeOK
<1>2. /\ Len(calls') = Len(calls) /\ calls'[Len(calls)] = c
      /\ \A j \in 1..Len(calls) : j # Len(calls) => calls'[j] = calls[j]
  BY <1>1, UpdateFacts DEF Update
<1>3. CallsAreSafe'
  <2>1. ASSUME NEW i \in 1..Len(calls')
        PROVE  CallIsSafe(calls[i])'
    <3>1. calls'[i] = c \/ (calls'[i] = calls[i] /\ CallIsSafe(calls[i]))
      BY <1>2, <2>1 DEF SafetyInv, CallsAreSafe
    <3>2. \A d : CallIsSafe(d) => CallIsSafe(d)'
      BY SameCallIsSafe
    <3>. QED  BY <3>1, <3>2
  <2>. QED  BY <2>1 DEF CallsAreSafe
<1>4. OperandsAreLive' /\ ResultsAreLists' /\ mode' # "undefined"
  BY SameContent, OperandsStayLive DEF SafetyInv, ResultsAreLists, NoUseAfterFree
<1>. QED  BY <1>3, <1>4, ExecuteIsSafe

LEMMA CurrentIsSafe ==
    ASSUME SafetyInv, Calling
    PROVE  CallIsSafe(Current) /\ TypeInv
<1>1. TypeInv
  BY DEF SafetyInv
<1>2. Len(calls) \in 1..Len(calls)
  BY <1>1, CurrentFacts
<1>. QED  BY <1>1, <1>2 DEF SafetyInv, CallsAreSafe, Current

LEMMA CallStepIsSafe ==
    ASSUME SafetyInv, TypeInv', CallPure
    PROVE  SafetyInv'
<1>. DEFINE c == calls'[Len(calls')]
<1>. HIDE DEF c
<1>1. /\ stack' = Rest(Arity) /\ Arity \in Nat /\ Arity <= Len(stack)
      /\ Len(calls') = Len(calls) + 1
      /\ \A i \in 1..Len(calls) : calls'[i] = calls[i]
      /\ c.hashes = <<>> /\ c.locals = <<>>
      /\ \A j \in 1..Arity : c.args[j] = stack[Len(stack) - Arity + j]
      /\ \A j \in 1..Arity : Len(stack) - Arity + j \in 1..Len(stack)
  BY CallFacts DEF c, SafetyInv
<1>2. Len(calls) \in Nat
  BY DEF SafetyInv, TypeInv, TypeOK
<1>3. UNCHANGED <<content, held, cache, mode>>
  BY DEF CallPure
<1>4. CallIsSafe(c)
  <2>1. \A j \in 1..Arity : Live(c.args[j])
    BY <1>1 DEF SafetyInv, OperandsAreLive
  <2>2. Len(c.locals) = 0 /\ Len(c.hashes) = 0
    BY <1>1
  <2>. QED  BY <2>1, <2>2 DEF CallIsSafe
<1>5. CallsAreSafe'
  <2>1. ASSUME NEW i \in 1..Len(calls')
        PROVE  CallIsSafe(calls[i])'
    <3>1. calls'[i] = c \/ (calls'[i] = calls[i] /\ CallIsSafe(calls[i]))
      <4>1. i = Len(calls') \/ i \in 1..Len(calls)
        BY <1>1, <1>2, <2>1
      <4>. QED  BY <1>1, <4>1 DEF c, SafetyInv, CallsAreSafe
    <3>2. \A d : CallIsSafe(d) => CallIsSafe(d)'
      BY <1>3, SameCallIsSafe
    <3>. QED  BY <1>4, <3>1, <3>2
  <2>. QED  BY <2>1 DEF CallsAreSafe
<1>6. OperandsAreLive' /\ ResultsAreLists' /\ mode' # "undefined"
  BY <1>1, <1>3, SameContent, DroppedLeavesLive DEF SafetyInv, ResultsAreLists, NoUseAfterFree
<1>. QED  BY <1>3, <1>5, <1>6, ExecuteIsSafe

(* An argument that was hashed and let the call go on: a reference only if *)
(* it is the last one, with all the others hashed before.                  *)
LEMMA HashedIsSafe ==
    ASSUME SafetyInv, Calling, Len(Current.hashes) < Arity, Current.phase # "body",
           NextArg \in Obj \cup Prim, NEW h \in Nat,
           NextArg \in Prim \/ Param = Arity,
           \A j \in 1..Arity : j >= Param => Live(Current.args[j])
    PROVE  CallIsSafe(Hashed(h))
<1>. DEFINE c == Hashed(h)
<1>1. TypeInv /\ CallIsSafe(Current)
  BY CurrentIsSafe
<1>2. /\ c.phase = "hash" /\ c.args = Current.args /\ c.locals = <<>>
      /\ Len(c.hashes) = Param
      /\ \A j \in 1..Len(c.hashes) : j # Param => j \in 1..Len(Current.hashes)
  BY <1>1, HashedFacts
<1>. HIDE DEF c
<1>3. \A j \in 1..Len(c.hashes) : j < Arity => c.args[j] \in Prim
  BY <1>1, <1>2 DEF CallIsSafe, NextArg
<1>4. Arity \in Nat /\ Param \in 1..Arity
  BY <1>1, ArityAssumption, CurrentFacts
<1>5. ASSUME NEW j \in 1..Arity
      PROVE  Live(c.args[j])
  <2>1. CASE j >= Param
    BY <1>2, <2>1
  <2>2. CASE j < Param
    <3>1. c.args[j] \in Prim
      BY <1>2, <1>3, <1>4, <1>5, <2>2
    <3>. QED  BY <3>1, ValueAssumption DEF Live
  <2>. QED  BY <1>4, <1>5, <2>1, <2>2
<1>6. Len(c.locals) = 0
  BY <1>2
<1>7. CallIsSafe(c)
  BY <1>3, <1>5, <1>6 DEF CallIsSafe
<1>. QED  BY <1>7 DEF c

LEMMA HashPrimitiveIsSafe ==
    ASSUME SafetyInv, TypeInv', HashPrimitive
    PROVE  SafetyInv'
<1>. DEFINE c == Hashed(Hash(NextArg))
<1>1. TypeInv
  BY DEF SafetyInv
<1>2. /\ Calling /\ Current.phase = "hash" /\ Len(Current.hashes) < Arity
      /\ NextArg \in Prim /\ Hash(NextArg) \in Nat /\ calls' = Update(c)
  BY <1>1, HashPrimitiveFacts
<1>3. c \in Activation
  BY <1>1, <1>2, HashedFacts
<1>4. \A j \in 1..Arity : Live(Current.args[j])
  BY <1>2, CurrentIsSafe DEF CallIsSafe
<1>5. CallIsSafe(c)
  BY <1>2, <1>4, HashedIsSafe
<1>. HIDE DEF c
<1>. QED  BY <1>2, <1>3, <1>5, UpdateIsSafe DEF HashPrimitive

LEMMA BeginIsSafe ==
    ASSUME SafetyInv, TypeInv', BeginHash
    PROVE  SafetyInv'
<1>. DEFINE c == [Current EXCEPT !.phase = "hashing", !.locals = <<NextArg>>]
<1>1. TypeInv /\ UNCHANGED <<content, held, stack, cache>>
  BY DEF SafetyInv, BeginHash
<1>2. /\ Calling /\ Current.phase = "hash" /\ NextArg \in Obj /\ Param \in 1..Arity
      /\ content[NextArg] # Free => calls' = Update(c) /\ mode' = mode
      /\ c \in Activation /\ c.phase = "hashing"
      /\ c.args = Current.args /\ c.hashes = Current.hashes
      /\ c.locals = <<NextArg>>
  BY <1>1, BeginFacts
<1>. HIDE DEF c
<1>3. CallIsSafe(Current)
  BY <1>2, CurrentIsSafe
<1>4. content[NextArg] # Free
  BY <1>2, <1>3 DEF CallIsSafe, NextArg, Live
<1>5. CallIsSafe(c)
  BY <1>2, <1>3, <1>4 DEF CallIsSafe, Live
<1>. QED  BY <1>1, <1>2, <1>4, <1>5, UpdateIsSafe

LEMMA FinishIsSafe ==
    ASSUME SafetyInv, TypeInv', FinishHash, ObjectParams \subseteq {Arity}
    PROVE  SafetyInv'
<1>. DEFINE c == Hashed(Hash(Denote(NextArg)))
<1>1. TypeInv /\ UNCHANGED <<content, held, stack, cache>>
  BY DEF SafetyInv, FinishHash
<1>2. /\ Calling /\ Current.phase = "hashing" /\ Len(Current.hashes) < Arity
      /\ NextArg \in Obj /\ Current.locals = <<NextArg>>
      /\ Param \in ObjectParams
  BY <1>1, FinishFacts
<1>3. content[NextArg] # Free
  <2>1. CallIsSafe(Current) /\ 1 \in 1..Len(Current.locals) /\ Current.locals[1] = NextArg
    BY <1>2, CurrentIsSafe
  <2>2. Live(NextArg)
    BY <2>1 DEF CallIsSafe
  <2>. QED  BY <1>2, <2>2 DEF Live
<1>4. /\ Hash(Denote(NextArg)) \in Nat /\ calls' = Update(c) /\ mode' = mode
  BY <1>1, <1>3, FinishFacts
<1>5. Param = Arity
  BY <1>2
<1>6. \A j \in 1..Arity : j >= Param => Live(Current.args[j])
  <2>1. \A j \in 1..Arity : j >= Param => j = Param
    BY <1>5, ArityAssumption
  <2>. QED  BY <1>3, <2>1 DEF NextArg, Live
<1>7. CallIsSafe(c) /\ c \in Activation
  BY <1>1, <1>2, <1>4, <1>5, <1>6, HashedIsSafe, HashedFacts
<1>. HIDE DEF c
<1>. QED  BY <1>1, <1>2, <1>4, <1>7, UpdateIsSafe

LEMMA FailIsSafe ==
    ASSUME SafetyInv, TypeInv', Fails
    PROVE  SafetyInv'
<1>1. UNCHANGED <<content, held, stack, calls, cache>> /\ mode' # "undefined"
  BY DEF Fails
<1>2. CallsAreSafe'
  BY <1>1 DEF SafetyInv, CallsAreSafe, CallIsSafe, Live
<1>3. OperandsAreLive' /\ ResultsAreLists'
  BY <1>1, SameContent, OperandsStayLive DEF SafetyInv, ResultsAreLists
<1>. QED  BY <1>1, <1>2, <1>3, ExecuteIsSafe

LEMMA ReturnedIsSafe ==
    ASSUME SafetyInv, TypeInv', Calling, Len(stack) = Current.base,
           NEW r \in Result, calls' = Callers, stack' = Append(stack, r),
           UNCHANGED <<content, held, mode>>, ResultsAreLists'
    PROVE  SafetyInv'
<1>1. TypeInv /\ r \in Value /\ r \notin Obj
  BY ResultAssumption DEF SafetyInv, Value
<1>2. Len(calls') = Len(calls) - 1 /\ \A i \in 1..Len(calls') : calls'[i] = calls[i]
  BY <1>1, ReturnNests
<1>3. Len(calls) \in Nat
  BY <1>1 DEF TypeInv, TypeOK
<1>4. CallsAreSafe'
  <2>1. ASSUME NEW i \in 1..Len(calls')
        PROVE  CallIsSafe(calls[i])'
    <3>1. calls'[i] = calls[i] /\ CallIsSafe(calls[i])
      BY <1>2, <1>3, <2>1 DEF SafetyInv, CallsAreSafe
    <3>2. \A d : CallIsSafe(d) => CallIsSafe(d)'
      BY SameCallIsSafe
    <3>. QED  BY <3>1, <3>2
  <2>. QED  BY <2>1 DEF CallsAreSafe
<1>5. Live(r)'
  BY <1>1 DEF Live
<1>6. OperandsAreLive' /\ mode' # "undefined"
  BY <1>1, <1>5, SameContent, PushedIsLive DEF SafetyInv, NoUseAfterFree
<1>. QED  BY <1>4, <1>6, ExecuteIsSafe

LEMMA HitIsSafe ==
    ASSUME SafetyInv, TypeInv', NEW entry \in cache, Hit(entry)
    PROVE  SafetyInv'
<1>1. /\ Calling /\ Len(stack) = Current.base
      /\ calls' = Callers /\ stack' = Append(stack, entry.result)
      /\ UNCHANGED <<content, held, cache, mode>>
  BY DEF Hit, Looking, SafetyInv, TypeInv, Nesting
<1>2. entry.result \in Result /\ ResultsAreLists'
  BY <1>1 DEF SafetyInv, ResultsAreLists
<1>. QED  BY <1>1, <1>2, ReturnedIsSafe

LEMMA MissIsSafe ==
    ASSUME SafetyInv, TypeInv', Miss
    PROVE  SafetyInv'
<1>. DEFINE c == [Current EXCEPT !.phase = "body", !.locals = Reversed(Current.args)]
<1>1. /\ Calling /\ Current.phase = "hash" /\ calls' = Update(c)
      /\ c \in Activation /\ WellFormed(c) /\ c.phase = "body"
      /\ c.args = Current.args /\ c.hashes = Current.hashes
      /\ c.locals = Reversed(c.args)
  BY MissFacts DEF SafetyInv
<1>. HIDE DEF c
<1>2. c.args \in Seq(Value) /\ Len(c.args) = Arity
  BY <1>1 DEF Activation, WellFormed
<1>3. /\ Len(c.locals) = Arity
      /\ \A j \in 1..Arity : c.locals[j] = c.args[Arity - j + 1] /\ Arity - j + 1 \in 1..Arity
  BY <1>1, <1>2, ReversedFacts
<1>4. CallIsSafe(Current)
  BY <1>1, CurrentIsSafe
<1>5. \A j \in 1..Arity : Live(Current.args[j])
  BY <1>1, <1>4 DEF CallIsSafe
<1>6. \A j \in 1..Len(c.locals) : Live(c.locals[j])
  BY <1>1, <1>3, <1>5
<1>7. CallIsSafe(c)
  BY <1>1, <1>4, <1>6 DEF CallIsSafe
<1>. QED  BY <1>1, <1>7, UpdateIsSafe DEF Miss

LEMMA BodyReturnIsSafe ==
    ASSUME SafetyInv, TypeInv', BodyReturns, ~ReturnsObject
    PROVE  SafetyInv'
<1>1. TypeInv /\ Calling /\ Current.phase = "body" /\ Len(stack) = Current.base /\ held' = held
  BY ReturnFacts DEF SafetyInv
<1>2. ASSUME NEW i \in 1..Arity
      PROVE  Denote(Current.locals[i]) # Free
  <2>1. Current.locals[i] \in Obj \cup Prim /\ i \in 1..Len(Current.locals)
    BY <1>1, BodyFacts
  <2>2. Live(Current.locals[i])
    BY <1>1, <2>1, CurrentIsSafe DEF CallIsSafe
  <2>. QED  BY <2>1, <2>2, FreeAssumption DEF Live, Denote, IsObject
<1>3. PICK r \in Value :
        /\ calls' = Callers /\ mode' = mode /\ Remember(r) /\ stack' = Append(stack, r)
        /\ content' = content /\ r \in Result
  BY <1>1, <1>2, ReturnFacts
<1>4. ResultsAreLists'
  BY <1>3 DEF Remember, SafetyInv, ResultsAreLists
<1>. QED  BY <1>1, <1>3, <1>4, ReturnedIsSafe

LEMMA StepIsSafe ==
    ASSUME SafetyInv, [Next]_vars, ~ReturnsObject, ObjectParams \subseteq {Arity}
    PROVE  SafetyInv'
<1>. TypeInv'
  BY StepKeepsType DEF SafetyInv
<1>1. ASSUME NEW o \in Obj, Forget(o) PROVE SafetyInv'
  BY <1>1, ForgetIsSafe
<1>2. ASSUME NEW o \in Obj, NEW c \in Content, New(o, c) PROVE SafetyInv'
  BY <1>2, NewIsSafe
<1>3. ASSUME NEW c \in Content, Touch(c) PROVE SafetyInv'
  BY <1>3, TouchIsSafe
<1>4. ASSUME NEW v \in Obj \cup Prim, Load(v) PROVE SafetyInv'
  BY <1>4, LoadIsSafe
<1>5. CASE Keep \/ Discard \/ Collect
  BY <1>5, KeepIsSafe, DiscardIsSafe, CollectIsSafe
<1>6. CASE CallPure \/ HashPrimitive \/ BeginHash \/ FinishHash
  BY <1>6, CallStepIsSafe, HashPrimitiveIsSafe, BeginIsSafe, FinishIsSafe
<1>7. ASSUME NEW entry \in cache, Hit(entry) PROVE SafetyInv'
  BY <1>7, HitIsSafe
<1>8. CASE Miss \/ BodyReturns \/ Fails
  BY <1>8, MissIsSafe, BodyReturnIsSafe, FailIsSafe
<1>9. CASE UNCHANGED vars
  <2>1. LiveStayLive /\ UNCHANGED <<held, stack, calls, cache, mode>>
    BY <1>9, SameContent DEF vars
  <2>. QED  BY <2>1, HeldStayLive, OperandsStayLive, WorkIsSafe
<1>. QED  BY <1>1, <1>2, <1>3, <1>4, <1>5, <1>6, <1>7, <1>8, <1>9 DEF Next

LEMMA InitIsSafe ==
    ASSUME Init
    PROVE  SafetyInv
<1>1. TypeInv
  BY InitType
<1>2. /\ held = {} /\ Len(stack) = 0 /\ Len(calls) = 0 /\ cache = {} /\ mode = "run"
  BY DEF Init
<1>. QED  BY <1>1, <1>2 DEF SafetyInv, HeldAreLive, OperandsAreLive, CallsAreSafe,
                           ResultsAreLists, NoUseAfterFree

(* Nothing is read through a stale reference if the function returns no    *)
(* object and only its last argument may be one: it is hashed last, and    *)
(* the frame of its own hash function refers to it meanwhile.  Run         *)
(* PfTwoObjects shows what happens to an object before the last one; a     *)
(* result that the map alone refers to may be collected and found again.   *)
THEOREM NothingStaleIsRead ==
    ~ReturnsObject /\ ObjectParams \subseteq {Arity} => (Spec => []NoUseAfterFree)
<1>. SUFFICES ASSUME ~ReturnsObject, ObjectParams \subseteq {Arity}
              PROVE  Spec => []NoUseAfterFree
  OBVIOUS
<1>1. Init => SafetyInv
  BY InitIsSafe
<1>2. SafetyInv /\ [Next]_vars => SafetyInv'
  BY StepIsSafe
<1>3. SafetyInv => NoUseAfterFree
  BY DEF SafetyInv
<1>. QED  BY <1>1, <1>2, <1>3, PTL DEF Spec
-----------------------------------------------------------------------------
(* Entries stay true.                                                      *)

(* A hashed argument that is an object is the last one, and either it was  *)
(* hashed by the last step or it is in the body's frame.                   *)
LEMMA HashedObject ==
    ASSUME SafetyInv, NEW i \in 1..Len(calls), NEW j \in 1..Len(calls[i].hashes),
           calls[i].args[j] \in Obj
    PROVE  /\ content[calls[i].args[j]] # Free
           /\ calls[i].phase # "hash" => calls[i].args[j] \in Roots
<1>. DEFINE c == calls[i]
<1>1. TypeInv /\ c \in Activation /\ WellFormed(c) /\ CallIsSafe(c)
  BY DEF SafetyInv, TypeInv, TypeOK, Nesting, CallsAreSafe
<1>2. /\ c.args \in Seq(Value) /\ Len(c.args) = Arity /\ c.hashes \in Seq(Nat)
      /\ Len(c.hashes) <= Arity /\ Arity \in Nat /\ Arity >= 1
  BY <1>1, ArityAssumption DEF Activation, WellFormed
<1>3. j = Arity /\ Len(c.hashes) = Arity
  <2>1. ~(j < Arity)
    BY <1>1, ValueAssumption DEF CallIsSafe
  <2>. QED  BY <1>2, <2>1
<1>4. CASE c.phase = "hash"
  BY <1>1, <1>2, <1>3, <1>4 DEF CallIsSafe, Live
<1>5. CASE c.phase = "body"
  <2>1. c.locals = Reversed(c.args)
    BY <1>1, <1>5 DEF WellFormed
  <2>2. Len(c.locals) = Arity /\ c.locals[1] = c.args[Arity - 1 + 1] /\ 1 \in 1..Arity
    BY <1>2, <2>1, ReversedFacts
  <2>3. c.locals[1] = c.args[j] /\ 1 \in 1..Len(c.locals)
    BY <1>2, <1>3, <2>2
  <2>4. Live(c.args[j])
    BY <1>1, <2>3 DEF CallIsSafe
  <2>5. c.locals[1] \in Roots
    BY <1>1, <2>3, RootFacts
  <2>. QED  BY <2>3, <2>4, <2>5 DEF Live
<1>6. c.phase # "hashing"
  BY <1>1, <1>2, <1>3 DEF WellFormed
<1>7. c.phase \in {"hash", "hashing", "body"}
  BY <1>1 DEF Activation
<1>. QED  BY <1>4, <1>5, <1>6, <1>7

LEMMA StayCurrent ==
    ASSUME SafetyInv, CallsAreCurrent, calls' = calls,
           \A i \in 1..Len(calls) : \A j \in 1..Len(calls[i].hashes) :
             calls[i].args[j] \in Obj =>
               content'[calls[i].args[j]] = content[calls[i].args[j]]
    PROVE  CallsAreCurrent'
<1>1. ASSUME NEW i \in 1..Len(calls'), NEW j \in 1..Len(calls'[i].hashes)
      PROVE  calls'[i].hashes[j] = Hash(Denote(calls[i].args[j])')
  <2>1. Denote(calls[i].args[j])' = Denote(calls[i].args[j])
    BY <1>1 DEF Denote, IsObject
  <2>. QED  BY <1>1, <2>1 DEF CallsAreCurrent, HashesAreCurrent
<1>. QED  BY <1>1 DEF CallsAreCurrent, HashesAreCurrent

LEMMA SameCallIsCurrent ==
    ASSUME content' = content, NEW c, HashesAreCurrent(c)
    PROVE  HashesAreCurrent(c)'
  BY DEF HashesAreCurrent, Denote, IsObject

LEMMA UpdateStaysCurrent ==
    ASSUME FreshInv, Calling, NEW c \in Activation, HashesAreCurrent(c),
           calls' = Update(c), content' = content
    PROVE  CallsAreCurrent'
<1>1. calls \in Seq(Activation) /\ Len(calls) \in 1..Len(calls)
  BY CurrentFacts DEF FreshInv, SafetyInv, TypeInv, TypeOK
<1>2. /\ Len(calls') = Len(calls) /\ calls'[Len(calls)] = c
      /\ \A j \in 1..Len(calls) : j # Len(calls) => calls'[j] = calls[j]
  BY <1>1, UpdateFacts DEF Update
<1>3. ASSUME NEW i \in 1..Len(calls')
      PROVE  HashesAreCurrent(calls[i])'
  <2>1. calls'[i] = c \/ (calls'[i] = calls[i] /\ HashesAreCurrent(calls[i]))
    BY <1>2, <1>3 DEF FreshInv, CallsAreCurrent
  <2>2. \A d : HashesAreCurrent(d) => HashesAreCurrent(d)'
    BY SameCallIsCurrent
  <2>. QED  BY <2>1, <2>2
<1>. QED  BY <1>3 DEF CallsAreCurrent

LEMMA HashedIsCurrent ==
    ASSUME FreshInv, Calling, Len(Current.hashes) < Arity, Current.phase # "body",
           NextArg \in Obj \cup Prim, Hash(Denote(NextArg)) \in Nat
    PROVE  HashesAreCurrent(Hashed(Hash(Denote(NextArg))))
<1>. DEFINE c == Hashed(Hash(Denote(NextArg)))
<1>1. /\ c.args = Current.args /\ c.hashes[Param] = Hash(Denote(NextArg))
      /\ \A j \in 1..Len(c.hashes) : j # Param =>
           j \in 1..Len(Current.hashes) /\ c.hashes[j] = Current.hashes[j]
  BY HashedFacts DEF FreshInv, SafetyInv
<1>2. HashesAreCurrent(Current)
  <2>1. Len(calls) \in 1..Len(calls)
    BY CurrentFacts DEF FreshInv, SafetyInv
  <2>. QED  BY <2>1 DEF FreshInv, CallsAreCurrent, Current
<1>. HIDE DEF c
<1>3. HashesAreCurrent(c)
  BY <1>1, <1>2 DEF HashesAreCurrent, NextArg
<1>. QED  BY <1>3 DEF c

LEMMA PoppedStaysCurrent ==
    ASSUME FreshInv, Calling, content' = content, Len(stack) = Current.base,
           NEW r \in Value, calls' = Callers, stack' = Append(stack, r)
    PROVE  CallsAreCurrent'
<1>1. /\ Len(calls') = Len(calls) - 1 /\ Len(calls) \in Nat
      /\ \A i \in 1..Len(calls') : calls'[i] = calls[i]
  BY ReturnNests, CurrentFacts DEF FreshInv, SafetyInv
<1>2. ASSUME NEW i \in 1..Len(calls')
      PROVE  HashesAreCurrent(calls[i])'
  <2>1. calls'[i] = calls[i] /\ HashesAreCurrent(calls[i])
    BY <1>1, <1>2 DEF FreshInv, CallsAreCurrent
  <2>2. \A d : HashesAreCurrent(d) => HashesAreCurrent(d)'
    BY SameCallIsCurrent
  <2>. QED  BY <2>1, <2>2
<1>. QED  BY <1>2 DEF CallsAreCurrent

LEMMA CallStaysCurrent ==
    ASSUME FreshInv, CallPure
    PROVE  CallsAreCurrent'
<1>1. /\ Len(calls') = Len(calls) + 1 /\ calls'[Len(calls')].hashes = <<>>
      /\ \A i \in 1..Len(calls) : calls'[i] = calls[i]
      /\ Len(calls) \in Nat
  BY CallFacts DEF FreshInv, SafetyInv, TypeInv, TypeOK
<1>2. content' = content
  BY DEF CallPure
<1>3. ASSUME NEW i \in 1..Len(calls')
      PROVE  HashesAreCurrent(calls[i])'
  <2>1. CASE i = Len(calls')
    <3>1. Len(calls'[i].hashes) = 0
      BY <1>1, <2>1
    <3>. QED  BY <3>1 DEF HashesAreCurrent
  <2>2. CASE i \in 1..Len(calls)
    <3>1. calls'[i] = calls[i] /\ HashesAreCurrent(calls[i])
      BY <1>1, <2>2 DEF FreshInv, CallsAreCurrent
    <3>2. \A d : HashesAreCurrent(d) => HashesAreCurrent(d)'
      BY <1>2, SameCallIsCurrent
    <3>. QED  BY <3>1, <3>2
  <2>. QED  BY <1>1, <1>3, <2>1, <2>2
<1>. QED  BY <1>3 DEF CallsAreCurrent

(* The entry that a body leaves is made for what its arguments denote.     *)
LEMMA RememberedIsHonest ==
    ASSUME FreshInv, Calling, Current.phase = "body",
           Denoted(Current.locals) \in Result, Remember(Denoted(Current.locals))
    PROVE  EntriesAreHonest'
<1>. DEFINE d == [j \in 1..Arity |-> Denote(Current.args[j])]
            e == [args |-> Current.args, hashes |-> Current.hashes,
                  result |-> Denoted(Current.locals)]
<1>1. /\ Arity \in Nat /\ DOMAIN Current.locals = 1..Arity /\ Len(Current.hashes) = Arity
      /\ \A i \in 1..Arity : /\ Arity - i + 1 \in 1..Arity
                             /\ Current.locals[i] = Current.args[Arity - i + 1]
                             /\ Current.args[i] \in Obj \cup Prim
  <2>. HIDE DEF d, e
  <2>1. TypeInv
    BY DEF FreshInv, SafetyInv
  <2>2. /\ Current.locals \in Seq(Value) /\ Len(Current.locals) = Arity
        /\ Arity \in Nat /\ Len(Current.hashes) = Arity
        /\ \A i \in 1..Arity : /\ Arity - i + 1 \in 1..Arity
                               /\ Current.locals[i] = Current.args[Arity - i + 1]
                               /\ Current.args[i] \in Obj \cup Prim
    BY <2>1, BodyFacts
  <2>. QED  BY <2>2
<1>2. Denoted(Current.locals) = [i \in 1..Arity |-> Denote(Current.args[Arity - i + 1])]
  BY <1>1 DEF Denoted
<1>3. Denoted(Current.locals) = [i \in 1..Arity |-> d[Arity - i + 1]]
  BY <1>1, <1>2
<1>4. ASSUME NEW j \in 1..Arity
      PROVE  /\ d[j] \in Prim \cup Content
             /\ Current.args[j] \in Prim => d[j] = Current.args[j]
             /\ Current.args[j] \in Obj =>
                  d[j] \in Content /\ Current.hashes[j] = Hash(d[j])
  <2>1. d[j] = Denote(Current.args[j]) /\ Current.args[j] \in Obj \cup Prim
    BY <1>1, <1>4
  <2>2. CASE Current.args[j] \in Prim
    BY <2>1, <2>2, ValueAssumption DEF Denote, IsObject
  <2>3. CASE Current.args[j] \in Obj
    <3>1. Len(calls) \in 1..Len(calls) /\ j \in 1..Len(calls[Len(calls)].hashes)
      BY <1>1, <1>4, CurrentFacts DEF FreshInv, SafetyInv, Current
    <3>2. content[Current.args[j]] # Free
      BY <2>3, <3>1, HashedObject DEF FreshInv, Current
    <3>3. d[j] = content[Current.args[j]]
      BY <2>1, <2>3 DEF Denote, IsObject
    <3>4. d[j] \in Content
      BY <2>3, <3>2, <3>3 DEF FreshInv, SafetyInv, TypeInv, TypeOK
    <3>5. HashesAreCurrent(Current)
      BY <3>1 DEF FreshInv, CallsAreCurrent, Current
    <3>6. Current.hashes[j] = Hash(d[j])
      BY <2>1, <3>1, <3>5 DEF HashesAreCurrent, Current
    <3>. QED  BY <2>3, <3>4, <3>6, ValueAssumption
  <2>. QED  BY <2>1, <2>2, <2>3
<1>5. d \in [1..Arity -> Prim \cup Content]
  BY <1>4
<1>6. MadeFor(e, d)
  <2>1. e.result = [i \in 1..Arity |-> d[Arity - i + 1]]
    BY <1>3
  <2>2. e.args = Current.args /\ e.hashes = Current.hashes
    OBVIOUS
  <2>. HIDE DEF d, e
  <2>. QED  BY <1>1, <1>4, <2>1, <2>2 DEF MadeFor
<1>7. cache' \subseteq cache \cup {e}
  BY DEF Remember
<1>. HIDE DEF d, e
<1>8. ASSUME NEW entry \in cache'
      PROVE  \E x \in [1..Arity -> Prim \cup Content] : MadeFor(entry, x)
  BY <1>5, <1>6, <1>7, <1>8 DEF FreshInv, EntriesAreHonest
<1>. QED  BY <1>8 DEF EntriesAreHonest

LEMMA WorkStaysFresh ==
    ASSUME FreshInv, SafetyInv', CallsAreCurrent', cache' = cache
    PROVE  FreshInv'
  BY DEF FreshInv, EntriesAreHonest

LEMMA QuietStepStaysFresh ==
    ASSUME FreshInv, SafetyInv', UNCHANGED <<content, calls, cache>>
    PROVE  FreshInv'
<1>1. CallsAreCurrent'
  BY StayCurrent DEF FreshInv
<1>. QED  BY <1>1, WorkStaysFresh

LEMMA NewStaysFresh ==
    ASSUME FreshInv, SafetyInv', NEW o \in Obj, NEW c \in Content, New(o, c)
    PROVE  FreshInv'
<1>1. /\ content[o] = Free /\ content' = [content EXCEPT ![o] = c]
      /\ UNCHANGED <<calls, cache>> /\ SafetyInv /\ CallsAreCurrent
      /\ content \in [Obj -> Content \cup {Free}]
  BY DEF New, FreshInv, SafetyInv, TypeInv, TypeOK
<1>2. ASSUME NEW i \in 1..Len(calls), NEW j \in 1..Len(calls[i].hashes),
             calls[i].args[j] \in Obj
      PROVE  content'[calls[i].args[j]] = content[calls[i].args[j]]
  <2>1. content[calls[i].args[j]] # Free
    BY <1>1, <1>2, HashedObject
  <2>. QED  BY <1>1, <1>2, <2>1
<1>3. CallsAreCurrent'
  BY <1>1, <1>2, StayCurrent
<1>. QED  BY <1>1, <1>3, WorkStaysFresh

LEMMA TouchStaysFresh ==
    ASSUME FreshInv, SafetyInv', NEW c \in Content, Touch(c)
    PROVE  FreshInv'
<1>1. UNCHANGED <<calls, cache>> /\ calls = <<>>
  BY DEF Touch, Calling
<1>2. Len(calls) = 0
  BY <1>1
<1>3. CallsAreCurrent'
  BY <1>1, <1>2 DEF CallsAreCurrent
<1>. QED  BY <1>1, <1>3, WorkStaysFresh

LEMMA CollectStaysFresh ==
    ASSUME FreshInv, SafetyInv', Collect
    PROVE  FreshInv'
<1>1. /\ UNCHANGED <<calls, cache>> /\ SafetyInv /\ CallsAreCurrent /\ TypeInv
      /\ \A o \in Obj : o \in Roots => content'[o] = content[o]
  BY DEF Collect, FreshInv, SafetyInv
<1>2. ASSUME NEW i \in 1..Len(calls), NEW j \in 1..Len(calls[i].hashes),
             calls[i].args[j] \in Obj
      PROVE  content'[calls[i].args[j]] = content[calls[i].args[j]]
  <2>1. calls[i].phase # "hash"
    BY <1>1, <1>2, NobodyLooksAtCollection
  <2>2. calls[i].args[j] \in Roots
    BY <1>1, <1>2, <2>1, HashedObject
  <2>. QED  BY <1>1, <1>2, <2>2
<1>3. CallsAreCurrent'
  BY <1>1, <1>2, StayCurrent
<1>. QED  BY <1>1, <1>3, WorkStaysFresh

LEMMA HashStaysFresh ==
    ASSUME FreshInv, SafetyInv', HashPrimitive \/ FinishHash
    PROVE  FreshInv'
<1>. DEFINE c == Hashed(Hash(Denote(NextArg)))
<1>1. TypeInv /\ UNCHANGED <<content, cache>> /\ mode' # "undefined"
  BY DEF FreshInv, SafetyInv, NoUseAfterFree, HashPrimitive, FinishHash
<1>2. CASE HashPrimitive
  <2>1. /\ Calling /\ Len(Current.hashes) < Arity /\ Current.phase # "body"
        /\ NextArg \in Obj \cup Prim /\ Hash(Denote(NextArg)) \in Nat
        /\ calls' = Update(c)
    BY <1>1, <1>2, HashPrimitiveFacts
  <2>2. HashesAreCurrent(c) /\ c \in Activation
    BY <1>1, <2>1, HashedIsCurrent, HashedFacts
  <2>. HIDE DEF c
  <2>3. CallsAreCurrent'
    BY <1>1, <2>1, <2>2, UpdateStaysCurrent
  <2>. QED  BY <1>1, <2>3, WorkStaysFresh
<1>3. CASE FinishHash
  <2>1. /\ Calling /\ Len(Current.hashes) < Arity /\ Current.phase # "body"
        /\ NextArg \in Obj \cup Prim /\ Hash(Denote(NextArg)) \in Nat
        /\ calls' = Update(c)
    BY <1>1, <1>3, FinishFacts
  <2>2. HashesAreCurrent(c) /\ c \in Activation
    BY <1>1, <2>1, HashedIsCurrent, HashedFacts
  <2>. HIDE DEF c
  <2>3. CallsAreCurrent'
    BY <1>1, <2>1, <2>2, UpdateStaysCurrent
  <2>. QED  BY <1>1, <2>3, WorkStaysFresh
<1>. QED  BY <1>2, <1>3

LEMMA BeginStaysFresh ==
    ASSUME FreshInv, SafetyInv', BeginHash
    PROVE  FreshInv'
<1>. DEFINE c == [Current EXCEPT !.phase = "hashing", !.locals = <<NextArg>>]
<1>1. TypeInv /\ UNCHANGED <<content, cache>> /\ mode' # "undefined" /\ CallsAreCurrent
  BY DEF FreshInv, SafetyInv, NoUseAfterFree, BeginHash
<1>2. /\ Calling /\ calls' = Update(c) /\ c \in Activation
      /\ c.args = Current.args /\ c.hashes = Current.hashes
  BY <1>1, BeginFacts
<1>. HIDE DEF c
<1>3. Len(calls) \in 1..Len(calls)
  BY <1>1, <1>2, CurrentFacts
<1>4. HashesAreCurrent(c)
  BY <1>1, <1>2, <1>3 DEF CallsAreCurrent, Current, HashesAreCurrent
<1>5. CallsAreCurrent'
  BY <1>1, <1>2, <1>4, UpdateStaysCurrent
<1>. QED  BY <1>1, <1>5, WorkStaysFresh

LEMMA MissStaysFresh ==
    ASSUME FreshInv, SafetyInv', Miss
    PROVE  FreshInv'
<1>. DEFINE c == [Current EXCEPT !.phase = "body", !.locals = Reversed(Current.args)]
<1>1. TypeInv /\ UNCHANGED <<content, cache>> /\ CallsAreCurrent
  BY DEF FreshInv, SafetyInv, Miss
<1>2. /\ Calling /\ calls' = Update(c) /\ c \in Activation
      /\ c.args = Current.args /\ c.hashes = Current.hashes
  BY <1>1, MissFacts
<1>. HIDE DEF c
<1>3. Len(calls) \in 1..Len(calls)
  BY <1>1, <1>2, CurrentFacts
<1>4. HashesAreCurrent(c)
  BY <1>1, <1>2, <1>3 DEF CallsAreCurrent, Current, HashesAreCurrent
<1>5. CallsAreCurrent'
  BY <1>1, <1>2, <1>4, UpdateStaysCurrent
<1>. QED  BY <1>1, <1>5, WorkStaysFresh

LEMMA HitStaysFresh ==
    ASSUME FreshInv, SafetyInv', NEW entry \in cache, Hit(entry)
    PROVE  FreshInv'
<1>1. /\ Calling /\ Len(stack) = Current.base /\ entry.result \in Value
      /\ calls' = Callers /\ stack' = Append(stack, entry.result)
      /\ UNCHANGED <<content, cache>>
  BY DEF Hit, Looking, FreshInv, SafetyInv, TypeInv, TypeOK, Nesting
<1>2. CallsAreCurrent'
  BY <1>1, PoppedStaysCurrent
<1>. QED  BY <1>1, <1>2, WorkStaysFresh

LEMMA BodyReturnStaysFresh ==
    ASSUME FreshInv, SafetyInv', BodyReturns, ~ReturnsObject
    PROVE  FreshInv'
<1>1. /\ TypeInv /\ Calling /\ Current.phase = "body" /\ Len(stack) = Current.base
      /\ mode' # "undefined"
  BY ReturnFacts DEF FreshInv, SafetyInv, NoUseAfterFree
<1>2. PICK r \in Value :
        /\ calls' = Callers /\ Remember(r) /\ stack' = Append(stack, r)
        /\ content' = content /\ r = Denoted(Current.locals) /\ r \in Result
  BY <1>1, ReturnFacts
<1>3. CallsAreCurrent'
  BY <1>1, <1>2, PoppedStaysCurrent
<1>4. EntriesAreHonest'
  BY <1>1, <1>2, RememberedIsHonest
<1>. QED  BY <1>3, <1>4 DEF FreshInv

LEMMA StepStaysFresh ==
    ASSUME FreshInv, [Next]_vars, ~ReturnsObject, ObjectParams \subseteq {Arity}
    PROVE  FreshInv'
<1>. SafetyInv'
  BY StepIsSafe DEF FreshInv
<1>1. ASSUME NEW o \in Obj, Forget(o) PROVE FreshInv'
  BY <1>1, QuietStepStaysFresh DEF Forget
<1>2. ASSUME NEW o \in Obj, NEW c \in Content, New(o, c) PROVE FreshInv'
  BY <1>2, NewStaysFresh
<1>3. ASSUME NEW c \in Content, Touch(c) PROVE FreshInv'
  BY <1>3, TouchStaysFresh
<1>4. ASSUME NEW v \in Obj \cup Prim, Load(v) PROVE FreshInv'
  BY <1>4, QuietStepStaysFresh DEF Load
<1>5. CASE Keep \/ Discard \/ Fails
  BY <1>5, QuietStepStaysFresh DEF Keep, Discard, Fails
<1>6. CASE CallPure
  <2>1. cache' = cache /\ CallsAreCurrent'
    BY <1>6, CallStaysCurrent DEF CallPure
  <2>. QED  BY <2>1, WorkStaysFresh
<1>7. CASE Collect \/ HashPrimitive \/ BeginHash \/ FinishHash
  BY <1>7, CollectStaysFresh, HashStaysFresh, BeginStaysFresh
<1>8. ASSUME NEW entry \in cache, Hit(entry) PROVE FreshInv'
  BY <1>8, HitStaysFresh
<1>9. CASE Miss \/ BodyReturns
  BY <1>9, MissStaysFresh, BodyReturnStaysFresh
<1>10. CASE UNCHANGED vars
  BY <1>10, QuietStepStaysFresh DEF vars
<1>. QED  BY <1>1, <1>2, <1>3, <1>4, <1>5, <1>6, <1>7, <1>8, <1>9, <1>10 DEF Next

(* An entry that is found was made for what the arguments denote now.      *)
LEMMA FoundIsFresh ==
    ASSUME FreshInv, HashIsPerfect, Looking, NEW entry \in Found(Current)
    PROVE  entry.result = Denoted(Reversed(Current.args))
<1>1. /\ TypeInv /\ SafetyInv /\ Calling /\ Current.phase = "hash"
      /\ Len(Current.hashes) = Arity /\ entry \in cache
      /\ entry.args = Current.args /\ entry.hashes = Current.hashes
  BY DEF FreshInv, SafetyInv, Looking, Found, KeyIs, HashIs
<1>2. PICK d \in [1..Arity -> Prim \cup Content] : MadeFor(entry, d)
  BY <1>1 DEF FreshInv, EntriesAreHonest
<1>3. /\ Len(calls) \in 1..Len(calls) /\ CallIsSafe(Current)
      /\ Current.args \in Seq(Value) /\ Len(Current.args) = Arity
  BY <1>1, CurrentFacts, CurrentIsSafe DEF Activation, WellFormed
<1>4. HashesAreCurrent(Current)
  BY <1>3 DEF FreshInv, CallsAreCurrent, Current
<1>5. ASSUME NEW j \in 1..Arity
      PROVE  Denote(Current.args[j]) = d[j]
  <2>. DEFINE v == Current.args[j]
  <2>1. /\ v \in Obj \cup Prim /\ (v \in Prim => d[j] = v)
        /\ (v \in Obj => d[j] \in Content /\ Current.hashes[j] = Hash(d[j]))
    BY <1>1, <1>2, <1>5 DEF MadeFor
  <2>2. Current.hashes[j] = Hash(Denote(v))
    BY <1>1, <1>4, <1>5 DEF HashesAreCurrent
  <2>3. CASE v \in Prim
    BY <2>1, <2>3, ValueAssumption DEF Denote, IsObject
  <2>4. CASE v \in Obj
    <3>1. content[v] # Free
      BY <1>1, <1>3, <1>5, <2>4 DEF CallIsSafe, Live
    <3>2. Denote(v) = content[v] /\ content[v] \in Content
      BY <1>1, <2>4, <3>1 DEF Denote, IsObject, TypeInv, TypeOK
    <3>. QED  BY <2>1, <2>2, <2>4, <3>2 DEF HashIsPerfect
  <2>. QED  BY <2>1, <2>3, <2>4
<1>6. /\ Reversed(Current.args) \in Seq(Value) /\ Len(Reversed(Current.args)) = Arity
      /\ \A i \in 1..Arity : /\ Reversed(Current.args)[i] = Current.args[Arity - i + 1]
                             /\ Arity - i + 1 \in 1..Arity
  BY <1>3, ReversedFacts
<1>7. Denoted(Reversed(Current.args)) =
        [i \in 1..Arity |-> Denote(Reversed(Current.args)[i])]
  BY <1>6 DEF Denoted
<1>8. \A i \in 1..Arity : Denote(Reversed(Current.args)[i]) = d[Arity - i + 1]
  BY <1>5, <1>6
<1>9. Denoted(Reversed(Current.args)) = [i \in 1..Arity |-> d[Arity - i + 1]]
  BY <1>7, <1>8
<1>. QED  BY <1>2, <1>9 DEF MadeFor

(* Whatever the map may return now is what the body would compute now, for *)
(* every such function whose class has a perfect hash: the objects that    *)
(* the entry was made for may have changed, died and left their addresses  *)
(* to others.  With two contents of the same hash an address that was      *)
(* given to another object finds the entry of the first one.               *)
THEOREM HitsAreFresh ==
    ~ReturnsObject /\ ObjectParams \subseteq {Arity} /\ HashIsPerfect
        => (Spec => []HitIsFresh)
<1>. SUFFICES ASSUME ~ReturnsObject, ObjectParams \subseteq {Arity}, HashIsPerfect
              PROVE  Spec => []HitIsFresh
  OBVIOUS
<1>1. Init => FreshInv
  <2>. SUFFICES ASSUME Init PROVE FreshInv
    OBVIOUS
  <2>1. SafetyInv /\ Len(calls) = 0 /\ cache = {}
    BY InitIsSafe DEF Init
  <2>. QED  BY <2>1 DEF FreshInv, CallsAreCurrent, EntriesAreHonest
<1>2. FreshInv /\ [Next]_vars => FreshInv'
  BY StepStaysFresh
<1>3. FreshInv => HitIsFresh
  BY FoundIsFresh DEF HitIsFresh
<1>. QED  BY <1>1, <1>2, <1>3, PTL DEF Spec
=============================================================================
