-------------------------- MODULE ExecutionTreeProofs --------------------------
(***************************************************************************)
(* Theorems about ExecutionTree, for every program and any depth of calls: *)
(* every signal is consumed by the construct it is for, and frames are     *)
(* popped however functions end, unless an exception ends them.            *)
(***************************************************************************)
EXTENDS ExecutionTree, FiniteSetTheorems, TLAPS

Composite == {"function", "block", "if", "while"}

Node == [node : DOMAIN program, next : Nat]

(* How far an entry may be: a block has executed all of its statements.    *)
Reach(n) == Len(Kids(n)) + IF Kind(n) = "block" THEN 1 ELSE 0

Valid(e) == Kind(e.node) \in Composite /\ e.next \in 1..Reach(e.node)

(* The child that an entry is executing, or has just executed.             *)
Child(e) == Kids(e.node)[IF Kind(e.node) = "block" THEN e.next - 1 ELSE e.next]

(* Entry f is for what entry e is executing.                               *)
OnTop(e, f) ==
    /\ Kind(e.node) = "block" => e.next > 1
    /\ \/ f.node = Child(e)
       \/ Kind(Child(e)) = "call" /\ f.node = 1

Stack(s) ==
    /\ s \in Seq(Node)
    /\ \A i \in 1..Len(s) : Valid(s[i])
    /\ Len(s) > 0 => s[1].node = 1
    /\ \A i \in 1..(Len(s) - 1) : OnTop(s[i], s[i + 1])

Functions(s) == {i \in 1..Len(s) : Kind(s[i].node) = "function"}

Event == [node : DOMAIN program, outcome : Signals \cup {"call", "true"},
          callers : Seq(DOMAIN program)]

TypeInv ==
    /\ program \in Programs
    /\ Stack(control)
    /\ frames \in Seq(DOMAIN program)
    /\ Len(frames) = Cardinality(Functions(control))
    /\ result \in Signals \cup {"run"}
    /\ result = "run" => Active("block")
    /\ last \in Event

(* Where an exception leads to.                                            *)
Thrown ==
    /\ control = <<>> /\ result = "exception"
    /\ frames \in Seq(DOMAIN program) /\ Len(frames) = 1 + Len(last.callers)
    /\ last \in [node : DOMAIN program, outcome : {"exception"}, callers : Seq(DOMAIN program)]

(* Break and Continue are in loops, and the nodes that are.                *)
WellPlaced == \A p \in Programs : \E nodes \in SUBSET DOMAIN p : InLoops(p, nodes)

NodesInLoops(p) == CHOOSE nodes \in SUBSET DOMAIN p : InLoops(p, nodes)

Looped == NodesInLoops(program)

(* Entry i of a stack is for a node in the body that a loop further down   *)
(* is executing, in the same function.                                     *)
InBody(s, i) ==
    \E j \in 1..(i - 1) :
        /\ Kind(s[j].node) = "while" /\ s[j].next = 2
        /\ \A k \in (j + 1)..i : Kind(s[k].node) # "function"

Surrounded(s) == \A i \in 1..Len(s) : s[i].node \in Looped => InBody(s, i)

(* The entry's child was left by a Break or a Continue.                    *)
Passing(e) == (Kind(e.node) = "block" => e.next > 1) /\ Child(e) \in Looped

SignalInv ==
    /\ TypeInv
    /\ Surrounded(control)
    /\ result = "false" => Active("if")
    /\ result \in {"break", "continue"} => control # <<>> /\ Passing(Top)
    /\ result = "return" => control # <<>>
-----------------------------------------------------------------------------
(* The program.                                                            *)

LEMMA ElementFacts ==
    ASSUME NEW S, NEW s \in Seq(S), NEW i \in 1..Len(s)
    PROVE  s[i] \in S
  OBVIOUS

LEMMA ProgramFacts ==
    ASSUME program \in Programs
    PROVE  /\ DOMAIN program = 1..Len(program) /\ 1 \in DOMAIN program
           /\ Len(program) \in Nat
           /\ \A n \in DOMAIN program :
                /\ Kind(n) \in Kinds /\ Kids(n) \in Seq(Nat)
                /\ Len(Kids(n)) \in Nat /\ DOMAIN Kids(n) = 1..Len(Kids(n))
                /\ Kind(n) = "function" <=> n = 1
<1>1. Tree(program)
  BY ProgramAssumption
<1>2. program \in Seq([kind : Kinds, kids : Seq(Nat)]) /\ program # <<>>
  BY <1>1 DEF Tree
<1>3. \A n \in DOMAIN program : Kind(n) = "function" <=> n = 1
  BY <1>1 DEF Tree, Kind
<1>4. /\ DOMAIN program = 1..Len(program) /\ 1 \in DOMAIN program
      /\ Len(program) \in Nat
  BY <1>2
<1>5. ASSUME NEW n \in DOMAIN program
      PROVE  /\ Kind(n) \in Kinds /\ Kids(n) \in Seq(Nat)
             /\ Len(Kids(n)) \in Nat /\ DOMAIN Kids(n) = 1..Len(Kids(n))
  <2>1. program[n] \in [kind : Kinds, kids : Seq(Nat)]
    BY <1>2, <1>4, <1>5, ElementFacts
  <2>. QED  BY <2>1 DEF Kind, Kids
<1>. QED  BY <1>3, <1>4, <1>5

LEMMA KidFacts ==
    ASSUME program \in Programs, NEW n \in DOMAIN program, NEW i \in 1..Len(Kids(n))
    PROVE  LET k == Kids(n)[i] IN
           /\ k \in DOMAIN program
           /\ Kind(n) \in {"function", "if", "while"} => Kind(k) = "block"
           /\ Kind(n) = "block" => Kind(k) \in Kinds \ {"function", "block"}
<1>1. Tree(program)
  BY ProgramAssumption
<1>2. i \in DOMAIN program[n].kids
  BY ProgramFacts DEF Kids
<1>. QED  BY <1>1, <1>2 DEF Tree, Kids, Kind

LEMMA PartFacts ==
    ASSUME program \in Programs, NEW n \in DOMAIN program
    PROVE  /\ Kind(n) = "function" => Len(Kids(n)) = 1
           /\ Kind(n) = "while" => Len(Kids(n)) = 2
           /\ Kind(n) = "if" => Len(Kids(n)) >= 2
<1>1. Tree(program)
  BY ProgramAssumption
<1>. QED  BY <1>1 DEF Tree, Kids, Kind
-----------------------------------------------------------------------------
(* The call stack.                                                         *)

LEMMA PrefixFacts ==
    ASSUME NEW S, NEW s \in Seq(S), NEW n \in Nat, n <= Len(s)
    PROVE  /\ SubSeq(s, 1, n) \in Seq(S)
           /\ Len(SubSeq(s, 1, n)) = n
           /\ \A i \in 1..n : SubSeq(s, 1, n)[i] = s[i]
  OBVIOUS

(* The entry on top goes on to another child.                              *)
Moved(k) == [control EXCEPT ![Len(control)].next = k]

LEMMA TopFacts ==
    ASSUME Stack(control), control # <<>>
    PROVE  /\ Len(control) \in Nat /\ Len(control) \in 1..Len(control)
           /\ Top \in Node /\ Valid(Top) /\ Top = Entry(Top.node, Top.next)
           /\ Top.node \in DOMAIN program /\ Top.next \in Nat
           /\ Len(control) = 1 => Top.node = 1
<1>1. control \in Seq(Node)
  BY DEF Stack
<1>2. Len(control) \in Nat /\ Len(control) \in 1..Len(control)
  BY <1>1
<1>3. Top \in Node /\ Valid(Top)
  BY <1>1, <1>2 DEF Top, Stack
<1>4. Top = Entry(Top.node, Top.next) /\ Top.node \in DOMAIN program /\ Top.next \in Nat
  BY <1>3 DEF Node, Entry
<1>5. Len(control) = 1 => Top.node = 1
  BY <1>2 DEF Stack, Top
<1>. QED  BY <1>2, <1>3, <1>4, <1>5

LEMMA PopFacts ==
    ASSUME Stack(control), control # <<>>
    PROVE  /\ Stack(Below)
           /\ Len(Below) = Len(control) - 1
           /\ \A i \in 1..Len(Below) : Below[i] = control[i]
           /\ Functions(Below) = Functions(control) \ {Len(control)}
<1>1. control \in Seq(Node) /\ Len(control) \in Nat /\ Len(control) >= 1
  BY TopFacts DEF Stack
<1>2. /\ Below \in Seq(Node) /\ Len(Below) = Len(control) - 1
      /\ \A i \in 1..Len(Below) : Below[i] = control[i]
  <2>1. Len(control) - 1 \in Nat /\ Len(control) - 1 <= Len(control)
    BY <1>1
  <2>. QED  BY <1>1, <2>1, PrefixFacts DEF Below
<1>3. \A i \in 1..Len(Below) : Valid(Below[i])
  BY <1>1, <1>2 DEF Stack
<1>4. \A i \in 1..(Len(Below) - 1) : OnTop(Below[i], Below[i + 1])
  BY <1>1, <1>2 DEF Stack
<1>5. Len(Below) > 0 => Below[1].node = 1
  BY <1>1, <1>2 DEF Stack
<1>6. Functions(Below) = Functions(control) \ {Len(control)}
  BY <1>1, <1>2 DEF Functions
<1>. QED  BY <1>2, <1>3, <1>4, <1>5, <1>6 DEF Stack

LEMMA MoveFacts ==
    ASSUME Stack(control), control # <<>>, NEW k \in 1..Reach(Top.node), k \in Nat
    PROVE  /\ Stack(Moved(k))
           /\ Len(Moved(k)) = Len(control)
           /\ Moved(k)[Len(control)] = Entry(Top.node, k)
           /\ \A i \in 1..Len(control) : i # Len(control) => Moved(k)[i] = control[i]
           /\ Functions(Moved(k)) = Functions(control)
<1>. DEFINE t == Moved(k)
<1>1. control \in Seq(Node) /\ Len(control) \in Nat /\ Len(control) \in 1..Len(control)
  BY TopFacts DEF Stack
<1>2. /\ Top = control[Len(control)] /\ Top \in Node /\ Valid(Top)
  BY TopFacts DEF Top
<1>3. /\ t \in Seq(Node) /\ Len(t) = Len(control)
      /\ t[Len(control)] = Entry(Top.node, k)
      /\ \A i \in 1..Len(control) : i # Len(control) => t[i] = control[i]
  BY <1>1, <1>2 DEF Moved, Node, Entry
<1>. HIDE DEF t
<1>4. \A i \in 1..Len(control) : t[i].node = control[i].node
  BY <1>1, <1>2, <1>3 DEF Entry
<1>5. \A i \in 1..Len(t) : Valid(t[i])
  <2>1. Valid(Entry(Top.node, k))
    BY <1>2 DEF Valid, Entry
  <2>. QED  BY <1>1, <1>3, <2>1 DEF Stack
<1>6. Len(t) > 0 => t[1].node = 1
  BY <1>1, <1>3, <1>4 DEF Stack
<1>7. ASSUME NEW i \in 1..(Len(t) - 1)
      PROVE  OnTop(t[i], t[i + 1])
  <2>1. i \in 1..(Len(control) - 1) /\ t[i] = control[i] /\ t[i + 1].node = control[i + 1].node
    BY <1>1, <1>3, <1>4, <1>7
  <2>. QED  BY <2>1 DEF Stack, OnTop
<1>8. Functions(t) = Functions(control)
  BY <1>3, <1>4 DEF Functions
<1>. QED  BY <1>3, <1>5, <1>6, <1>7, <1>8 DEF Stack, t

LEMMA PushFacts ==
    ASSUME NEW s, Stack(s), Len(s) > 0, NEW f \in Node, Valid(f), OnTop(s[Len(s)], f)
    PROVE  /\ Stack(Append(s, f))
           /\ Len(Append(s, f)) = Len(s) + 1
           /\ Append(s, f)[Len(s) + 1] = f
           /\ \A i \in 1..Len(s) : Append(s, f)[i] = s[i]
           /\ Functions(Append(s, f)) =
                Functions(s) \cup (IF Kind(f.node) = "function" THEN {Len(s) + 1} ELSE {})
<1>. DEFINE t == Append(s, f)
<1>1. s \in Seq(Node) /\ Len(s) \in Nat /\ Len(s) \in 1..Len(s)
  BY DEF Stack
<1>2. /\ t \in Seq(Node) /\ Len(t) = Len(s) + 1 /\ t[Len(s) + 1] = f
      /\ \A i \in 1..Len(s) : t[i] = s[i]
  BY <1>1
<1>. HIDE DEF t
<1>3. \A i \in 1..Len(t) : i = Len(s) + 1 \/ i \in 1..Len(s)
  BY <1>1, <1>2
<1>4. \A i \in 1..Len(t) : Valid(t[i])
  BY <1>2, <1>3 DEF Stack
<1>5. t[1].node = 1
  BY <1>1, <1>2 DEF Stack
<1>6. ASSUME NEW i \in 1..(Len(t) - 1)
      PROVE  OnTop(t[i], t[i + 1])
  <2>1. CASE i = Len(s)
    BY <1>1, <1>2, <2>1
  <2>2. CASE i # Len(s)
    <3>1. i \in 1..(Len(s) - 1) /\ t[i] = s[i] /\ t[i + 1] = s[i + 1]
      BY <1>1, <1>2, <1>6, <2>2
    <3>. QED  BY <3>1 DEF Stack
  <2>. QED  BY <2>1, <2>2
<1>7. Functions(t) = Functions(s) \cup (IF Kind(f.node) = "function" THEN {Len(s) + 1} ELSE {})
  BY <1>1, <1>2 DEF Functions
<1>. QED  BY <1>2, <1>4, <1>5, <1>6, <1>7 DEF Stack, t

LEMMA ConcatFacts ==
    ASSUME NEW S, NEW s \in Seq(S), NEW f \in S, NEW g \in S
    PROVE  s \o <<f>> = Append(s, f) /\ s \o <<f, g>> = Append(Append(s, f), g)
  OBVIOUS

(* A statement is entered, or a call: the entry of the construct and that  *)
(* of its first block.                                                     *)
LEMMA EnterFacts ==
    ASSUME NEW s, Stack(s), Len(s) > 0,
           NEW f \in Node, Valid(f), OnTop(s[Len(s)], f),
           NEW g \in Node, Valid(g), OnTop(f, g), Kind(g.node) = "block"
    PROVE  LET t == s \o <<f, g>> IN
           /\ Stack(t)
           /\ Len(t) = Len(s) + 2 /\ t[Len(s) + 1] = f /\ t[Len(s) + 2] = g
           /\ \A i \in 1..Len(s) : t[i] = s[i]
           /\ Functions(t) =
                Functions(s) \cup (IF Kind(f.node) = "function" THEN {Len(s) + 1} ELSE {})
<1>. DEFINE u == Append(s, f)
            t == Append(u, g)
<1>1. s \in Seq(Node) /\ Len(s) \in Nat
  BY DEF Stack
<1>2. /\ Stack(u) /\ Len(u) = Len(s) + 1 /\ u[Len(s) + 1] = f
      /\ \A i \in 1..Len(s) : u[i] = s[i]
      /\ Functions(u) =
           Functions(s) \cup (IF Kind(f.node) = "function" THEN {Len(s) + 1} ELSE {})
  BY PushFacts
<1>. HIDE DEF u
<1>3. Len(u) > 0 /\ OnTop(u[Len(u)], g)
  BY <1>1, <1>2
<1>4. /\ Stack(t) /\ Len(t) = Len(u) + 1 /\ t[Len(u) + 1] = g
      /\ \A i \in 1..Len(u) : t[i] = u[i]
      /\ Functions(t) = Functions(u)
  BY <1>2, <1>3, PushFacts
<1>. HIDE DEF t
<1>5. /\ Len(t) = Len(s) + 2 /\ t[Len(s) + 1] = f /\ t[Len(s) + 2] = g
      /\ \A i \in 1..Len(s) : t[i] = s[i]
  BY <1>1, <1>2, <1>4
<1>6. s \o <<f, g>> = t
  BY <1>1, ConcatFacts DEF t, u
<1>. QED  BY <1>2, <1>4, <1>5, <1>6

LEMMA FunctionsAreFinite ==
    ASSUME NEW s, Stack(s)
    PROVE  IsFiniteSet(Functions(s)) /\ Cardinality(Functions(s)) \in Nat
<1>1. Len(s) \in Nat
  BY DEF Stack
<1>2. IsFiniteSet(1..Len(s))
  BY <1>1, FS_Interval
<1>3. Functions(s) \subseteq 1..Len(s)
  BY DEF Functions
<1>4. IsFiniteSet(Functions(s))
  BY <1>2, <1>3, FS_Subset
<1>. QED  BY <1>4, FS_CardinalityType
-----------------------------------------------------------------------------
(* The shapes that steps have.                                             *)

LEMMA StepFacts ==
    ASSUME TypeInv, program' = program, NEW t, Stack(t), control' = t,
           frames' \in Seq(DOMAIN program), Len(frames') = Cardinality(Functions(t)),
           result' \in Signals \cup {"run"}, last' \in Event,
           result' = "run" => Len(t) > 0 /\ Kind(t[Len(t)].node) = "block"
    PROVE  TypeInv'
<1>1. Stack(control)'
  BY DEF Stack, Node, Valid, Reach, OnTop, Child, Kind, Kids
<1>2. Functions(control)' = Functions(t)
  BY DEF Functions, Kind
<1>3. result' = "run" => Active("block")'
  BY DEF Active, Top, Kind
<1>4. last' \in Event'
  BY DEF Event
<1>. QED  BY <1>1, <1>2, <1>3, <1>4 DEF TypeInv

LEMMA ObserveFacts ==
    ASSUME TypeInv, NEW n \in DOMAIN program, NEW o \in Signals \cup {"call", "true"},
           Observe(n, o)
    PROVE  last' \in Event
<1>1. frames \in Seq(DOMAIN program) /\ Len(frames) \in Nat
  BY DEF TypeInv
<1>2. Callers \in Seq(DOMAIN program)
  BY <1>1 DEF Callers
<1>. QED  BY <1>2 DEF Observe, Event

(* An entry that is not a function's is popped.                            *)
LEMMA PopKeepsType ==
    ASSUME TypeInv, control # <<>>, Kind(Top.node) # "function",
           UNCHANGED <<program, frames>>, control' = Below,
           result' \in Signals, last' \in Event, "run" \notin Signals
    PROVE  TypeInv'
<1>1. Stack(control)
  BY DEF TypeInv
<1>2. Len(control) \notin Functions(control)
  BY DEF Functions, Top
<1>3. Stack(Below) /\ Functions(Below) = Functions(control)
  BY <1>1, <1>2, PopFacts
<1>. QED  BY <1>3, StepFacts DEF TypeInv

LEMMA NoSignal == "run" \notin Signals
  BY DEF Signals

(* The top entry moves on and the block that it moves to is entered.       *)
LEMMA BranchKeepsType ==
    ASSUME TypeInv, control # <<>>, Kind(Top.node) \in {"if", "while"},
           NEW k \in 1..Len(Kids(Top.node)),
           control' = Append(Moved(k), Entry(Kids(Top.node)[k], 1)),
           UNCHANGED <<program, frames>>, result' = "run", last' \in Event
    PROVE  TypeInv'
<1>. DEFINE f == Entry(Kids(Top.node)[k], 1)
            t == Append(Moved(k), f)
<1>1. Stack(control) /\ program \in Programs
  BY DEF TypeInv
<1>2. Top.node \in DOMAIN program /\ Len(control) \in Nat /\ Len(control) >= 1
  BY <1>1, TopFacts
<1>3. /\ f.node \in DOMAIN program /\ Kind(f.node) = "block" /\ f.node = Kids(Top.node)[k]
      /\ f.next = 1
  BY <1>1, <1>2, KidFacts DEF Entry
<1>4. f \in Node /\ Valid(f)
  <2>1. Len(Kids(f.node)) \in Nat
    BY <1>1, <1>3, ProgramFacts
  <2>2. Reach(f.node) = Len(Kids(f.node)) + 1
    BY <1>3 DEF Reach
  <2>3. Valid(f)
    BY <1>3, <2>1, <2>2 DEF Valid, Composite
  <2>. QED  BY <1>3, <2>3 DEF Node, Entry
<1>. HIDE DEF f
<1>5. k \in 1..Reach(Top.node) /\ k \in Nat
  BY <1>1, <1>2, ProgramFacts DEF Reach
<1>6. /\ Stack(Moved(k)) /\ Len(Moved(k)) = Len(control)
      /\ Moved(k)[Len(control)] = Entry(Top.node, k)
      /\ Functions(Moved(k)) = Functions(control)
  BY <1>1, <1>5, MoveFacts
<1>7. OnTop(Moved(k)[Len(Moved(k))], f)
  BY <1>3, <1>6 DEF OnTop, Child, Entry
<1>8. /\ Stack(t) /\ Len(t) = Len(control) + 1 /\ t[Len(control) + 1] = f
      /\ Functions(t) = Functions(control)
  <2>. DEFINE s == Moved(k)
  <2>1. Stack(s) /\ Len(s) > 0 /\ OnTop(s[Len(s)], f) /\ t = Append(s, f)
    BY <1>2, <1>6, <1>7
  <2>. HIDE DEF s, t
  <2>2. /\ Stack(t) /\ Len(t) = Len(s) + 1 /\ t[Len(s) + 1] = f
        /\ Functions(t) = Functions(s) \cup
             (IF Kind(f.node) = "function" THEN {Len(s) + 1} ELSE {})
    BY <1>4, <2>1, PushFacts
  <2>. QED  BY <1>3, <1>6, <2>2 DEF s
<1>9. control' = t
  BY DEF f
<1>. HIDE DEF t
<1>. QED  BY <1>2, <1>3, <1>8, <1>9, StepFacts DEF TypeInv

LEMMA SameSequence ==
    ASSUME NEW S, NEW s \in Seq(S), NEW t \in Seq(S), Len(s) = Len(t),
           \A i \in 1..Len(s) : s[i] = t[i]
    PROVE  s = t
  OBVIOUS

LEMMA ReplacedIsMoved ==
    ASSUME Stack(control), control # <<>>, NEW k \in 1..Reach(Top.node), k \in Nat
    PROVE  Append(Below, Entry(Top.node, k)) = Moved(k)
<1>1. /\ Stack(Below) /\ Len(Below) = Len(control) - 1
      /\ \A i \in 1..Len(Below) : Below[i] = control[i]
  BY PopFacts
<1>2. /\ Stack(Moved(k)) /\ Len(Moved(k)) = Len(control)
      /\ Moved(k)[Len(control)] = Entry(Top.node, k)
      /\ \A i \in 1..Len(control) : i # Len(control) => Moved(k)[i] = control[i]
  BY MoveFacts
<1>3. Len(control) \in Nat /\ Len(control) \in 1..Len(control) /\ Entry(Top.node, k) \in Node
  BY TopFacts DEF Node, Entry
<1>. DEFINE t == Append(Below, Entry(Top.node, k))
<1>4. t \in Seq(Node) /\ Moved(k) \in Seq(Node)
  BY <1>1, <1>2, <1>3 DEF Stack
<1>5. /\ Len(t) = Len(control) /\ t[Len(control)] = Entry(Top.node, k)
      /\ \A i \in 1..Len(Below) : t[i] = control[i]
  BY <1>1, <1>3 DEF Stack
<1>. HIDE DEF t
<1>6. ASSUME NEW i \in 1..Len(t)
      PROVE  t[i] = Moved(k)[i]
  <2>1. CASE i = Len(control)
    BY <1>2, <1>5, <2>1
  <2>2. CASE i # Len(control)
    <3>1. i \in 1..Len(Below) /\ i \in 1..Len(control)
      BY <1>1, <1>3, <1>5, <1>6, <2>2
    <3>. QED  BY <1>2, <1>5, <2>2, <3>1
  <2>. QED  BY <2>1, <2>2
<1>7. t = Moved(k)
  BY <1>2, <1>4, <1>5, <1>6, SameSequence
<1>. QED  BY <1>7 DEF t

LEMMA AdvancedIsMoved ==
    ASSUME Stack(control), control # <<>>
    PROVE  Advanced = Moved(Top.next + 1)
<1>1. control \in Seq(Node) /\ Len(control) \in 1..Len(control)
  BY TopFacts DEF Stack
<1>. QED  BY <1>1 DEF Advanced, Moved, Top

(* The block before and after it starts its next statement.                *)
LEMMA BlockFacts ==
    ASSUME TypeInv, NEW kind, BlockRuns(kind)
    PROVE  /\ control # <<>> /\ Stack(control) /\ Kind(Top.node) = "block"
           /\ Top.node \in DOMAIN program /\ Top.next \in 1..Len(Kids(Top.node))
           /\ Statement \in DOMAIN program /\ Kind(Statement) = kind
           /\ Statement = Kids(Top.node)[Top.next]
           /\ Stack(Advanced) /\ Len(Advanced) = Len(control) /\ Len(control) > 0
           /\ Advanced = Moved(Top.next + 1)
           /\ Advanced[Len(control)] = Entry(Top.node, Top.next + 1)
           /\ \A i \in 1..Len(control) : i # Len(control) => Advanced[i] = control[i]
           /\ Functions(Advanced) = Functions(control)
           /\ Child(Advanced[Len(control)]) = Statement
           /\ \A f : f.node = Statement \/ (kind = "call" /\ f.node = 1) =>
                OnTop(Advanced[Len(Advanced)], f)
<1>1. /\ control # <<>> /\ Kind(Top.node) = "block" /\ Kind(Statement) = kind
      /\ Top.next <= Len(Kids(Top.node)) /\ Statement = Kids(Top.node)[Top.next]
      /\ Stack(control) /\ program \in Programs
  BY DEF BlockRuns, Active, Statement, TypeInv
<1>2. /\ Top.node \in DOMAIN program /\ Top.next \in Nat /\ Valid(Top)
      /\ Len(control) \in Nat /\ Len(control) \in 1..Len(control)
  BY <1>1, TopFacts
<1>3. Top.next \in 1..Len(Kids(Top.node)) /\ Len(Kids(Top.node)) \in Nat
  BY <1>1, <1>2, ProgramFacts DEF Valid, Reach
<1>4. Statement \in DOMAIN program
  BY <1>1, <1>2, <1>3, KidFacts
<1>5. Top.next + 1 \in 1..Reach(Top.node) /\ Top.next + 1 \in Nat
  BY <1>1, <1>3 DEF Reach
<1>. DEFINE s == Moved(Top.next + 1)
<1>6. /\ Stack(s) /\ Len(s) = Len(control)
      /\ s[Len(control)] = Entry(Top.node, Top.next + 1)
      /\ \A i \in 1..Len(control) : i # Len(control) => s[i] = control[i]
      /\ Functions(s) = Functions(control)
  BY <1>1, <1>5, MoveFacts
<1>7. Advanced = s
  BY <1>1, AdvancedIsMoved
<1>. HIDE DEF s
<1>8. Child(s[Len(control)]) = Statement
  <2>. DEFINE e == s[Len(control)]
  <2>1. e.node = Top.node /\ e.next = Top.next + 1
    BY <1>6 DEF Entry
  <2>2. e.next - 1 = Top.next
    BY <1>2, <2>1
  <2>. HIDE DEF e
  <2>3. Child(e) = Kids(Top.node)[Top.next]
    BY <1>1, <2>1, <2>2 DEF Child
  <2>. QED  BY <1>1, <2>3 DEF e
<1>9. ASSUME NEW f, f.node = Statement \/ (kind = "call" /\ f.node = 1)
      PROVE  OnTop(s[Len(s)], f)
  <2>1. Kind(s[Len(control)].node) = "block" /\ s[Len(control)].next > 1
    BY <1>1, <1>3, <1>6 DEF Entry
  <2>. QED  BY <1>1, <1>6, <1>8, <1>9, <2>1 DEF OnTop
<1>10. Len(control) > 0
  BY <1>2
<1>11. s = Moved(Top.next + 1)
  BY DEF s
<1>. QED  BY <1>1, <1>2, <1>3, <1>4, <1>6, <1>7, <1>8, <1>9, <1>10, <1>11

LEMMA SucceedKeepsType ==
    ASSUME TypeInv, Succeed
    PROVE  TypeInv'
<1>1. /\ BlockRuns("command") /\ control' = Advanced /\ UNCHANGED <<program, frames, result>>
      /\ Observe(Statement, "normal")
  BY DEF Succeed
<1>2. /\ Stack(Advanced) /\ Len(Advanced) = Len(control) /\ Len(control) > 0
      /\ Advanced[Len(control)] = Entry(Top.node, Top.next + 1)
      /\ Functions(Advanced) = Functions(control) /\ Kind(Top.node) = "block"
      /\ Statement \in DOMAIN program
  BY <1>1, BlockFacts
<1>3. last' \in Event
  BY <1>1, <1>2, ObserveFacts DEF Signals
<1>4. Kind(Advanced[Len(Advanced)].node) = "block"
  BY <1>2 DEF Entry
<1>. QED  BY <1>1, <1>2, <1>3, <1>4, StepFacts DEF TypeInv

LEMMA FirstBlock ==
    ASSUME program \in Programs, NEW n \in DOMAIN program,
           Kind(n) \in {"function", "if", "while"}
    PROVE  LET g == Entry(Kids(n)[1], 1) IN
           /\ 1 \in 1..Len(Kids(n)) /\ Entry(n, 1) \in Node /\ Valid(Entry(n, 1))
           /\ g \in Node /\ Valid(g) /\ Kind(g.node) = "block"
           /\ OnTop(Entry(n, 1), g)
<1>1. Len(Kids(n)) \in Nat /\ Len(Kids(n)) >= 1
  <2>1. Len(Kids(n)) \in Nat
    BY ProgramFacts
  <2>2. Len(Kids(n)) = 1 \/ Len(Kids(n)) = 2 \/ Len(Kids(n)) >= 2
    BY PartFacts
  <2>. QED  BY <2>1, <2>2
<1>2. 1 \in 1..Len(Kids(n))
  BY <1>1
<1>3. Kids(n)[1] \in DOMAIN program /\ Kind(Kids(n)[1]) = "block"
  BY <1>2, KidFacts
<1>4. Entry(n, 1) \in Node /\ Valid(Entry(n, 1))
  BY <1>1 DEF Node, Entry, Valid, Reach, Composite
<1>5. Len(Kids(Kids(n)[1])) \in Nat
  BY <1>3, ProgramFacts
<1>6. /\ Entry(Kids(n)[1], 1) \in Node /\ Valid(Entry(Kids(n)[1], 1))
      /\ Kind(Entry(Kids(n)[1], 1).node) = "block"
  BY <1>3, <1>5 DEF Node, Entry, Valid, Reach, Composite
<1>7. OnTop(Entry(n, 1), Entry(Kids(n)[1], 1))
  BY DEF OnTop, Entry, Child
<1>. QED  BY <1>2, <1>4, <1>6, <1>7

LEMMA EnterKeepsType ==
    ASSUME TypeInv, NEW kind \in {"if", "while"}, BlockRuns(kind),
           control' = Advanced \o <<Entry(Statement, 1), Entry(Kids(Statement)[1], 1)>>,
           UNCHANGED <<program, frames, result, last>>
    PROVE  TypeInv'
<1>. DEFINE f == Entry(Statement, 1)
            g == Entry(Kids(Statement)[1], 1)
            s == Advanced
            t == s \o <<f, g>>
<1>1. /\ Stack(s) /\ Len(s) > 0 /\ Functions(s) = Functions(control)
      /\ Statement \in DOMAIN program /\ Kind(Statement) = kind
      /\ OnTop(s[Len(s)], f)
  BY BlockFacts DEF Entry
<1>2. /\ f \in Node /\ Valid(f) /\ g \in Node /\ Valid(g) /\ Kind(g.node) = "block"
      /\ OnTop(f, g)
  BY <1>1, FirstBlock DEF TypeInv
<1>3. Kind(f.node) # "function"
  BY <1>1 DEF Entry
<1>. HIDE DEF f, g, s
<1>4. /\ Stack(t) /\ Len(t) = Len(s) + 2 /\ t[Len(s) + 2] = g
      /\ Functions(t) = Functions(s)
  <2>1. /\ Stack(t) /\ Len(t) = Len(s) + 2 /\ t[Len(s) + 2] = g
        /\ Functions(t) = Functions(s) \cup
             (IF Kind(f.node) = "function" THEN {Len(s) + 1} ELSE {})
    BY <1>1, <1>2, EnterFacts
  <2>. HIDE DEF t
  <2>. QED  BY <1>3, <2>1
<1>5. control' = t
  BY DEF f, g, s
<1>6. Len(s) \in Nat
  BY <1>1 DEF Stack
<1>. HIDE DEF t
<1>7. Len(t) > 0 /\ Kind(t[Len(t)].node) = "block"
  BY <1>2, <1>4, <1>6
<1>8. /\ frames' \in Seq(DOMAIN program) /\ Len(frames') = Cardinality(Functions(t))
      /\ result' \in Signals \cup {"run"} /\ last' \in Event
  BY <1>1, <1>4 DEF TypeInv
<1>. QED  BY <1>4, <1>5, <1>7, <1>8, StepFacts

(* A call pushes a frame for the entry of its function.                    *)
LEMMA CallKeepsType ==
    ASSUME TypeInv, Call
    PROVE  TypeInv'
<1>. DEFINE f == Entry(1, 1)
            g == Entry(Kids(1)[1], 1)
            s == Advanced
            t == s \o <<f, g>>
<1>1. /\ BlockRuns("call") /\ control' = t /\ frames' = Append(frames, Statement)
      /\ Observe(Statement, "call") /\ UNCHANGED <<program, result>>
      /\ program \in Programs /\ frames \in Seq(DOMAIN program)
  BY DEF Call, TypeInv
<1>2. /\ Stack(s) /\ Len(s) > 0 /\ Functions(s) = Functions(control)
      /\ Statement \in DOMAIN program /\ OnTop(s[Len(s)], f)
  BY <1>1, BlockFacts DEF Entry
<1>3. 1 \in DOMAIN program /\ Kind(1) = "function"
  BY <1>1, ProgramFacts
<1>4. /\ f \in Node /\ Valid(f) /\ g \in Node /\ Valid(g) /\ Kind(g.node) = "block"
      /\ OnTop(f, g)
  BY <1>1, <1>3, FirstBlock
<1>5. Kind(f.node) = "function"
  BY <1>3 DEF Entry
<1>. HIDE DEF f, g, s
<1>6. /\ Stack(t) /\ Len(t) = Len(s) + 2 /\ t[Len(s) + 2] = g
      /\ Functions(t) = Functions(s) \cup {Len(s) + 1}
  BY <1>2, <1>4, <1>5, EnterFacts
<1>. HIDE DEF t
<1>7. last' \in Event
  BY <1>1, <1>2, ObserveFacts
<1>8. Len(s) \in Nat /\ Len(s) + 1 \notin Functions(s)
  BY <1>2 DEF Stack, Functions
<1>9. IsFiniteSet(Functions(s)) /\ Cardinality(Functions(s)) \in Nat
  BY <1>2, FunctionsAreFinite
<1>10. Cardinality(Functions(t)) = Cardinality(Functions(s)) + 1
  BY <1>6, <1>8, <1>9, FS_AddElement
<1>11. frames' \in Seq(DOMAIN program) /\ Len(frames') = Len(frames) + 1
  BY <1>1, <1>2
<1>12. Len(frames) = Cardinality(Functions(s))
  BY <1>2 DEF TypeInv
<1>13. Len(frames') = Cardinality(Functions(t))
  BY <1>10, <1>11, <1>12
<1>14. result' \in Signals \cup {"run"} /\ Len(t) > 0 /\ Kind(t[Len(t)].node) = "block"
  BY <1>1, <1>4, <1>6, <1>8 DEF TypeInv
<1>. QED  BY <1>1, <1>6, <1>7, <1>11, <1>13, <1>14, StepFacts

LEMMA BlockPopsKeepType ==
    ASSUME TypeInv, Fail \/ BlockEnds \/ \E kind \in {"break", "continue", "return"} : Signal(kind)
    PROVE  TypeInv'
<1>1. /\ control # <<>> /\ Kind(Top.node) = "block" /\ control' = Below
      /\ UNCHANGED <<program, frames>> /\ result' \in Signals
  BY DEF Fail, BlockEnds, Signal, BlockRuns, Active, Signals
<1>2. last' \in Event
  <2>1. CASE Fail
    <3>1. PICK kind \in {"command", "call"} : BlockRuns(kind)
      BY <2>1 DEF Fail
    <3>. QED  BY <2>1, <3>1, BlockFacts, ObserveFacts DEF Fail, Signals
  <2>2. CASE BlockEnds
    BY <2>2 DEF BlockEnds, TypeInv
  <2>3. ASSUME NEW kind \in {"break", "continue", "return"}, Signal(kind)
        PROVE  last' \in Event
    BY <2>3, BlockFacts, ObserveFacts DEF Signal, Signals
  <2>. QED  BY <2>1, <2>2, <2>3
<1>. QED  BY <1>1, <1>2, NoSignal, PopKeepsType

LEMMA StayKeepsType ==
    ASSUME TypeInv, UNCHANGED <<program, control, frames>>, last' \in Event,
           result' \in Signals \cup {"run"}, result' = "run" => Active("block")
    PROVE  TypeInv'
<1>. DEFINE t == control
<1>1. Stack(t) /\ Len(frames) = Cardinality(Functions(t)) /\ control' = t
  BY DEF TypeInv
<1>2. result' = "run" => Len(t) > 0 /\ Kind(t[Len(t)].node) = "block"
  BY <1>1, TopFacts DEF Active, Top
<1>. HIDE DEF t
<1>. QED  BY <1>1, <1>2, StepFacts DEF TypeInv

LEMMA BlockReceivesKeepsType ==
    ASSUME TypeInv, BlockReceives
    PROVE  TypeInv'
<1>1. /\ control # <<>> /\ Kind(Top.node) = "block" /\ Active("block")
      /\ UNCHANGED <<program, frames, last>> /\ result \in Signals /\ last' \in Event
  BY DEF BlockReceives, Active, TypeInv
<1>2. CASE result = "normal"
  BY <1>1, <1>2, StayKeepsType DEF BlockReceives
<1>3. CASE result # "normal"
  <2>1. control' = Below /\ result' \in Signals
    BY <1>1, <1>3 DEF BlockReceives
  <2>. QED  BY <1>1, <2>1, NoSignal, PopKeepsType
<1>. QED  BY <1>2, <1>3

(* An if or a while has just executed one of its blocks.                   *)
LEMMA ConstructFacts ==
    ASSUME TypeInv, Active("if") \/ Active("while")
    PROVE  /\ control # <<>> /\ Kind(Top.node) \in {"if", "while"} /\ Kind(Top.node) # "function"
           /\ Stack(control) /\ program \in Programs
           /\ Top.node \in DOMAIN program /\ Top.next \in 1..Len(Kids(Top.node))
           /\ Len(Kids(Top.node)) \in Nat
           /\ Reach(Top.node) = Len(Kids(Top.node))
           /\ Kids(Top.node)[Top.next] \in DOMAIN program
<1>1. /\ control # <<>> /\ Kind(Top.node) \in {"if", "while"} /\ Kind(Top.node) # "function"
      /\ Stack(control) /\ program \in Programs
  BY DEF Active, TypeInv
<1>2. Top.node \in DOMAIN program /\ Valid(Top)
  BY <1>1, TopFacts
<1>3. Len(Kids(Top.node)) \in Nat
  BY <1>1, <1>2, ProgramFacts
<1>4. Reach(Top.node) = Len(Kids(Top.node))
  BY <1>1, <1>3 DEF Reach
<1>5. Top.next \in 1..Len(Kids(Top.node))
  BY <1>2, <1>4 DEF Valid
<1>. QED  BY <1>1, <1>2, <1>3, <1>4, <1>5, KidFacts

LEMMA TestFacts ==
    ASSUME TypeInv, Active("if") \/ Active("while"), NEW o \in Signals \cup {"call", "true"},
           Observe(Kids(Top.node)[Top.next], o)
    PROVE  last' \in Event
  BY ConstructFacts, ObserveFacts

LEMMA AdvanceToBranch ==
    ASSUME TypeInv, Active("if") \/ Active("while"), Top.next < Len(Kids(Top.node))
    PROVE  LET k == Top.next + 1 IN
           /\ k \in 1..Len(Kids(Top.node))
           /\ Advanced \o <<Entry(Kids(Top.node)[k], 1)>>
                = Append(Moved(k), Entry(Kids(Top.node)[k], 1))
<1>. DEFINE k == Top.next + 1
            f == Entry(Kids(Top.node)[k], 1)
<1>1. k \in 1..Len(Kids(Top.node)) /\ k \in Nat
  BY ConstructFacts
<1>2. Kids(Top.node)[k] \in DOMAIN program
  BY <1>1, ConstructFacts, KidFacts
<1>3. f \in Node
  BY <1>2 DEF Entry, Node
<1>4. Advanced = Moved(k) /\ k \in 1..Reach(Top.node)
  BY <1>1, ConstructFacts, AdvancedIsMoved
<1>. HIDE DEF k, f
<1>5. Moved(k) \in Seq(Node)
  BY <1>1, <1>4, ConstructFacts, MoveFacts DEF Stack
<1>6. Moved(k) \o <<f>> = Append(Moved(k), f)
  BY <1>3, <1>5, ConcatFacts
<1>. QED  BY <1>1, <1>4, <1>6 DEF k, f

LEMMA MoveToBranch ==
    ASSUME TypeInv, Active("if") \/ Active("while"), NEW k \in 1..Len(Kids(Top.node))
    PROVE  Below \o <<Entry(Top.node, k), Entry(Kids(Top.node)[k], 1)>>
             = Append(Moved(k), Entry(Kids(Top.node)[k], 1))
<1>. DEFINE f == Entry(Kids(Top.node)[k], 1)
<1>1. k \in Nat /\ k \in 1..Reach(Top.node) /\ Stack(control) /\ control # <<>>
  BY ConstructFacts
<1>2. f \in Node /\ Entry(Top.node, k) \in Node
  BY <1>1, ConstructFacts, KidFacts DEF Entry, Node
<1>3. Below \in Seq(Node)
  BY <1>1, PopFacts DEF Stack
<1>. HIDE DEF f
<1>4. Below \o <<Entry(Top.node, k), f>> = Append(Append(Below, Entry(Top.node, k)), f)
  BY <1>2, <1>3, ConcatFacts
<1>5. Append(Below, Entry(Top.node, k)) = Moved(k)
  BY <1>1, ReplacedIsMoved
<1>. QED  BY <1>4, <1>5 DEF f

LEMMA IfTestsKeepsType ==
    ASSUME TypeInv, NEW b \in BOOLEAN, IfTests(b)
    PROVE  TypeInv'
<1>1. /\ Active("if") /\ UNCHANGED <<program, frames>> /\ Top.next < Len(Kids(Top.node))
      /\ Test(b)
  BY DEF IfTests, InCondition
<1>2. last' \in Event
  BY <1>1, TestFacts DEF Test, Signals
<1>3. CASE b
  <2>1. /\ control' = Advanced \o <<Entry(Kids(Top.node)[Top.next + 1], 1)>>
        /\ result' = "run"
    BY <1>3 DEF IfTests
  <2>. QED  BY <1>1, <1>2, <2>1, AdvanceToBranch, ConstructFacts, BranchKeepsType
<1>4. CASE ~b
  <2>1. result' = "false" /\ control' = control
    BY <1>4 DEF IfTests
  <2>2. result' \in Signals \cup {"run"} /\ result' # "run"
    BY <2>1 DEF Signals
  <2>. QED  BY <1>1, <1>2, <2>1, <2>2, StayKeepsType
<1>. QED  BY <1>3, <1>4

LEMMA IfSkipsKeepsType ==
    ASSUME TypeInv, IfSkips
    PROVE  TypeInv'
<1>1. Active("if") /\ UNCHANGED <<program, frames, last>> /\ last' \in Event
  BY DEF IfSkips, TypeInv
<1>2. CASE Top.next + 2 <= Len(Kids(Top.node))
  <2>. DEFINE k == Top.next + 2
  <2>1. control' = Below \o <<Entry(Top.node, k), Entry(Kids(Top.node)[k], 1)>> /\ result' = "run"
    BY <1>2 DEF IfSkips
  <2>2. k \in 1..Len(Kids(Top.node))
    BY <1>1, <1>2, ConstructFacts
  <2>. HIDE DEF k
  <2>. QED  BY <1>1, <2>1, <2>2, MoveToBranch, ConstructFacts, BranchKeepsType
<1>3. CASE ~(Top.next + 2 <= Len(Kids(Top.node)))
  <2>1. control' = Below /\ result' \in Signals
    BY <1>3 DEF IfSkips, Signals
  <2>. QED  BY <1>1, <2>1, NoSignal, ConstructFacts, PopKeepsType
<1>. QED  BY <1>2, <1>3

LEMMA WhileTestsKeepsType ==
    ASSUME TypeInv, NEW b \in BOOLEAN, WhileTests(b)
    PROVE  TypeInv'
<1>1. /\ Active("while") /\ UNCHANGED <<program, frames>> /\ Top.next = 1 /\ Test(b)
      /\ result = "normal"
  BY DEF WhileTests
<1>2. last' \in Event
  BY <1>1, TestFacts DEF Test, Signals
<1>3. Len(Kids(Top.node)) = 2
  BY <1>1, ConstructFacts, PartFacts DEF Active
<1>4. CASE b
  <2>1. /\ control' = Advanced \o <<Entry(Kids(Top.node)[Top.next + 1], 1)>>
        /\ result' = "run"
    BY <1>1, <1>4 DEF WhileTests
  <2>2. Top.next < Len(Kids(Top.node))
    BY <1>1, <1>3
  <2>. QED  BY <1>1, <1>2, <2>1, <2>2, AdvanceToBranch, ConstructFacts, BranchKeepsType
<1>5. CASE ~b
  <2>1. result' \in Signals /\ control' = Below
    BY <1>1, <1>5 DEF WhileTests, Signals
  <2>. QED  BY <1>1, <1>2, <2>1, NoSignal, ConstructFacts, PopKeepsType
<1>. QED  BY <1>4, <1>5

LEMMA WhileBodyEndsKeepsType ==
    ASSUME TypeInv, WhileBodyEnds
    PROVE  TypeInv'
<1>1. /\ Active("while") /\ UNCHANGED <<program, frames, last>> /\ last' \in Event
      /\ result \in Signals
  BY DEF WhileBodyEnds, TypeInv
<1>2. CASE result \in {"break", "return", "error"}
  <2>1. control' = Below /\ result' \in Signals
    BY <1>1, <1>2 DEF WhileBodyEnds, Signals
  <2>. QED  BY <1>1, <2>1, NoSignal, ConstructFacts, PopKeepsType
<1>3. CASE result \notin {"break", "return", "error"}
  <2>1. control' = Below \o <<Entry(Top.node, 1), Entry(Kids(Top.node)[1], 1)>> /\ result' = "run"
    BY <1>3 DEF WhileBodyEnds
  <2>2. 1 \in 1..Len(Kids(Top.node))
    BY <1>1, ConstructFacts
  <2>. QED  BY <1>1, <2>1, <2>2, MoveToBranch, ConstructFacts, BranchKeepsType
<1>. QED  BY <1>2, <1>3

LEMMA ConstructPopsKeepType ==
    ASSUME TypeInv, IfTestFails \/ IfReceives \/ WhileTestFails \/ WhileConditionEnds
    PROVE  TypeInv'
<1>1. /\ Active("if") \/ Active("while")
      /\ control' = Below /\ UNCHANGED <<program, frames>> /\ result' \in Signals
  BY DEF IfTestFails, IfReceives, WhileTestFails, WhileConditionEnds, Signals
<1>2. last' \in Event
  <2>1. CASE IfTestFails
    BY <2>1, TestFacts DEF IfTestFails, Signals
  <2>2. CASE WhileTestFails
    <3>1. Active("while") /\ Observe(Kids(Top.node)[Top.next], "error")
      BY <2>2 DEF WhileTestFails
    <3>. QED  BY <3>1, TestFacts DEF Signals
  <2>3. CASE IfReceives \/ WhileConditionEnds
    BY <2>3 DEF IfReceives, WhileConditionEnds, TypeInv
  <2>. QED  BY <2>1, <2>2, <2>3
<1>. QED  BY <1>1, <1>2, NoSignal, ConstructFacts, PopKeepsType

(* A function's frame goes with its entry.                                 *)
LEMMA FunctionReceivesKeepsType ==
    ASSUME TypeInv, FunctionReceives
    PROVE  TypeInv'
<1>1. /\ control # <<>> /\ Kind(Top.node) = "function" /\ control' = Below
      /\ frames' = SubSeq(frames, 1, Len(frames) - 1)
      /\ UNCHANGED <<program, last>> /\ last' \in Event
      /\ result' \in Signals /\ result' # "run"
      /\ Stack(control) /\ frames \in Seq(DOMAIN program)
      /\ Len(frames) = Cardinality(Functions(control))
  BY DEF FunctionReceives, PopFrame, Active, TypeInv, Signals
<1>2. Len(control) \in Functions(control)
  BY <1>1, TopFacts DEF Functions, Top
<1>3. Stack(Below) /\ Functions(Below) = Functions(control) \ {Len(control)}
  BY <1>1, PopFacts
<1>4. IsFiniteSet(Functions(control))
  BY <1>1, FunctionsAreFinite
<1>5. Cardinality(Functions(Below)) = Cardinality(Functions(control)) - 1
  BY <1>2, <1>3, <1>4, FS_RemoveElement
<1>6. Cardinality(Functions(Below)) \in Nat
  BY <1>3, FunctionsAreFinite
<1>7. Len(frames) - 1 \in Nat /\ Len(frames) - 1 <= Len(frames)
  BY <1>1, <1>5, <1>6
<1>8. frames' \in Seq(DOMAIN program) /\ Len(frames') = Len(frames) - 1
  BY <1>1, <1>7, PrefixFacts
<1>9. Len(frames') = Cardinality(Functions(Below)) /\ result' \in Signals \cup {"run"}
  BY <1>1, <1>5, <1>8
<1>. QED  BY <1>1, <1>3, <1>8, <1>9, StepFacts

LEMMA InitType ==
    ASSUME Init
    PROVE  TypeInv
<1>. DEFINE f == Entry(1, 1)
            g == Entry(Kids(1)[1], 1)
            t == <<f, g>>
<1>1. /\ program \in Programs /\ control = t /\ frames = <<1>> /\ result = "run"
      /\ last = [node |-> 1, outcome |-> "call", callers |-> <<>>]
  BY DEF Init
<1>2. 1 \in DOMAIN program /\ Kind(1) = "function"
  BY <1>1, ProgramFacts
<1>3. /\ f \in Node /\ Valid(f) /\ g \in Node /\ Valid(g) /\ Kind(g.node) = "block"
      /\ OnTop(f, g)
  BY <1>1, <1>2, FirstBlock
<1>4. f.node = 1
  BY DEF Entry
<1>. HIDE DEF f, g
<1>5. t \in Seq(Node) /\ Len(t) = 2 /\ t[1] = f /\ t[2] = g
  BY <1>3
<1>. HIDE DEF t
<1>6. Stack(t)
  <2>1. \A i \in 1..Len(t) : i = 1 \/ i = 2
    BY <1>5
  <2>2. \A i \in 1..(Len(t) - 1) : i = 1
    BY <1>5
  <2>. QED  BY <1>3, <1>4, <1>5, <2>1, <2>2 DEF Stack
<1>7. Functions(t) = {1}
  BY <1>2, <1>3, <1>4, <1>5 DEF Functions
<1>8. frames \in Seq(DOMAIN program) /\ Len(frames) = Cardinality(Functions(t))
  <2>1. Cardinality(Functions(t)) = 1
    BY <1>7, FS_Singleton
  <2>2. <<1>> \in Seq(DOMAIN program) /\ Len(<<1>>) = 1
    BY <1>2
  <2>. QED  BY <1>1, <2>1, <2>2
<1>9. last \in Event
  BY <1>1, <1>2 DEF Event
<1>10. Active("block")
  <2>1. t # <<>> /\ t[Len(t)] = g
    BY <1>5
  <2>2. control # <<>> /\ Top = g
    BY <1>1, <2>1 DEF Top
  <2>. QED  BY <1>3, <2>2 DEF Active
<1>11. result \in Signals \cup {"run"} /\ Stack(control)
       /\ Len(frames) = Cardinality(Functions(control))
  BY <1>1, <1>6, <1>8
<1>. QED  BY <1>1, <1>8, <1>9, <1>10, <1>11 DEF TypeInv

LEMMA StepKeepsType ==
    ASSUME TypeInv, [Next]_vars, ~Throw
    PROVE  TypeInv'
<1>1. CASE Succeed \/ Fail \/ Call \/ BlockEnds \/ BlockReceives
  BY <1>1, SucceedKeepsType, BlockPopsKeepType, CallKeepsType, BlockReceivesKeepsType
<1>2. ASSUME NEW kind \in {"break", "continue", "return"}, Signal(kind)
      PROVE  TypeInv'
  BY <1>2, BlockPopsKeepType
<1>3. CASE EnterIf
  BY <1>3, EnterKeepsType DEF EnterIf
<1>4. CASE EnterWhile
  BY <1>4, EnterKeepsType DEF EnterWhile
<1>5. ASSUME NEW b \in BOOLEAN, IfTests(b) \/ WhileTests(b)
      PROVE  TypeInv'
  BY <1>5, IfTestsKeepsType, WhileTestsKeepsType
<1>6. CASE IfTestFails \/ IfReceives \/ WhileTestFails \/ WhileConditionEnds
  BY <1>6, ConstructPopsKeepType
<1>7. CASE IfSkips \/ WhileBodyEnds \/ FunctionReceives
  BY <1>7, IfSkipsKeepsType, WhileBodyEndsKeepsType, FunctionReceivesKeepsType
<1>8. CASE UNCHANGED vars
  BY <1>8, StayKeepsType DEF vars, TypeInv
<1>. QED  BY <1>1, <1>2, <1>3, <1>4, <1>5, <1>6, <1>7, <1>8 DEF Next

(* An exception leaves one frame for main and one for each call, and then  *)
(* nothing executes any more.                                              *)
LEMMA ThrowLeavesFrames ==
    ASSUME TypeInv, Throw
    PROVE  Thrown'
<1>1. /\ BlockRuns("command") /\ control' = <<>> /\ result' = "exception"
      /\ UNCHANGED <<program, frames>>
      /\ last' = [node |-> Statement, outcome |-> "exception", callers |-> Callers]
  BY DEF Throw, Observe
<1>2. Statement \in DOMAIN program /\ Stack(control) /\ control # <<>>
  BY <1>1, BlockFacts
<1>3. frames \in Seq(DOMAIN program) /\ Len(frames) = Cardinality(Functions(control))
  BY DEF TypeInv
<1>4. Len(frames) >= 1
  <2>1. Len(control) \in Nat \ {0} /\ control[1].node = 1 /\ Kind(1) = "function"
    BY <1>2, ProgramFacts DEF Stack, TypeInv
  <2>2. 1 \in Functions(control)
    BY <2>1 DEF Functions
  <2>3. IsFiniteSet(Functions(control)) /\ Cardinality(Functions(control)) \in Nat
    BY <1>2, FunctionsAreFinite
  <2>4. Cardinality(Functions(control)) # 0
    BY <2>2, <2>3, FS_EmptySet
  <2>. QED  BY <1>3, <2>3, <2>4
<1>5. Callers \in Seq(DOMAIN program) /\ Len(frames) = 1 + Len(Callers)
  BY <1>3, <1>4 DEF Callers
<1>. QED  BY <1>1, <1>2, <1>3, <1>5 DEF Thrown

LEMMA ThrownIsFinal ==
    ASSUME Thrown, [Next]_vars
    PROVE  Thrown'
<1>1. \A kind : ~Active(kind) /\ ~BlockRuns(kind)
  BY DEF Thrown, Active, BlockRuns
<1>2. ~Next
  BY <1>1 DEF Next, Succeed, Fail, Throw, Call, EnterIf, EnterWhile, BlockEnds, BlockReceives,
              Signal, IfTests, WhileTests, IfTestFails, IfSkips, IfReceives,
              WhileTestFails, WhileConditionEnds, WhileBodyEnds, FunctionReceives
<1>3. UNCHANGED vars
  BY <1>2
<1>. QED  BY <1>3 DEF Thrown, vars

LEMMA StepKeepsFrames ==
    ASSUME TypeInv \/ Thrown, [Next]_vars
    PROVE  TypeInv' \/ Thrown'
  BY StepKeepsType, ThrowLeavesFrames, ThrownIsFinal

(* The interpreter's variables have their types: no construct executes a   *)
(* child that it does not have.                                            *)
THEOREM TypeCorrect == Spec => []TypeOK
<1>1. Init => TypeInv
  BY InitType
<1>2. (TypeInv \/ Thrown) /\ [Next]_vars => (TypeInv \/ Thrown)'
  BY StepKeepsFrames
<1>3. Thrown => TypeOK
  <2>. SUFFICES ASSUME Thrown PROVE TypeOK
    OBVIOUS
  <2>. QED  BY DEF Thrown, TypeOK
<1>4. TypeInv => TypeOK
  <2>. SUFFICES ASSUME TypeInv PROVE TypeOK
    OBVIOUS
  <2>1. control \in Seq(Node) /\ DOMAIN control = 1..Len(control)
    BY DEF TypeInv, Stack
  <2>2. \A i \in DOMAIN control : control[i].next \in 1..Reach(control[i].node)
    BY <2>1 DEF TypeInv, Stack, Valid
  <2>3. last \in Event /\ frames \in Seq(DOMAIN program) /\ result \in Signals \cup {"run"}
    BY DEF TypeInv
  <2>. QED  BY <2>1, <2>2, <2>3 DEF TypeOK, Node, Event, Reach
<1>. QED  BY <1>1, <1>2, <1>3, <1>4, PTL DEF Spec

(* However functions end, by falling off their ends, by a Return or by an  *)
(* error, in any nesting of constructs and calls, the frames on the stack  *)
(* are those of the functions that are still executing.  After an          *)
(* exception they are those of main and of the calls it was thrown in.     *)
THEOREM FramesArePopped == Spec => []FramesMatchCalls
<1>1. Init => TypeInv
  BY InitType
<1>2. (TypeInv \/ Thrown) /\ [Next]_vars => (TypeInv \/ Thrown)'
  BY StepKeepsFrames
<1>3. Thrown => FramesMatchCalls
  BY DEF Thrown, FramesMatchCalls
<1>4. TypeInv => FramesMatchCalls
  <2>. SUFFICES ASSUME TypeInv PROVE FramesMatchCalls
    OBVIOUS
  <2>1. DOMAIN control = 1..Len(control) /\ Len(frames) = Cardinality(Functions(control))
    BY DEF TypeInv, Stack
  <2>2. result # "exception"
    BY DEF TypeInv, Signals
  <2>. QED  BY <2>1, <2>2 DEF FramesMatchCalls, Functions
<1>. QED  BY <1>1, <1>2, <1>3, <1>4, PTL DEF Spec
-----------------------------------------------------------------------------
(* Break and Continue.                                                     *)

LEMMA LoopedFacts ==
    ASSUME WellPlaced, program \in Programs
    PROVE  /\ Looped \subseteq DOMAIN program /\ 1 \notin Looped
           /\ \A n \in DOMAIN program : Kind(n) \in {"break", "continue"} => n \in Looped
           /\ \A n \in DOMAIN program : \A i \in 1..Len(Kids(n)) :
                Kids(n)[i] \in Looped => n \in Looped \/ (Kind(n) = "while" /\ i = 2)
           /\ \A n \in Looped : Kind(n) # "function"
<1>1. \E nodes \in SUBSET DOMAIN program : InLoops(program, nodes)
  BY DEF WellPlaced
<1>2. Looped \in SUBSET DOMAIN program /\ InLoops(program, Looped)
  BY <1>1 DEF Looped, NodesInLoops
<1>. HIDE DEF Looped
<1>3. 1 \notin Looped
  BY <1>2 DEF InLoops
<1>4. \A n \in DOMAIN program : Kind(n) \in {"break", "continue"} => n \in Looped
  BY <1>2 DEF InLoops, Kind
<1>5. ASSUME NEW n \in DOMAIN program, NEW i \in 1..Len(Kids(n)), Kids(n)[i] \in Looped
      PROVE  n \in Looped \/ (Kind(n) = "while" /\ i = 2)
  <2>1. i \in DOMAIN program[n].kids
    BY ProgramFacts DEF Kids
  <2>. QED  BY <1>2, <1>5, <2>1 DEF InLoops, Kids, Kind
<1>6. \A n \in Looped : Kind(n) # "function"
  BY <1>2, <1>3, ProgramFacts
<1>. QED  BY <1>2, <1>3, <1>4, <1>5, <1>6

(* A signal that leaves an entry's child meets the loop, or goes on.       *)
LEMMA PassingFacts ==
    ASSUME WellPlaced, program \in Programs, NEW e \in Node, Valid(e), Passing(e)
    PROVE  \/ Kind(e.node) = "while" /\ e.next = 2
           \/ e.node \in Looped
<1>1. e.node \in DOMAIN program /\ e.next \in Nat
  BY DEF Node
<1>2. Len(Kids(e.node)) \in Nat
  BY <1>1, ProgramFacts
<1>3. CASE Kind(e.node) = "block"
  <2>1. e.next - 1 \in 1..Len(Kids(e.node))
    BY <1>1, <1>2, <1>3 DEF Valid, Reach, Passing
  <2>2. Kids(e.node)[e.next - 1] \in Looped
    BY <1>3 DEF Passing, Child
  <2>. QED  BY <1>1, <1>3, <2>1, <2>2, LoopedFacts
<1>4. CASE Kind(e.node) # "block"
  <2>1. e.next \in 1..Len(Kids(e.node))
    BY <1>1, <1>2, <1>4 DEF Valid, Reach
  <2>2. Kids(e.node)[e.next] \in Looped
    BY <1>4 DEF Passing, Child
  <2>. QED  BY <1>1, <2>1, <2>2, LoopedFacts
<1>. QED  BY <1>3, <1>4

LEMMA CallerPasses ==
    ASSUME WellPlaced, program \in Programs, NEW e, NEW f, OnTop(e, f), f.node \in Looped
    PROVE  Passing(e)
<1>1. f.node # 1
  BY LoopedFacts
<1>. QED  BY <1>1 DEF OnTop, Passing

LEMMA OnlyMainIsAlone ==
    ASSUME TypeInv, control # <<>>, Kind(Top.node) # "function"
    PROVE  Len(Below) > 0
<1>1. Stack(control) /\ program \in Programs
  BY DEF TypeInv
<1>2. Top.node # 1
  BY <1>1, ProgramFacts
<1>. QED  BY <1>1, <1>2, TopFacts, PopFacts

(* What is in a loop has something below it, which the loop is in or is.   *)
LEMMA PoppedPasses ==
    ASSUME WellPlaced, TypeInv, control # <<>>, Top.node \in Looped
    PROVE  Len(Below) > 0 /\ Passing(Below[Len(Below)])
<1>1. Stack(control) /\ program \in Programs
  BY DEF TypeInv
<1>2. Len(Below) > 0 /\ Len(Below) = Len(control) - 1 /\ Len(control) \in Nat
  <2>1. Kind(Top.node) # "function"
    BY <1>1, LoopedFacts
  <2>. QED  BY <1>1, <2>1, OnlyMainIsAlone, PopFacts, TopFacts
<1>3. Len(Below) = Len(control) - 1 /\ Below[Len(Below)] = control[Len(control) - 1]
  BY <1>1, <1>2, PopFacts
<1>4. OnTop(control[Len(control) - 1], Top)
  BY <1>1, <1>2 DEF Stack, Top
<1>5. Passing(control[Len(control) - 1])
  BY <1>1, <1>4, CallerPasses
<1>. QED  BY <1>2, <1>3, <1>5

LEMMA SameBody ==
    ASSUME NEW s, NEW t, NEW i \in Nat, InBody(s, i),
           \A k \in 1..(i - 1) : t[k] = s[k], t[i].node = s[i].node
    PROVE  InBody(t, i)
<1>1. PICK j \in 1..(i - 1) :
        /\ Kind(s[j].node) = "while" /\ s[j].next = 2
        /\ \A k \in (j + 1)..i : Kind(s[k].node) # "function"
  BY DEF InBody
<1>2. \A k \in (j + 1)..i : t[k].node = s[k].node
  BY <1>1
<1>. QED  BY <1>1, <1>2 DEF InBody

LEMMA SurroundedBelow ==
    ASSUME Stack(control), control # <<>>, Surrounded(control)
    PROVE  Surrounded(Below)
<1>1. /\ Len(Below) = Len(control) - 1 /\ Len(control) \in Nat
      /\ \A i \in 1..Len(Below) : Below[i] = control[i]
  BY PopFacts, TopFacts
<1>2. ASSUME NEW i \in 1..Len(Below), Below[i].node \in Looped
      PROVE  InBody(Below, i)
  <2>1. i \in 1..Len(control) /\ i \in Nat /\ \A k \in 1..(i - 1) : k \in 1..Len(Below)
    BY <1>1
  <2>2. InBody(control, i)
    BY <1>1, <1>2, <2>1 DEF Surrounded
  <2>. QED  BY <1>1, <2>1, <2>2, SameBody
<1>. QED  BY <1>2 DEF Surrounded

LEMMA SurroundedMoved ==
    ASSUME Stack(control), control # <<>>, Surrounded(control),
           NEW k \in 1..Reach(Top.node), k \in Nat
    PROVE  Surrounded(Moved(k))
<1>. DEFINE t == Moved(k)
<1>1. /\ Len(t) = Len(control) /\ Len(control) \in Nat
      /\ t[Len(control)] = Entry(Top.node, k)
      /\ \A i \in 1..Len(control) : i # Len(control) => t[i] = control[i]
  BY MoveFacts, TopFacts
<1>. HIDE DEF t
<1>2. \A i \in 1..Len(control) : t[i].node = control[i].node
  BY <1>1 DEF Entry, Top
<1>3. ASSUME NEW i \in 1..Len(t), t[i].node \in Looped
      PROVE  InBody(t, i)
  <2>1. i \in 1..Len(control) /\ i \in Nat
    BY <1>1
  <2>2. \A j \in 1..(i - 1) : t[j] = control[j]
    BY <1>1, <2>1
  <2>3. InBody(control, i)
    BY <1>2, <1>3, <2>1 DEF Surrounded
  <2>. QED  BY <1>2, <2>1, <2>2, <2>3, SameBody
<1>. QED  BY <1>3 DEF Surrounded, t

LEMMA SurroundedPushed ==
    ASSUME WellPlaced, program \in Programs, NEW s, Stack(s), Len(s) > 0, Surrounded(s),
           NEW f \in Node, OnTop(s[Len(s)], f)
    PROVE  Surrounded(Append(s, f))
<1>. DEFINE t == Append(s, f)
            e == s[Len(s)]
<1>1. s \in Seq(Node) /\ Len(s) \in Nat /\ Len(s) \in 1..Len(s)
  BY DEF Stack
<1>2. /\ Len(t) = Len(s) + 1 /\ t[Len(s) + 1] = f
      /\ \A i \in 1..Len(s) : t[i] = s[i]
  BY <1>1
<1>3. e \in Node /\ Valid(e)
  BY <1>1 DEF Stack
<1>. HIDE DEF t
<1>4. ASSUME f.node \in Looped
      PROVE  InBody(t, Len(s) + 1)
  <2>1. Passing(e) /\ Kind(f.node) # "function"
    BY <1>4, CallerPasses, LoopedFacts
  <2>2. CASE Kind(e.node) = "while" /\ e.next = 2
    <3>1. Kind(t[Len(s)].node) = "while" /\ t[Len(s)].next = 2
      BY <1>1, <1>2, <2>2
    <3>2. \A k \in (Len(s) + 1)..(Len(s) + 1) : Kind(t[k].node) # "function"
      BY <1>1, <1>2, <2>1
    <3>3. Len(s) \in 1..(Len(s) + 1 - 1)
      BY <1>1
    <3>. QED  BY <3>1, <3>2, <3>3 DEF InBody
  <2>3. CASE e.node \in Looped
    <3>1. InBody(s, Len(s))
      BY <1>1, <2>3 DEF Surrounded
    <3>2. PICK j \in 1..(Len(s) - 1) :
            /\ Kind(s[j].node) = "while" /\ s[j].next = 2
            /\ \A k \in (j + 1)..Len(s) : Kind(s[k].node) # "function"
      BY <3>1 DEF InBody
    <3>3. Kind(t[j].node) = "while" /\ t[j].next = 2 /\ j \in 1..(Len(s) + 1 - 1)
      BY <1>1, <1>2, <3>2
    <3>4. ASSUME NEW k \in (j + 1)..(Len(s) + 1)
          PROVE  Kind(t[k].node) # "function"
      <4>1. CASE k = Len(s) + 1
        BY <1>2, <2>1, <4>1
      <4>2. CASE k # Len(s) + 1
        <5>1. k \in (j + 1)..Len(s) /\ k \in 1..Len(s)
          BY <1>1, <3>4, <4>2
        <5>. QED  BY <1>2, <3>2, <5>1
      <4>. QED  BY <4>1, <4>2
    <3>. QED  BY <3>3, <3>4 DEF InBody
  <2>. QED  BY <1>3, <2>1, <2>2, <2>3, PassingFacts
<1>5. ASSUME NEW i \in 1..Len(t), t[i].node \in Looped
      PROVE  InBody(t, i)
  <2>1. CASE i = Len(s) + 1
    BY <1>2, <1>4, <1>5, <2>1
  <2>2. CASE i # Len(s) + 1
    <3>1. i \in 1..Len(s) /\ i \in Nat /\ \A k \in 1..(i - 1) : k \in 1..Len(s)
      BY <1>1, <1>2, <2>2
    <3>2. InBody(s, i)
      BY <1>2, <1>5, <3>1 DEF Surrounded
    <3>. QED  BY <1>2, <3>1, <3>2, SameBody
  <2>. QED  BY <2>1, <2>2
<1>. QED  BY <1>5 DEF Surrounded, t
-----------------------------------------------------------------------------
(* Signals, step by step.                                                  *)

LEMMA SignalStep ==
    ASSUME TypeInv', program' = program, NEW t, control' = t, Surrounded(t),
           result' = "false" => Len(t) > 0 /\ Kind(t[Len(t)].node) = "if",
           result' \in {"break", "continue"} => Len(t) > 0 /\ Passing(t[Len(t)]),
           result' = "return" => Len(t) > 0
    PROVE  SignalInv'
<1>1. Surrounded(control)'
  BY DEF Surrounded, InBody, Looped, Kind
<1>2. result' = "false" => Active("if")'
  BY DEF Active, Top, Kind
<1>3. result' \in {"break", "continue"} => (control # <<>> /\ Passing(Top))'
  BY DEF Passing, Child, Looped, Top, Kind, Kids
<1>4. result' = "return" => control' # <<>>
  OBVIOUS
<1>. QED  BY <1>1, <1>2, <1>3, <1>4 DEF SignalInv

LEMMA RunKeepsSignals ==
    ASSUME TypeInv', program' = program, NEW t, control' = t, Surrounded(t),
           result' \notin {"false", "break", "continue", "return"}
    PROVE  SignalInv'
  BY SignalStep

LEMMA PopKeepsSignals ==
    ASSUME WellPlaced, SignalInv, TypeInv', program' = program, control # <<>>,
           control' = Below, result' # "false",
           result' \in {"break", "continue"} => Top.node \in Looped,
           result' = "return" => Kind(Top.node) # "function"
    PROVE  SignalInv'
<1>1. TypeInv /\ Stack(control) /\ Surrounded(control)
  BY DEF SignalInv, TypeInv
<1>2. Surrounded(Below)
  BY <1>1, SurroundedBelow
<1>3. result' \in {"break", "continue"} => Len(Below) > 0 /\ Passing(Below[Len(Below)])
  BY <1>1, PoppedPasses
<1>4. result' = "return" => Len(Below) > 0
  BY <1>1, OnlyMainIsAlone
<1>. QED  BY <1>2, <1>3, <1>4, SignalStep

(* A signal that the top entry does not consume is passed on.              *)
LEMMA PassKeepsSignals ==
    ASSUME WellPlaced, SignalInv, TypeInv', program' = program, control # <<>>,
           control' = Below, result' = result, result # "false",
           ~(Kind(Top.node) = "while" /\ Top.next = 2),
           Kind(Top.node) # "function"
    PROVE  SignalInv'
<1>1. TypeInv /\ Stack(control) /\ program \in Programs
  BY DEF SignalInv, TypeInv
<1>2. Top \in Node /\ Valid(Top)
  BY <1>1, TopFacts
<1>3. ASSUME result \in {"break", "continue"}
      PROVE  Top.node \in Looped
  <2>1. Passing(Top)
    BY <1>3 DEF SignalInv
  <2>. QED  BY <1>1, <1>2, <2>1, PassingFacts
<1>. QED  BY <1>3, PopKeepsSignals

LEMMA BranchKeepsSignals ==
    ASSUME WellPlaced, SignalInv, TypeInv', program' = program,
           control # <<>>, Kind(Top.node) \in {"if", "while"},
           NEW k \in 1..Len(Kids(Top.node)),
           control' = Append(Moved(k), Entry(Kids(Top.node)[k], 1)), result' = "run"
    PROVE  SignalInv'
<1>. DEFINE f == Entry(Kids(Top.node)[k], 1)
            s == Moved(k)
<1>1. TypeInv /\ Stack(control) /\ program \in Programs /\ Surrounded(control)
  BY DEF SignalInv, TypeInv
<1>2. /\ Top.node \in DOMAIN program /\ Len(control) \in Nat /\ Len(control) > 0
  BY <1>1, TopFacts
<1>3. k \in 1..Reach(Top.node) /\ k \in Nat
  BY <1>1, <1>2, ProgramFacts DEF Reach
<1>4. Stack(s) /\ Len(s) = Len(control) /\ s[Len(s)] = Entry(Top.node, k)
  BY <1>1, <1>3, MoveFacts
<1>5. Surrounded(s)
  BY <1>1, <1>3, SurroundedMoved
<1>6. f \in Node /\ f.node = Kids(Top.node)[k]
  BY <1>1, <1>2, KidFacts DEF Entry, Node
<1>. HIDE DEF f, s
<1>7. OnTop(s[Len(s)], f)
  BY <1>4, <1>6 DEF OnTop, Child, Entry
<1>8. Surrounded(Append(s, f)) /\ control' = Append(s, f)
  <2>1. Surrounded(Append(s, f))
    BY <1>1, <1>2, <1>4, <1>5, <1>6, <1>7, SurroundedPushed
  <2>. QED  BY <2>1 DEF f, s
<1>. QED  BY <1>8, RunKeepsSignals

LEMMA EnterKeepsSignals ==
    ASSUME WellPlaced, SignalInv, TypeInv', program' = program, result' = "run",
           NEW kind, BlockRuns(kind), NEW n \in DOMAIN program,
           \/ kind \in {"if", "while"} /\ n = Statement
           \/ kind = "call" /\ n = 1,
           control' = Advanced \o <<Entry(n, 1), Entry(Kids(n)[1], 1)>>
    PROVE  SignalInv'
<1>. DEFINE f == Entry(n, 1)
            g == Entry(Kids(n)[1], 1)
            s == Advanced
            u == Append(s, f)
<1>1. TypeInv /\ Stack(control) /\ program \in Programs /\ Surrounded(control)
  BY DEF SignalInv, TypeInv
<1>2. /\ control # <<>> /\ Stack(s) /\ Len(s) > 0 /\ s = Moved(Top.next + 1)
      /\ Kind(Statement) = kind /\ OnTop(s[Len(s)], f)
      /\ Kind(Top.node) = "block" /\ Top.next \in 1..Len(Kids(Top.node))
      /\ Top.node \in DOMAIN program
  BY <1>1, BlockFacts DEF Entry
<1>3. Kind(n) \in {"function", "if", "while"}
  BY <1>1, <1>2, ProgramFacts
<1>4. f \in Node /\ Valid(f) /\ g \in Node /\ Valid(g) /\ OnTop(f, g)
  BY <1>1, <1>3, FirstBlock
<1>5. Top.next + 1 \in 1..Reach(Top.node) /\ Top.next + 1 \in Nat
  <2>1. Len(Kids(Top.node)) \in Nat
    BY <1>1, <1>2, ProgramFacts
  <2>. QED  BY <1>2, <2>1 DEF Reach
<1>6. Surrounded(s)
  BY <1>1, <1>2, <1>5, SurroundedMoved
<1>7. control' = s \o <<f, g>>
  OBVIOUS
<1>. HIDE DEF f, g, s
<1>8. s \in Seq(Node)
  BY <1>2 DEF Stack
<1>9. Surrounded(u)
  BY <1>1, <1>2, <1>4, <1>6, SurroundedPushed
<1>10. Stack(u) /\ Len(u) = Len(s) + 1 /\ u[Len(s) + 1] = f
  BY <1>2, <1>4, PushFacts
<1>. HIDE DEF u
<1>11. Len(u) > 0 /\ OnTop(u[Len(u)], g)
  <2>1. Len(s) \in Nat
    BY <1>8
  <2>. QED  BY <1>4, <1>10, <2>1
<1>12. Surrounded(Append(u, g))
  BY <1>1, <1>4, <1>9, <1>10, <1>11, SurroundedPushed
<1>13. control' = Append(u, g)
  <2>1. s \o <<f, g>> = Append(Append(s, f), g)
    BY <1>4, <1>8, ConcatFacts
  <2>. QED  BY <1>7, <2>1 DEF u
<1>. QED  BY <1>12, <1>13, RunKeepsSignals

LEMMA BlocksKeepSignals ==
    ASSUME WellPlaced, SignalInv, TypeInv',
           Succeed \/ Fail \/ Call \/ EnterIf \/ EnterWhile \/ BlockEnds \/ BlockReceives
    PROVE  SignalInv'
<1>1. TypeInv /\ Stack(control) /\ program \in Programs /\ Surrounded(control)
  BY DEF SignalInv, TypeInv
<1>2. CASE Succeed
  <2>1. /\ BlockRuns("command") /\ control' = Advanced /\ program' = program
        /\ result' = "run"
    BY <1>2 DEF Succeed, BlockRuns
  <2>2. /\ control # <<>> /\ Advanced = Moved(Top.next + 1) /\ Kind(Top.node) = "block"
        /\ Top.next \in 1..Len(Kids(Top.node)) /\ Top.node \in DOMAIN program
    BY <1>1, <2>1, BlockFacts
  <2>3. Top.next + 1 \in 1..Reach(Top.node) /\ Top.next + 1 \in Nat
    <3>1. Len(Kids(Top.node)) \in Nat
      BY <1>1, <2>2, ProgramFacts
    <3>. QED  BY <2>2, <3>1 DEF Reach
  <2>4. Surrounded(Advanced)
    BY <1>1, <2>2, <2>3, SurroundedMoved
  <2>. QED  BY <2>1, <2>4, RunKeepsSignals
<1>3. CASE Fail \/ BlockEnds
  <2>1. /\ control # <<>> /\ control' = Below /\ program' = program
        /\ result' \in {"error", "normal"}
    BY <1>3 DEF Fail, BlockEnds, BlockRuns, Active
  <2>. QED  BY <2>1, PopKeepsSignals
<1>4. CASE Call
  <2>1. /\ BlockRuns("call") /\ program' = program /\ result' = "run"
        /\ control' = Advanced \o <<Entry(1, 1), Entry(Kids(1)[1], 1)>>
    BY <1>4 DEF Call, BlockRuns
  <2>2. 1 \in DOMAIN program
    BY <1>1, ProgramFacts
  <2>. QED  BY <2>1, <2>2, EnterKeepsSignals
<1>5. CASE EnterIf \/ EnterWhile
  <2>1. PICK kind \in {"if", "while"} :
          /\ BlockRuns(kind) /\ program' = program /\ result' = "run"
          /\ control' = Advanced \o <<Entry(Statement, 1), Entry(Kids(Statement)[1], 1)>>
    BY <1>5 DEF EnterIf, EnterWhile, BlockRuns
  <2>2. Statement \in DOMAIN program
    BY <1>1, <2>1, BlockFacts
  <2>. QED  BY <2>1, <2>2, EnterKeepsSignals
<1>6. CASE BlockReceives
  <2>1. /\ control # <<>> /\ Kind(Top.node) = "block" /\ program' = program
    BY <1>6 DEF BlockReceives, Active
  <2>2. CASE result = "normal"
    BY <1>1, <1>6, <2>1, <2>2, RunKeepsSignals DEF BlockReceives
  <2>3. CASE result # "normal"
    <3>1. control' = Below /\ result' = result
      BY <1>6, <2>3 DEF BlockReceives
    <3>2. result # "false"
      BY <2>1 DEF SignalInv, Active
    <3>. QED  BY <2>1, <3>1, <3>2, PassKeepsSignals
  <2>. QED  BY <2>2, <2>3
<1>. QED  BY <1>2, <1>3, <1>4, <1>5, <1>6

LEMMA SignalIsSent ==
    ASSUME WellPlaced, SignalInv, TypeInv', NEW kind \in {"break", "continue", "return"},
           Signal(kind)
    PROVE  SignalInv'
<1>1. TypeInv /\ Stack(control) /\ program \in Programs
  BY DEF SignalInv, TypeInv
<1>2. /\ BlockRuns(kind) /\ control' = Below /\ program' = program /\ result' = kind
  BY DEF Signal
<1>3. /\ control # <<>> /\ Kind(Top.node) = "block" /\ Kind(Statement) = kind
      /\ Top.node \in DOMAIN program /\ Statement \in DOMAIN program
      /\ Top.next \in 1..Len(Kids(Top.node)) /\ Statement = Kids(Top.node)[Top.next]
  BY <1>1, <1>2, BlockFacts
<1>4. kind \in {"break", "continue"} => Top.node \in Looped
  BY <1>1, <1>3, LoopedFacts
<1>. QED  BY <1>2, <1>3, <1>4, PopKeepsSignals

LEMMA ConstructsKeepSignals ==
    ASSUME WellPlaced, SignalInv, TypeInv', NEW b \in BOOLEAN,
           \/ IfTests(b) \/ WhileTests(b) \/ IfTestFails \/ WhileTestFails
           \/ IfSkips \/ IfReceives \/ WhileConditionEnds
    PROVE  SignalInv'
<1>1. TypeInv /\ Stack(control) /\ Surrounded(control) /\ program \in Programs
  BY DEF SignalInv, TypeInv
<1>2. CASE IfTests(b) \/ WhileTests(b)
  <2>1. Active("if") \/ Active("while")
    BY <1>2 DEF IfTests, WhileTests
  <2>2. /\ control # <<>> /\ Kind(Top.node) \in {"if", "while"} /\ program' = program
        /\ result = "normal"
    BY <1>2 DEF IfTests, WhileTests, Active
  <2>3. CASE b
    <3>1. Top.next < Len(Kids(Top.node))
      <4>1. CASE IfTests(b)
        BY <4>1 DEF IfTests, InCondition
      <4>2. CASE WhileTests(b)
        BY <1>1, <2>1, <4>2, ConstructFacts, PartFacts DEF WhileTests, Active
      <4>. QED  BY <1>2, <4>1, <4>2
    <3>2. /\ control' = Advanced \o <<Entry(Kids(Top.node)[Top.next + 1], 1)>>
          /\ result' = "run"
      <4>1. CASE IfTests(b)
        BY <2>3, <4>1 DEF IfTests
      <4>2. CASE WhileTests(b)
        <5>1. Top.next + 1 = 2 /\ control' = Advanced \o <<Entry(Kids(Top.node)[2], 1)>>
          BY <2>3, <4>2 DEF WhileTests
        <5>. QED  BY <2>3, <4>2, <5>1 DEF WhileTests
      <4>. QED  BY <1>2, <4>1, <4>2
    <3>. QED  BY <1>1, <2>1, <2>2, <3>1, <3>2, AdvanceToBranch, BranchKeepsSignals
  <2>4. CASE ~b /\ IfTests(b)
    <3>1. control' = control /\ result' = "false" /\ Active("if")
      BY <2>4 DEF IfTests
    <3>2. Len(control) > 0 /\ Kind(control[Len(control)].node) = "if"
      BY <1>1, <3>1, TopFacts DEF Active, Top
    <3>. DEFINE t == control
    <3>3. control' = t /\ Surrounded(t) /\ Len(t) > 0 /\ Kind(t[Len(t)].node) = "if"
      BY <1>1, <3>1, <3>2
    <3>. HIDE DEF t
    <3>. QED  BY <2>2, <3>1, <3>3, SignalStep
  <2>5. CASE ~b /\ WhileTests(b)
    <3>1. control' = Below /\ result' = "normal"
      BY <2>2, <2>5 DEF WhileTests
    <3>. QED  BY <2>2, <3>1, PopKeepsSignals
  <2>. QED  BY <1>2, <2>3, <2>4, <2>5
<1>3. CASE IfTestFails \/ WhileTestFails
  <2>1. /\ control # <<>> /\ control' = Below /\ program' = program /\ result' = "error"
    BY <1>3 DEF IfTestFails, WhileTestFails, Active
  <2>. QED  BY <2>1, PopKeepsSignals
<1>4. CASE IfSkips
  <2>1. /\ control # <<>> /\ Kind(Top.node) = "if" /\ Active("if") /\ program' = program
    BY <1>4 DEF IfSkips, Active
  <2>2. CASE Top.next + 2 <= Len(Kids(Top.node))
    <3>. DEFINE k == Top.next + 2
    <3>1. /\ control' = Below \o <<Entry(Top.node, k), Entry(Kids(Top.node)[k], 1)>>
          /\ result' = "run"
      BY <1>4, <2>2 DEF IfSkips
    <3>2. k \in 1..Len(Kids(Top.node))
      BY <1>1, <2>1, <2>2, ConstructFacts
    <3>. HIDE DEF k
    <3>. QED  BY <1>1, <2>1, <3>1, <3>2, MoveToBranch, BranchKeepsSignals
  <2>3. CASE ~(Top.next + 2 <= Len(Kids(Top.node)))
    <3>1. control' = Below /\ result' = "normal"
      BY <1>4, <2>3 DEF IfSkips
    <3>. QED  BY <2>1, <3>1, PopKeepsSignals
  <2>. QED  BY <2>2, <2>3
<1>5. CASE IfReceives \/ WhileConditionEnds
  <2>1. /\ control # <<>> /\ Kind(Top.node) \in {"if", "while"} /\ control' = Below
        /\ program' = program /\ result' = result
        /\ ~(Kind(Top.node) = "while" /\ Top.next = 2)
    BY <1>5 DEF IfReceives, WhileConditionEnds, Active
  <2>2. result # "false"
    <3>1. CASE IfReceives
      BY <3>1 DEF IfReceives
    <3>2. CASE WhileConditionEnds
      BY <3>2 DEF WhileConditionEnds, SignalInv, Active
    <3>. QED  BY <1>5, <3>1, <3>2
  <2>. QED  BY <2>1, <2>2, PassKeepsSignals
<1>. QED  BY <1>2, <1>3, <1>4, <1>5

LEMMA LoopsKeepSignals ==
    ASSUME WellPlaced, SignalInv, TypeInv', WhileBodyEnds
    PROVE  SignalInv'
<1>1. TypeInv /\ Stack(control) /\ program \in Programs
  BY DEF SignalInv, TypeInv
<1>2. /\ control # <<>> /\ Kind(Top.node) = "while" /\ Active("while") /\ program' = program
  BY DEF WhileBodyEnds, Active
<1>3. CASE result \in {"break", "return", "error"}
  <2>1. /\ control' = Below /\ result' \notin {"false", "break", "continue"}
        /\ Kind(Top.node) # "function"
    BY <1>2, <1>3 DEF WhileBodyEnds
  <2>. QED  BY <1>2, <2>1, PopKeepsSignals
<1>4. CASE result \notin {"break", "return", "error"}
  <2>1. /\ control' = Below \o <<Entry(Top.node, 1), Entry(Kids(Top.node)[1], 1)>>
        /\ result' = "run"
    BY <1>4 DEF WhileBodyEnds
  <2>2. 1 \in 1..Len(Kids(Top.node))
    BY <1>1, <1>2, ConstructFacts
  <2>. QED  BY <1>1, <1>2, <2>1, <2>2, MoveToBranch, BranchKeepsSignals
<1>. QED  BY <1>3, <1>4

(* No Break or Continue arrives at a function, and a Return ends there.    *)
LEMMA FunctionsKeepSignals ==
    ASSUME WellPlaced, SignalInv, TypeInv', FunctionReceives
    PROVE  SignalInv'
<1>1. TypeInv /\ Stack(control) /\ program \in Programs
  BY DEF SignalInv, TypeInv
<1>2. /\ control # <<>> /\ Kind(Top.node) = "function" /\ control' = Below
      /\ program' = program /\ result' = IF result = "return" THEN "normal" ELSE result
  BY DEF FunctionReceives, Active
<1>3. Top \in Node /\ Valid(Top)
  BY <1>1, <1>2, TopFacts
<1>4. result \notin {"break", "continue"}
  <2>. SUFFICES ASSUME result \in {"break", "continue"} PROVE FALSE
    OBVIOUS
  <2>1. Passing(Top)
    BY DEF SignalInv
  <2>2. Top.node \in Looped
    BY <1>1, <1>2, <1>3, <2>1, PassingFacts
  <2>. QED  BY <1>1, <1>2, <2>2, LoopedFacts
<1>5. result # "false"
  BY <1>2 DEF SignalInv, Active
<1>6. result' \notin {"false", "break", "continue", "return"}
  BY <1>2, <1>4, <1>5
<1>. QED  BY <1>2, <1>6, PopKeepsSignals

LEMMA StepKeepsSignals ==
    ASSUME WellPlaced, SignalInv, [Next]_vars, ~Throw
    PROVE  SignalInv'
<1>1. TypeInv'
  BY StepKeepsType DEF SignalInv
<1>2. CASE UNCHANGED vars
  <2>. DEFINE t == control
  <2>1. /\ program' = program /\ result' = result /\ control' = t /\ Surrounded(t)
    BY <1>2 DEF vars, SignalInv
  <2>2. Len(control) \in Nat
    BY DEF SignalInv, TypeInv, Stack
  <2>3. result = "false" => Len(t) > 0 /\ Kind(t[Len(t)].node) = "if"
    BY <2>2 DEF SignalInv, Active, Top, TypeInv, Stack
  <2>4. result \in {"break", "continue"} => Len(t) > 0 /\ Passing(t[Len(t)])
    BY <2>2 DEF SignalInv, Top, TypeInv, Stack
  <2>5. result = "return" => Len(t) > 0
    BY <2>2 DEF SignalInv, TypeInv, Stack
  <2>. HIDE DEF t
  <2>. QED  BY <1>1, <2>1, <2>3, <2>4, <2>5, SignalStep
<1>3. CASE \E kind \in {"break", "continue", "return"} : Signal(kind)
  BY <1>1, <1>3, SignalIsSent
<1>4. CASE Succeed \/ Fail \/ Call \/ EnterIf \/ EnterWhile \/ BlockEnds \/ BlockReceives
  BY <1>1, <1>4, BlocksKeepSignals
<1>5. CASE \E b \in BOOLEAN : IfTests(b) \/ WhileTests(b)
  BY <1>1, <1>5, ConstructsKeepSignals
<1>6. CASE IfTestFails \/ IfSkips \/ IfReceives \/ WhileTestFails \/ WhileConditionEnds
  BY <1>1, <1>6, ConstructsKeepSignals
<1>7. CASE WhileBodyEnds \/ FunctionReceives
  BY <1>1, <1>7, LoopsKeepSignals, FunctionsKeepSignals
<1>. QED  BY <1>2, <1>3, <1>4, <1>5, <1>6, <1>7 DEF Next

LEMMA InitSignals ==
    ASSUME WellPlaced, Init
    PROVE  SignalInv
<1>. DEFINE f == Entry(1, 1)
            g == Entry(Kids(1)[1], 1)
<1>1. TypeInv /\ result = "run" /\ control = <<f, g>> /\ program \in Programs
  BY InitType DEF Init
<1>2. 1 \in DOMAIN program /\ Kind(1) = "function" /\ Len(Kids(1)) = 1
  BY <1>1, ProgramFacts, PartFacts
<1>3. Kids(1)[1] \notin Looped /\ 1 \notin Looped
  BY <1>1, <1>2, LoopedFacts
<1>4. f.node = 1 /\ g.node = Kids(1)[1]
  BY DEF Entry
<1>. HIDE DEF f, g
<1>5. \A i \in 1..Len(control) : control[i].node \notin Looped
  <2>1. \A i \in 1..Len(control) : i = 1 \/ i = 2
    BY <1>1
  <2>. QED  BY <1>1, <1>3, <1>4, <2>1
<1>. QED  BY <1>1, <1>5 DEF SignalInv, Surrounded

(* If Break and Continue are only in bodies of loops, as the bytecode's    *)
(* compiler puts them, then each is consumed by a loop of the function it  *)
(* is in; kConditionFalse is consumed by its if, and a Return ends its own *)
(* function, through any nesting of constructs and calls.                  *)
THEOREM SignalsReachTheirTargets == WellPlaced => (Spec => []SignalsAreConsumed)
<1>. SUFFICES ASSUME WellPlaced PROVE Spec => []SignalsAreConsumed
  OBVIOUS
<1>1. Init => SignalInv
  BY InitSignals
<1>2. (SignalInv \/ Thrown) /\ [Next]_vars => (SignalInv \/ Thrown)'
  <2>1. SignalInv => TypeInv
    BY DEF SignalInv
  <2>. QED  BY <2>1, StepKeepsSignals, ThrowLeavesFrames, ThrownIsFinal
<1>3. Thrown => SignalsAreConsumed
  BY DEF Thrown, SignalsAreConsumed
<1>4. SignalInv => SignalsAreConsumed
  <2>. SUFFICES ASSUME SignalInv, result \in {"break", "continue"} PROVE InLoop
    BY DEF SignalInv, SignalsAreConsumed
  <2>1. TypeInv /\ Stack(control) /\ program \in Programs /\ control # <<>> /\ Passing(Top)
    BY DEF SignalInv, TypeInv
  <2>2. /\ Top \in Node /\ Valid(Top) /\ Len(control) \in Nat
        /\ Len(control) \in 1..Len(control) /\ DOMAIN control = 1..Len(control)
    BY <2>1, TopFacts DEF Stack
  <2>3. CASE Kind(Top.node) = "while" /\ Top.next = 2
    <3>1. \A j \in (Len(control) + 1)..Len(control) : FALSE
      BY <2>2
    <3>. QED  BY <2>2, <2>3, <3>1 DEF InLoop, Top
  <2>4. CASE Top.node \in Looped
    <3>1. InBody(control, Len(control))
      BY <2>2, <2>4 DEF SignalInv, Surrounded, Top
    <3>2. PICK j \in 1..(Len(control) - 1) :
            /\ Kind(control[j].node) = "while" /\ control[j].next = 2
            /\ \A k \in (j + 1)..Len(control) : Kind(control[k].node) # "function"
      BY <3>1 DEF InBody
    <3>3. j \in DOMAIN control
      BY <2>2, <3>2
    <3>. QED  BY <3>2, <3>3 DEF InLoop
  <2>. QED  BY <2>1, <2>2, <2>3, <2>4, PassingFacts
<1>. QED  BY <1>1, <1>2, <1>3, <1>4, PTL DEF Spec
=============================================================================
