---------------------------- MODULE ExecutionTree ----------------------------
(***************************************************************************)
(* The interpreter of the control-flow tree: Block, ConditionalExecution,  *)
(* IfMultibranch, WhileExecution and Function, each of which executes its  *)
(* children by a C++ call and interprets the ExecutionResult they return.  *)
(*                                                                         *)
(* The C++ call stack is explicit here: `control` holds one entry per      *)
(* active Execute, and `result` what the callee on top just returned, or   *)
(* "run" while the top entry is about to execute its next child.           *)
(***************************************************************************)
EXTENDS Naturals, Sequences, FiniteSets

CONSTANTS
    Programs,   \* trees, as sequences of nodes; node 1 is the function
    MaxCalls    \* bound: nested calls of the function

VARIABLES
    program,  \* the tree being executed
    control,  \* active Execute calls, outermost first
    frames,   \* RuntimeMemory::stack_frames from main's on, as the call that
              \* each was pushed for: main's for node 1
    result,   \* ExecutionResult being returned, "error", "exception", or "run"
    last      \* observation: the command or test executed last

vars == <<program, control, frames, result, last>>

Kinds == {"function", "block", "if", "while", "command", "break", "continue",
          "return", "call"}
Signals == {"normal", "break", "continue", "return", "false", "error"}

Kind(n) == program[n].kind
Kids(n) == program[n].kids

(* What the parser builds: one function, of blocks, of statements of which *)
(* if and while have blocks again.                                         *)
Tree(p) ==
    /\ p \in Seq([kind : Kinds, kids : Seq(Nat)]) /\ p # <<>>
    /\ \A n \in DOMAIN p :
         LET kids == p[n].kids
             Each(S) == \A i \in DOMAIN kids : p[kids[i]].kind \in S
         IN /\ \A i \in DOMAIN kids : kids[i] \in DOMAIN p
            /\ p[n].kind = "function" <=> n = 1
            /\ p[n].kind \in {"function", "if", "while"} => Each({"block"})
            /\ p[n].kind = "block" => Each(Kinds \ {"function", "block"})
            /\ p[n].kind = "function" => Len(kids) = 1
            /\ p[n].kind = "while" => Len(kids) = 2
            /\ p[n].kind = "if" => Len(kids) >= 2

ASSUME ProgramAssumption == \A p \in Programs : Tree(p)

(* The nodes inside of the bodies of loops, if Break and Continue are only *)
(* there.                                                                  *)
InLoops(p, nodes) ==
    \A n \in DOMAIN p :
        /\ p[n].kind \in {"break", "continue"} => n \in nodes
        /\ \A i \in DOMAIN p[n].kids :
             p[n].kids[i] \in nodes => n \in nodes \/ (p[n].kind = "while" /\ i = 2)
    /\ 1 \notin nodes

(* An entry of the call stack: the node, and the position in its children  *)
(* of the one being executed (of a block: the next one).                   *)
Entry(n, i) == [node |-> n, next |-> i]

Top == control[Len(control)]
Below == SubSeq(control, 1, Len(control) - 1)
Advanced == [control EXCEPT ![Len(control)].next = @ + 1]
Active(kind) == control # <<>> /\ Kind(Top.node) = kind

(* The calls that led to the current function, outermost first.            *)
Callers == SubSeq(frames, 2, Len(frames))

Observe(n, outcome) == last' = [node |-> n, outcome |-> outcome, callers |-> Callers]
-----------------------------------------------------------------------------
(* Block::Execute *)

(* The block executes its next statement, of the given kind.               *)
BlockRuns(kind) ==
    /\ result = "run"
    /\ Active("block")
    /\ Top.next <= Len(Kids(Top.node))
    /\ Kind(Kids(Top.node)[Top.next]) = kind

Statement == Kids(Top.node)[Top.next]

(* A command that returns kNormal, and one that fails; a call fails too if *)
(* it finds no function or not as many arguments.                          *)
Succeed ==
    /\ BlockRuns("command")
    /\ control' = Advanced
    /\ Observe(Statement, "normal")
    /\ UNCHANGED <<program, frames, result>>

Fail ==
    /\ BlockRuns("command") \/ BlockRuns("call")
    /\ control' = Below
    /\ result' = "error"
    /\ Observe(Statement, "error")
    /\ UNCHANGED <<program, frames>>

(* A command that throws: no construct on the way out catches, and no      *)
(* Function::Execute pops its frame.                                       *)
Throw ==
    /\ BlockRuns("command")
    /\ control' = <<>>
    /\ result' = "exception"
    /\ Observe(Statement, "exception")
    /\ UNCHANGED <<program, frames>>

(* Break, Continue and Return: the block returns at once.                  *)
Signal(kind) ==
    /\ BlockRuns(kind)
    /\ control' = Below
    /\ result' = kind
    /\ Observe(Statement, kind)
    /\ UNCHANGED <<program, frames>>

(* Call: Function::Execute pushes a frame and executes the body.           *)
Call ==
    /\ BlockRuns("call")
    /\ Len(Callers) < MaxCalls
    /\ control' = Advanced \o <<Entry(1, 1), Entry(Kids(1)[1], 1)>>
    /\ frames' = Append(frames, Statement)
    /\ Observe(Statement, "call")
    /\ UNCHANGED <<program, result>>

EnterIf ==
    /\ BlockRuns("if")
    /\ control' = Advanced \o <<Entry(Statement, 1), Entry(Kids(Statement)[1], 1)>>
    /\ UNCHANGED <<program, frames, result, last>>

EnterWhile ==
    /\ BlockRuns("while")
    /\ control' = Advanced \o <<Entry(Statement, 1), Entry(Kids(Statement)[1], 1)>>
    /\ UNCHANGED <<program, frames, result, last>>

BlockEnds ==
    /\ result = "run"
    /\ Active("block")
    /\ Top.next > Len(Kids(Top.node))
    /\ control' = Below
    /\ result' = "normal"
    /\ UNCHANGED <<program, frames, last>>

(* Seeded faults, here and below under names with an underscore: what a    *)
(* plausible mistake would make of the definition that follows them.       *)
BlockReceives_AdvancesAgain ==
    /\ result # "run"
    /\ Active("block")
    /\ IF result = "normal"
       THEN result' = "run" /\ control' = Advanced
       ELSE control' = Below /\ UNCHANGED result
    /\ UNCHANGED <<program, frames, last>>

BlockReceives ==
    /\ result # "run"
    /\ Active("block")
    /\ IF result = "normal"
       THEN result' = "run" /\ UNCHANGED control
       ELSE control' = Below /\ UNCHANGED result
    /\ UNCHANGED <<program, frames, last>>
-----------------------------------------------------------------------------
(* IfMultibranch::Execute and, for each branch, ConditionalExecution.      *)
(* Children of an if: condition, block, condition, block, ... [else].      *)

(* A condition is being executed: the child is odd, and not the else.      *)
InCondition == Top.next % 2 = 1 /\ Top.next < Len(Kids(Top.node))

Test(b) == Observe(Kids(Top.node)[Top.next], IF b THEN "true" ELSE "false")

IfTests(b) ==
    /\ Active("if") /\ InCondition
    /\ result = "normal"
    /\ Test(b)
    /\ IF b
       THEN /\ control' = Advanced \o <<Entry(Kids(Top.node)[Top.next + 1], 1)>>
            /\ result' = "run"
       ELSE result' = "false" /\ UNCHANGED control
    /\ UNCHANGED <<program, frames>>

(* The condition left no boolean on the stack.                             *)
IfTestFails ==
    /\ Active("if") /\ InCondition
    /\ result = "normal"
    /\ control' = Below
    /\ result' = "error"
    /\ Observe(Kids(Top.node)[Top.next], "error")
    /\ UNCHANGED <<program, frames>>

(* kConditionFalse: the next branch, the else block, or nothing.           *)
IfSkips ==
    /\ Active("if")
    /\ result = "false"
    /\ IF Top.next + 2 <= Len(Kids(Top.node))
       THEN /\ control' = Below \o <<Entry(Top.node, Top.next + 2),
                                     Entry(Kids(Top.node)[Top.next + 2], 1)>>
            /\ result' = "run"
       ELSE control' = Below /\ result' = "normal"
    /\ UNCHANGED <<program, frames, last>>

(* Any other result of a branch or of the else block is the result.        *)
IfReceives ==
    /\ Active("if")
    /\ result \in Signals \ {"false"}
    /\ ~(InCondition /\ result = "normal")
    /\ control' = Below
    /\ UNCHANGED <<program, frames, result, last>>
-----------------------------------------------------------------------------
(* WhileExecution::Execute.  Children of a while: condition, body.         *)

WhileTests(b) ==
    /\ Active("while") /\ Top.next = 1
    /\ result = "normal"
    /\ Test(b)
    /\ IF b
       THEN /\ control' = Advanced \o <<Entry(Kids(Top.node)[2], 1)>>
            /\ result' = "run"
       ELSE control' = Below /\ UNCHANGED result
    /\ UNCHANGED <<program, frames>>

WhileTestFails ==
    /\ Active("while") /\ Top.next = 1
    /\ result = "normal"
    /\ control' = Below
    /\ result' = "error"
    /\ Observe(Kids(Top.node)[1], "error")
    /\ UNCHANGED <<program, frames>>

(* A condition that returns anything but kNormal ends the loop with it.    *)
WhileConditionEnds ==
    /\ Active("while") /\ Top.next = 1
    /\ result \in Signals \ {"normal"}
    /\ control' = Below
    /\ UNCHANGED <<program, frames, result, last>>

WhileBodyEnds_ContinueLeaves ==
    /\ Active("while") /\ Top.next = 2
    /\ result # "run"
    /\ IF result \in {"break", "continue"}
       THEN control' = Below /\ result' = "normal"
       ELSE IF result \in {"return", "error"}
       THEN control' = Below /\ UNCHANGED result
       ELSE /\ control' = Below \o <<Entry(Top.node, 1), Entry(Kids(Top.node)[1], 1)>>
            /\ result' = "run"
    /\ UNCHANGED <<program, frames, last>>

WhileBodyEnds ==
    /\ Active("while") /\ Top.next = 2
    /\ result # "run"
    /\ IF result = "break"
       THEN control' = Below /\ result' = "normal"
       ELSE IF result \in {"return", "error"}
       THEN control' = Below /\ UNCHANGED result
       ELSE /\ control' = Below \o <<Entry(Top.node, 1), Entry(Kids(Top.node)[1], 1)>>
            /\ result' = "run"
    /\ UNCHANGED <<program, frames, last>>
-----------------------------------------------------------------------------
PopFrame == frames' = SubSeq(frames, 1, Len(frames) - 1)

FunctionReceives_PassesReturn ==
    /\ Active("function")
    /\ result # "run"
    /\ control' = Below
    /\ PopFrame
    /\ UNCHANGED <<program, result, last>>

FunctionReceives_KeepsFrame ==
    /\ Active("function")
    /\ result # "run"
    /\ control' = Below
    /\ IF result = "error" THEN UNCHANGED frames ELSE PopFrame
    /\ result' = IF result = "return" THEN "normal" ELSE result
    /\ UNCHANGED <<program, last>>

(* Function::Execute pops its frame; only kReturn becomes kNormal.         *)
FunctionReceives ==
    /\ Active("function")
    /\ result # "run"
    /\ control' = Below
    /\ PopFrame
    /\ result' = IF result = "return" THEN "normal" ELSE result
    /\ UNCHANGED <<program, last>>

Init ==
    /\ program \in Programs
    /\ control = <<Entry(1, 1), Entry(Kids(1)[1], 1)>>
    /\ frames = <<1>>
    /\ result = "run"
    /\ last = [node |-> 1, outcome |-> "call", callers |-> <<>>]

Next ==
    \/ Succeed \/ Fail \/ Throw \/ Call \/ EnterIf \/ EnterWhile \/ BlockEnds \/ BlockReceives
    \/ \E kind \in {"break", "continue", "return"} : Signal(kind)
    \/ \E b \in BOOLEAN : IfTests(b) \/ WhileTests(b)
    \/ IfTestFails \/ IfSkips \/ IfReceives
    \/ WhileTestFails \/ WhileConditionEnds \/ WhileBodyEnds
    \/ FunctionReceives

Spec == Init /\ [][Next]_vars
-----------------------------------------------------------------------------
(* Type invariant.                                                         *)
TypeOK ==
    /\ control \in Seq([node : DOMAIN program, next : Nat])
    /\ \A i \in DOMAIN control :
          LET e == control[i]
          IN e.next \in 1..(Len(Kids(e.node)) + IF Kind(e.node) = "block" THEN 1 ELSE 0)
    /\ frames \in Seq(DOMAIN program)
    /\ result \in Signals \cup {"run", "exception"}
    /\ last \in [node : DOMAIN program,
                 outcome : Signals \cup {"call", "true", "exception"},
                 callers : Seq(DOMAIN program)]

(* The loop that a Break or Continue in flight belongs to: the innermost   *)
(* while whose body is being executed, and in the current function.        *)
InLoop ==
    \E i \in DOMAIN control :
        /\ Kind(control[i].node) = "while" /\ control[i].next = 2
        /\ \A j \in (i + 1)..Len(control) : Kind(control[j].node) # "function"

(* Every signal in flight still has the construct above it that consumes   *)
(* it: kConditionFalse its if, Break and Continue a loop of the function   *)
(* they are in -- a signal that passes its function would break a loop of  *)
(* the caller -- and kReturn never leaves its function.                    *)
SignalsAreConsumed ==
    /\ result = "false" => Active("if")
    /\ result \in {"break", "continue"} => InLoop
    /\ result = "return" => control # <<>>

(* Every frame belongs to a function that is still executing, and each of  *)
(* them has its own: when a function falls off its end, returns out of any *)
(* nesting or passes an error on, its frame goes with it.  An exception    *)
(* leaves the frames of all that were executing when it was thrown.        *)
FramesMatchCalls ==
    Len(frames) = IF result = "exception" THEN 1 + Len(last.callers)
                  ELSE Cardinality({i \in DOMAIN control : Kind(control[i].node) = "function"})
=============================================================================
