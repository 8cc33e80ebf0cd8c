--------------------------- MODULE StructuredProgram ---------------------------
(***************************************************************************)
(* What a structured program means, with no interpreter in sight: after    *)
(* each command or test, which one is next.  The order is defined by jumps *)
(* on the tree: a Break goes to what follows the innermost loop around it, *)
(* a Continue to that loop's condition, a Return to what follows the call. *)
(*                                                                         *)
(* ExecutionTree is shown to execute commands and tests in this order.     *)
(***************************************************************************)
EXTENDS Naturals, Sequences

VARIABLES
    program,  \* a tree: a sequence of nodes with a kind and children
    last      \* the event executed last: a command or a test, how it went,
              \* and the calls it happened in

Kind(n) == program[n].kind
Kids(n) == program[n].kids

Parent(n) == CHOOSE m \in DOMAIN program : \E i \in DOMAIN Kids(m) : Kids(m)[i] = n
Place(n) == CHOOSE i \in DOMAIN Kids(Parent(n)) : Kids(Parent(n))[i] = n

(* A block is a condition if it is the first child of a while, or an odd   *)
(* child of an if that is not its last one.                                *)
IsCondition(b) ==
    LET p == Parent(b) IN
    \/ Kind(p) = "while" /\ Place(b) = 1
    \/ Kind(p) = "if" /\ Place(b) % 2 = 1 /\ Place(b) < Len(Kids(p))

IsBody(b) == Kind(Parent(b)) = "while" /\ Place(b) = 2

RECURSIVE LoopAround(_)
LoopAround(n) == IF IsBody(n) THEN Parent(n) ELSE LoopAround(Parent(n))

(* The event that comes first when statement n starts, when block b goes   *)
(* on with its i-th statement, and after statement n, within `callers`.    *)
Event(n, callers) == [node |-> n, callers |-> callers]
End == [node |-> 0, callers |-> <<>>]

RECURSIVE Start(_, _), From(_, _, _), After(_, _)

Start(n, callers) ==
    IF Kind(n) \in {"if", "while"} THEN From(Kids(n)[1], 1, callers)
                                   ELSE Event(n, callers)

From(b, i, callers) ==
    IF i <= Len(Kids(b)) THEN Start(Kids(b)[i], callers)
    ELSE IF b = Kids(1)[1] THEN After(1, callers)
    ELSE IF IsCondition(b) THEN Event(b, callers)
    ELSE IF IsBody(b) THEN From(Kids(Parent(b))[1], 1, callers)
    ELSE After(Parent(b), callers)

After(n, callers) ==
    IF n # 1 THEN From(Parent(n), Place(n) + 1, callers)
    ELSE IF callers = <<>> THEN End
    ELSE After(callers[Len(callers)], SubSeq(callers, 1, Len(callers) - 1))

(* The block after condition b in its statement, one further or two.       *)
Branch(b, d) == Kids(Parent(b))[Place(b) + d]

Following ==
    LET n == last.node
        c == last.callers
    IN CASE last.outcome = "normal"   -> After(n, c)
         [] last.outcome = "break"    -> After(LoopAround(n), c)
         [] last.outcome = "continue" -> From(Kids(LoopAround(n))[1], 1, c)
         [] last.outcome = "return"   -> After(1, c)
         [] last.outcome \in {"error", "exception"} -> End
         [] last.outcome = "call"     -> From(Kids(1)[1], 1, IF n = 1 THEN c ELSE Append(c, n))
         [] last.outcome = "true"     -> From(Branch(n, 1), 1, c)
         [] last.outcome = "false"    ->
                IF Kind(Parent(n)) = "if" /\ Place(n) + 2 <= Len(Kids(Parent(n)))
                THEN From(Branch(n, 2), 1, c)
                ELSE After(Parent(n), c)

(* What may come of executing node n.                                      *)
Outcomes(n) ==
    CASE Kind(n) = "command" -> {"normal", "error", "exception"}
      [] Kind(n) = "call"    -> {"call", "error"}
      [] Kind(n) = "block"   -> {"true", "false", "error"}
      [] OTHER               -> {Kind(n)}

Init == last = [node |-> 1, outcome |-> "call", callers |-> <<>>]

Next ==
    /\ Following # End
    /\ \E o \in Outcomes(Following.node) :
          last' = [node |-> Following.node, outcome |-> o, callers |-> Following.callers]
    /\ UNCHANGED program

Spec == Init /\ [][Next]_<<program, last>>
=============================================================================
