---------------------------- MODULE MCExecutionTree ----------------------------
(***************************************************************************)
(* Model-checking instances of ExecutionTree: all trees of at most         *)
(* MaxNodes nodes and the fillings of two larger ones, and the check that  *)
(* the interpreter executes them as StructuredProgram says.                *)
(***************************************************************************)
EXTENDS ExecutionTree

CONSTANT MaxNodes

Reference == INSTANCE StructuredProgram

Statements == Kinds \ {"function", "block"}

(* Children a node of the given kind may still take.                       *)
MayGrow(p, n, kind) ==
    CASE p[n].kind = "block"  -> kind \in Statements
      [] p[n].kind = "while"  -> kind = "block" /\ Len(p[n].kids) < 2
      [] p[n].kind = "if"     -> kind = "block" /\ Len(p[n].kids) < 4
      [] p[n].kind = "function" -> kind = "block" /\ p[n].kids = <<>>
      [] OTHER -> FALSE

(* Nodes are added in preorder: under the last node or an ancestor of it.  *)
Ancestors(p) ==
    LET above[n \in DOMAIN p] ==
            {n} \cup (IF n = 1 THEN {} ELSE
                      above[CHOOSE m \in DOMAIN p : \E i \in DOMAIN p[m].kids : p[m].kids[i] = n])
    IN above[Len(p)]

(* A Break or Continue has a loop around it, whose body is being grown.    *)
InBody(p, n) ==
    \E w \in Ancestors(p) :
        /\ p[w].kind = "while" /\ Len(p[w].kids) = 2
        /\ p[w].kids[2] <= n

Grow(p) ==
    {Append([p EXCEPT ![nk[1]].kids = Append(@, Len(p) + 1)],
            [kind |-> nk[2], kids |-> <<>>]) :
        nk \in {nk \in Ancestors(p) \X (Kinds \ {"function"}) :
                   /\ MayGrow(p, nk[1], nk[2])
                   /\ nk[2] \in {"break", "continue"} => InBody(p, nk[1])}}

Trees[size \in 1..MaxNodes] ==
    IF size = 1 THEN {<<[kind |-> "function", kids |-> <<>>]>>}
    ELSE UNION {Grow(p) : p \in Trees[size - 1]}

Complete(p) ==
    \A n \in DOMAIN p :
        /\ p[n].kind = "while" => Len(p[n].kids) = 2
        /\ p[n].kind = "if" => Len(p[n].kids) >= 2
        /\ p[n].kind = "function" => Len(p[n].kids) = 1

AllTrees == {p \in UNION {Trees[size] : size \in 2..MaxNodes} : Complete(p)}

(* Larger trees: a skeleton whose holes take any statement without parts.  *)
N(kind, kids) == [kind |-> kind, kids |-> kids]
Leaf(kind) == N(kind, <<>>)

(* while (command) { while () { hole hole } hole } command                 *)
NestedLoops ==
    <<N("function", <<2>>), N("block", <<3, 13>>), N("while", <<4, 6>>),
      N("block", <<5>>), Leaf("command"), N("block", <<7, 12>>), N("while", <<8, 9>>),
      Leaf("block"), N("block", <<10, 11>>), Leaf("hole"), Leaf("hole"), Leaf("hole"),
      Leaf("command")>>

(* while () { if () { hole } else if () { hole } else { hole hole } hole } *)
BranchesInLoop ==
    <<N("function", <<2>>), N("block", <<3>>), N("while", <<4, 5>>), Leaf("block"),
      N("block", <<6, 16>>), N("if", <<7, 8, 10, 11, 13>>), Leaf("block"),
      N("block", <<9>>), Leaf("hole"), Leaf("block"), N("block", <<12>>), Leaf("hole"),
      N("block", <<14, 15>>), Leaf("hole"), Leaf("hole"), Leaf("hole")>>

Filled(skeleton) ==
    LET holes == {n \in DOMAIN skeleton : skeleton[n].kind = "hole"}
    IN {[n \in DOMAIN skeleton |-> IF n \in holes THEN Leaf(f[n]) ELSE skeleton[n]] :
           f \in [holes -> Kinds \ {"function", "block", "if", "while"}]}

MCPrograms == AllTrees \cup Filled(NestedLoops) \cup Filled(BranchesInLoop)

(* Break and Continue are in loops.                                        *)
ASSUME \A p \in AllTrees : \E nodes \in SUBSET DOMAIN p : InLoops(p, nodes)
ASSUME \A p \in Filled(NestedLoops) : InLoops(p, 6..12)
ASSUME \A p \in Filled(BranchesInLoop) : InLoops(p, 5..16)

(* Commands and tests are executed in the order the structure prescribes.  *)
ExecutesStructure == Reference!Spec
=============================================================================
