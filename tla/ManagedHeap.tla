----------------------------- MODULE ManagedHeap -----------------------------
(***************************************************************************)
(* What the OvumVM runtime promises a program about memory, with no        *)
(* collector in sight: the program allocates objects, copies and           *)
(* overwrites the references it can name, and memory is taken back behind  *)
(* its back -- but, as long as the program runs, only memory that no       *)
(* chain of references starting at the program's roots reaches.            *)
(*                                                                         *)
(* GarbageCollector is shown to implement this specification.              *)
(***************************************************************************)

CONSTANTS
    Obj,    \* addresses at which an object can be allocated
    Null,   \* the null reference (and every value that is not a reference)
    Field   \* the reference fields of an object

VARIABLES
    allocated,  \* addresses that hold an object
    fields,     \* fields[o][f]: the reference in field f of object o
    roots,      \* the objects the program's variables and stack refer to
    running     \* the program has not returned yet

vars == <<allocated, fields, roots, running>>

NoFields == [f \in Field |-> Null]

(* A set of objects that no field leads out of.                            *)
Closed(S) == \A o \in S, f \in Field : fields[o][f] \in S \cup {Null}

(* o is garbage: some closed set holds all the roots and not o.            *)
Unreachable(o) ==
    \E S \in SUBSET Obj : roots \subseteq S /\ Closed(S) /\ o \notin S

(* What the program can name in one step: its roots and their fields.      *)
Nameable ==
    roots \cup ({fields[r][f] : r \in roots, f \in Field} \ {Null})

Init ==
    /\ allocated = {}
    /\ fields = [o \in Obj |-> NoFields]
    /\ roots = {}
    /\ running = TRUE

Allocate(o) ==
    /\ running
    /\ o \notin allocated
    /\ allocated' = allocated \cup {o}
    /\ roots' = roots \cup {o}
    /\ UNCHANGED <<fields, running>>

(* The program copies, reads or drops references.                          *)
Load ==
    /\ running
    /\ roots' \in SUBSET Nameable
    /\ UNCHANGED <<allocated, fields, running>>

(* The program overwrites a field of an object it holds.                   *)
Store(o, f, v) ==
    /\ running
    /\ o \in roots
    /\ v \in roots \cup {Null}
    /\ fields' = [fields EXCEPT ![o][f] = v]
    /\ roots' \in SUBSET roots
    /\ UNCHANGED <<allocated, running>>

(* An object is destroyed and its memory may be handed out again.          *)
Free(o) ==
    /\ o \in allocated
    /\ allocated' = allocated \ {o}
    /\ fields' = [fields EXCEPT ![o] = NoFields]
    /\ UNCHANGED <<roots, running>>

Reclaim(o) == running /\ Unreachable(o) /\ Free(o)

(* The program returns or fails; from then on everything may go.           *)
ShutDown ==
    /\ running
    /\ running' = FALSE
    /\ roots' \in SUBSET roots
    /\ UNCHANGED <<allocated, fields>>

Release(o) == ~running /\ Free(o)

Next ==
    \/ \E o \in Obj : Allocate(o) \/ Reclaim(o) \/ Release(o)
    \/ \E o \in Obj, f \in Field, v \in Obj \cup {Null} : Store(o, f, v)
    \/ Load
    \/ ShutDown

Spec == Init /\ [][Next]_vars
=============================================================================
