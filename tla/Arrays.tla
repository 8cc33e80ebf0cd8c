-------------------------------- MODULE Arrays --------------------------------
(***************************************************************************)
(* What the array builtins promise: an array is a sequence, indices wrap   *)
(* around it, and nothing else is seen of its storage but that it has the  *)
(* capacity for its elements.  The templates over std::vector are this     *)
(* module; ByteArrays, which manages its own memory, is shown to implement *)
(* it.                                                                     *)
(*                                                                         *)
(* A byte array may also be a view of an object: then the object's bytes   *)
(* are its elements, and their number cannot change.                       *)
(***************************************************************************)
EXTENDS Integers, Sequences

CONSTANTS
    Array, Object,       \* names of arrays and of objects that are viewed
    Element,             \* what an array holds
    Size, Index,         \* the sizes and indices that programs use
    Less(_, _),          \* order of arrays
    InsertPlace(_, _)    \* where InsertAt puts an index, given the length

VARIABLES
    place,    \* per array: itself, the object it is a view of, or Absent
    content,  \* sequence stored at a place; <<>> also for what does not exist
    returned, \* what the last builtin pushed: <<>> or <<value>>
    failed    \* an error ended the program

vars == <<place, content, returned, failed>>

Absent == "absent"

Seqs == INSTANCE SequencesExt

Exists(a) == ~failed /\ place[a] # Absent
Fixed(a) == place[a] \in Object
Elements(a) == content[place[a]]
Length(a) == Len(Elements(a))
Truth(b) == IF b THEN 1 ELSE 0

(* ((index rem size) + size) rem size, counted from 1                      *)
Wrap(i, n) == (i % n) + 1

Return(v) == returned' = v /\ UNCHANGED failed

Fail == failed' = TRUE /\ returned' = <<>> /\ UNCHANGED <<place, content>>

(* Array a gets the elements of seq; a view's number of elements is fixed. *)
Become(a, seq) ==
    /\ ~Fixed(a)
    /\ content' = [content EXCEPT ![a] = seq]
    /\ UNCHANGED place
    /\ Return(<<>>)
-----------------------------------------------------------------------------
Construct(a, n, e) ==
    /\ ~failed /\ place[a] = Absent
    /\ place' = [place EXCEPT ![a] = a]
    /\ content' = [content EXCEPT ![a] = [i \in 1..n |-> e]]
    /\ Return(<<>>)

CopyConstruct(a, b) ==
    /\ Exists(b) /\ place[a] = Absent
    /\ place' = [place EXCEPT ![a] = a]
    /\ content' = [content EXCEPT ![a] = Elements(b)]
    /\ Return(<<>>)

FromObject(a, o) ==
    /\ ~failed /\ place[a] = Absent
    /\ content[o] # <<>>
    /\ place' = [place EXCEPT ![a] = o]
    /\ UNCHANGED content
    /\ Return(<<>>)

(* The copy is an array of its own, whatever was assigned to.              *)
CopyAssign(a, b) ==
    /\ Exists(a) /\ Exists(b)
    /\ IF a = b
       THEN UNCHANGED <<place, content>>
       ELSE /\ place' = [place EXCEPT ![a] = a]
            /\ content' = [content EXCEPT ![a] = Elements(b)]
    /\ Return(<<>>)

Destroy(a) ==
    /\ Exists(a)
    /\ place' = [place EXCEPT ![a] = Absent]
    /\ content' = [content EXCEPT ![a] = <<>>]
    /\ Return(<<>>)

Clear(a) == Exists(a) /\ Become(a, <<>>)

ReserveOrShrink(a) == Exists(a) /\ Become(a, Elements(a))

Add(a, e) == Exists(a) /\ Become(a, Append(Elements(a), e))

RemoveAt(a, i) ==
    /\ Exists(a) /\ Length(a) > 0
    /\ Become(a, Seqs!RemoveAt(Elements(a), Wrap(i, Length(a))))

InsertAt(a, i, e) ==
    /\ Exists(a)
    /\ Become(a, Seqs!InsertAt(Elements(a), InsertPlace(i, Length(a)) + 1, e))

SetAt(a, i, e) ==
    /\ Exists(a) /\ Length(a) > 0
    /\ content' = [content EXCEPT ![place[a]] =
                      Seqs!ReplaceAt(@, Wrap(i, Length(a)), e)]
    /\ UNCHANGED place
    /\ Return(<<>>)

GetAt(a, i) ==
    /\ Exists(a) /\ Length(a) > 0
    /\ Return(<<Elements(a)[Wrap(i, Length(a))]>>)
    /\ UNCHANGED <<place, content>>

LengthOf(a) ==
    /\ Exists(a)
    /\ Return(<<Length(a)>>)
    /\ UNCHANGED <<place, content>>

Capacity(a) ==
    /\ Exists(a)
    /\ returned' \in Seq(Nat) /\ Len(returned') = 1
    /\ returned'[1] >= Length(a)
    /\ UNCHANGED <<place, content, failed>>

Equals(a, b) ==
    /\ Exists(a) /\ Exists(b)
    /\ Return(<<Truth(Elements(a) = Elements(b))>>)
    /\ UNCHANGED <<place, content>>

IsLess(a, b) ==
    /\ Exists(a) /\ Exists(b)
    /\ Return(<<Truth(Less(Elements(a), Elements(b)))>>)
    /\ UNCHANGED <<place, content>>

(* No element to remove, set or get; or a view cannot do what was asked.   *)
Refuse(a) ==
    /\ Exists(a)
    /\ Fixed(a) \/ Length(a) = 0
    /\ Fail

(* An object is created, changed by other means, or dies; not while there  *)
(* is a view of it.                                                        *)
ObjectChanges(o) ==
    /\ ~failed
    /\ content'[o] = <<>> => ~\E a \in Array : place[a] = o
    /\ content' = [content EXCEPT ![o] = content'[o]]
    /\ content'[o] \in Seq(Element)
    /\ UNCHANGED place
    /\ Return(<<>>)
-----------------------------------------------------------------------------
Init ==
    /\ place = [a \in Array |-> Absent]
    /\ content = [p \in Array \cup Object |-> <<>>]
    /\ returned = <<>>
    /\ failed = FALSE

Next ==
    \/ \E a \in Array :
          \/ Destroy(a) \/ Clear(a) \/ ReserveOrShrink(a)
          \/ LengthOf(a) \/ Capacity(a) \/ Refuse(a)
          \/ \E n \in Size, e \in Element : Construct(a, n, e)
          \/ \E e \in Element : Add(a, e)
          \/ \E i \in Index : RemoveAt(a, i) \/ GetAt(a, i)
          \/ \E i \in Index, e \in Element : InsertAt(a, i, e) \/ SetAt(a, i, e)
          \/ \E b \in Array :
                CopyConstruct(a, b) \/ CopyAssign(a, b) \/ Equals(a, b) \/ IsLess(a, b)
          \/ \E o \in Object : FromObject(a, o)
    \/ \E o \in Object : ObjectChanges(o)

Spec == Init /\ [][Next]_vars
=============================================================================
