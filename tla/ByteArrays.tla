------------------------------ MODULE ByteArrays ------------------------------
(***************************************************************************)
(* The storage of byte arrays: class ByteArray under the builtins of the   *)
(* Ovum class of that name.  An array owns a buffer of its capacity, or is *)
(* a view of the memory of another object.                                 *)
(*                                                                         *)
(* Every length, capacity and copy is the code's.  An access outside of    *)
(* the memory it should be in, or to memory that was released, makes the   *)
(* mode "undefined".  A C++ exception ends the program like an error does. *)
(*                                                                         *)
(* Seeded faults: an operator Op_Fault is Op with a mistake; none is part  *)
(* of Spec.                                                                *)
(***************************************************************************)
EXTENDS Integers, Sequences

CONSTANTS
    Array, Object,   \* byte arrays; objects that are viewed
    Buffer,          \* what the allocator hands out
    Byte, Unset,     \* bytes; the content of memory nobody wrote
    ObjectSize,      \* size of the viewed objects
    Size, Index,     \* the sizes and indices that programs use
    Traps,           \* which of "assign", "release" programs walk into
    MaxLength        \* bound: length up to which arrays grow

ASSUME SizeAssumption == Size \subseteq Nat /\ Index \subseteq Int
ASSUME ObjectSizeAssumption == ObjectSize \in Nat \ {0}
ASSUME ByteAssumption == Byte \subseteq Nat /\ Unset \notin Nat
ASSUME TrapsAssumption == Traps \subseteq {"assign", "release"}
ASSUME NameAssumption ==
    /\ Buffer \cap Object = {} /\ Array \cap Object = {}
    /\ "null" \notin Buffer \cup Object
    /\ "absent" \notin Array \cup Object

VARIABLES
    memory,   \* per buffer and object its bytes; <<>> if not allocated
    live,     \* arrays that exist
    array,    \* their data_, size_, capacity_ and is_view_
    returned, \* what the last builtin pushed: <<>> or <<value>>
    mode      \* "run", "failed" (an error ended the program), "undefined"

vars == <<memory, live, array, returned, mode>>

Null == "null"
Empty == [data |-> Null, size |-> 0, capacity |-> 0, isView |-> FALSE]

Seqs == INSTANCE SequencesExt

Exists(a) == mode = "run" /\ a \in live
Truth(b) == IF b THEN 1 ELSE 0
Room(m, x) == IF x.data = Null THEN 0 ELSE Len(m[x.data])
BytesOf(m, x) == IF x.data = Null THEN <<>> ELSE SubSeq(m[x.data], 1, x.size)
Bytes(a) == BytesOf(memory, array[a])
Readable(a) == array[a].size <= Room(memory, array[a])
-----------------------------------------------------------------------------
(* The allocator, and the private helpers of ByteArray.  A storage is a    *)
(* memory and the array that is being changed.                             *)

Storage(m, x) == [memory |-> m, array |-> x]
Of(a) == Storage(memory, array[a])

(* The allocator has a buffer beyond those that the arrays may hold: the   *)
(* code does not look for a std::bad_alloc.                                *)
ASSUME SupplyAssumption ==
    \A held \in [Array -> Buffer \cup Object \cup {Null}] :
        \E b \in Buffer : \A a \in Array : held[a] # b

Fresh(m) == CHOOSE b \in Buffer : m[b] = <<>>

(* A block of n bytes that starts with seq.  What is behind the elements   *)
(* of an array is not told apart from memory that was never written.       *)
Filled(seq, n) == [i \in 1..n |-> IF i <= Len(seq) THEN seq[i] ELSE Unset]

DeallocateMemory(s) ==
    IF s.array.isView \/ s.array.data = Null THEN s
    ELSE Storage([s.memory EXCEPT ![s.array.data] = <<>>],
                 [s.array EXCEPT !.data = Null])

AllocateMemory(s, n) ==
    IF n = 0 THEN Storage(s.memory, [s.array EXCEPT !.data = Null])
    ELSE LET b == Fresh(s.memory)
         IN Storage([s.memory EXCEPT ![b] = Filled(<<>>, n)], [s.array EXCEPT !.data = b])

(* Reserve and ShrinkToFit: into a new buffer of n bytes.                  *)
Moved_KeepsOld(s, n) ==
    LET b == Fresh(s.memory)
        copied == Filled(BytesOf(s.memory, s.array), n)
    IN Storage([s.memory EXCEPT ![b] = copied],
               [s.array EXCEPT !.data = b, !.capacity = n])

Moved(s, n) ==
    LET b == Fresh(s.memory)
        copied == Filled(BytesOf(s.memory, s.array), n)
        freed == DeallocateMemory(Storage([s.memory EXCEPT ![b] = copied], s.array))
    IN Storage(freed.memory, [s.array EXCEPT !.data = b, !.capacity = n])

Reserved(s, n) == IF n <= s.array.capacity THEN s ELSE Moved(s, n)

Grown_Late(s) ==
    IF s.array.size > s.array.capacity
    THEN Reserved(s, IF s.array.capacity = 0 THEN 1 ELSE 2 * s.array.capacity)
    ELSE s

(* Room for one more byte, as Insert makes it.                             *)
Grown(s) ==
    IF s.array.size >= s.array.capacity
    THEN Reserved(s, IF s.array.capacity = 0 THEN 1 ELSE 2 * s.array.capacity)
    ELSE s

Shrunk_KeepsCapacity(s) ==
    IF s.array.size = s.array.capacity THEN s
    ELSE IF s.array.size = 0
    THEN LET freed == DeallocateMemory(s)
         IN Storage(freed.memory, freed.array)
    ELSE Moved(s, s.array.size)

Shrunk(s) ==
    IF s.array.size = s.array.capacity THEN s
    ELSE IF s.array.size = 0
    THEN LET freed == DeallocateMemory(s)
         IN Storage(freed.memory, [freed.array EXCEPT !.capacity = 0])
    ELSE Moved(s, s.array.size)

(* ((index rem size) + size) rem size, counted from 0                      *)
CircularIndex(i, n) == i % n

(* ComputeCircularIndex(i, n, true)                                        *)
InsertIndex(i, n) ==
    IF n = 0 THEN 0 ELSE IF CircularIndex(i, n) = 0 THEN n ELSE CircularIndex(i, n)
-----------------------------------------------------------------------------
Return(v) == returned' = v /\ UNCHANGED <<memory, live, array, mode>>

Stop(reason) ==
    /\ mode' = reason
    /\ returned' = <<>>
    /\ UNCHANGED <<memory, live, array>>

(* Array a gets the storage s, and seq is written to it.                   *)
Put(a, s, seq) ==
    IF Len(seq) > Room(s.memory, s.array)
    THEN Stop("undefined")
    ELSE /\ memory' = IF s.array.data = Null THEN s.memory
                      ELSE [s.memory EXCEPT ![s.array.data] = Filled(seq, Len(@))]
         /\ array' = [array EXCEPT ![a] = [s.array EXCEPT !.size = Len(seq)]]
         /\ returned' = <<>>
         /\ UNCHANGED mode

Create(a, s, seq) ==
    /\ mode = "run" /\ a \notin live
    /\ Put(a, s, seq)
    /\ live' = IF mode' = "run" THEN live \cup {a} ELSE live

(* ByteArray(size), then memset to the default value.                      *)
Construct(a, n, e) ==
    LET c == IF n = 0 THEN 1 ELSE n
    IN Create(a, AllocateMemory(Storage(memory, [Empty EXCEPT !.capacity = c]), c),
              [i \in 1..n |-> e])

CopyConstruct(a, b) ==
    /\ Exists(b)
    /\ LET c == array[b].capacity
       IN IF ~Readable(b) THEN Stop("undefined")
          ELSE Create(a, AllocateMemory(Storage(memory, [Empty EXCEPT !.capacity = c]), c),
                      Bytes(b))

FromObject(a, o) ==
    /\ memory[o] # <<>>
    /\ Create(a, Storage(memory, [data |-> o, size |-> ObjectSize,
                                  capacity |-> ObjectSize, isView |-> TRUE]),
              memory[o])

CopyAssign_StaysView(a, b) ==
    LET x == array[a]
        y == array[b]
        s == IF y.size > x.capacity \/ x.isView
             THEN AllocateMemory(DeallocateMemory(Of(a)), y.capacity)
             ELSE Of(a)
    IN /\ Exists(a) /\ Exists(b)
       /\ y.size > x.capacity \/ x.isView \/ y.capacity <= x.capacity
       /\ IF a = b THEN Return(<<>>)
          ELSE IF ~Readable(b) THEN Stop("undefined")
          ELSE /\ Put(a, Storage(s.memory, [s.array EXCEPT !.capacity = y.capacity]), Bytes(b))
               /\ UNCHANGED live

(* Trap "assign": the buffer is kept, but the capacity becomes that of b.  *)
CopyAssign(a, b) ==
    LET x == array[a]
        y == array[b]
        anew == y.size > x.capacity \/ x.isView
        s == IF anew THEN AllocateMemory(DeallocateMemory(Of(a)), y.capacity) ELSE Of(a)
    IN /\ Exists(a) /\ Exists(b)
       /\ anew \/ y.capacity <= x.capacity \/ "assign" \in Traps
       /\ IF a = b THEN Return(<<>>)
          ELSE IF ~Readable(b) THEN Stop("undefined")
          ELSE /\ Put(a, Storage(s.memory, [s.array EXCEPT !.capacity = y.capacity,
                                                           !.isView = FALSE]), Bytes(b))
               /\ UNCHANGED live

Destroy(a) ==
    /\ Exists(a)
    /\ memory' = DeallocateMemory(Of(a)).memory
    /\ live' = live \ {a}
    /\ array' = [array EXCEPT ![a] = Empty]
    /\ returned' = <<>>
    /\ UNCHANGED mode
-----------------------------------------------------------------------------
(* What a view refuses to do: CheckReallocationAllowed.                    *)
Change(a, s, seq) ==
    /\ Exists(a)
    /\ IF array[a].isView THEN Stop("failed")
       ELSE Put(a, s, seq) /\ UNCHANGED live

Clear(a) == Change(a, Of(a), <<>>)

Reserve(a, n) == Change(a, Reserved(Of(a), n), Bytes(a))

ShrinkToFit(a) == Change(a, Shrunk(Of(a)), Bytes(a))

Add(a, e) ==
    /\ array[a].size < MaxLength
    /\ Change(a, Grown(Of(a)), Append(Bytes(a), e))

InsertAt(a, i, e) ==
    /\ array[a].size < MaxLength
    /\ LET k == InsertIndex(i, array[a].size)
       IN Change(a, Grown(Of(a)), Seqs!InsertAt(Bytes(a), k + 1, e))

RemoveAt(a, i) ==
    /\ array[a].size > 0
    /\ LET k == CircularIndex(i, array[a].size)
       IN Change(a, Of(a), Seqs!RemoveAt(Bytes(a), k + 1))

SetAt(a, i, e) ==
    /\ Exists(a)
    /\ array[a].size > 0
    /\ LET k == CircularIndex(i, array[a].size)
       IN IF Readable(a)
          THEN Put(a, Of(a), Seqs!ReplaceAt(Bytes(a), k + 1, e)) /\ UNCHANGED live
          ELSE Stop("undefined")

GetAt_UpToCapacity(a, i) ==
    /\ Exists(a)
    /\ array[a].size > 0
    /\ Return(<<memory[array[a].data][CircularIndex(i, array[a].capacity) + 1]>>)

GetAt(a, i) ==
    /\ Exists(a)
    /\ array[a].size > 0
    /\ IF Readable(a)
       THEN Return(<<Bytes(a)[CircularIndex(i, array[a].size) + 1]>>)
       ELSE Stop("undefined")

(* RemoveAt, SetAt and GetAt of an array without elements.                 *)
NoElement(a) ==
    /\ Exists(a)
    /\ array[a].size = 0
    /\ Stop("failed")

Length(a) == Exists(a) /\ Return(<<array[a].size>>)

Capacity(a) == Exists(a) /\ Return(<<array[a].capacity>>)

Equals(a, b) ==
    /\ Exists(a) /\ Exists(b)
    /\ IF Readable(a) /\ Readable(b)
       THEN Return(<<Truth(Bytes(a) = Bytes(b))>>)
       ELSE Stop("undefined")

(* The shorter one is less, and memcmp decides between equal lengths.      *)
Before(s, t) ==
    \/ Len(s) < Len(t)
    \/ /\ Len(s) = Len(t)
       /\ \E i \in DOMAIN s : s[i] < t[i] /\ \A j \in 1..(i - 1) : s[j] = t[j]

IsLess(a, b) ==
    /\ Exists(a) /\ Exists(b)
    /\ IF Readable(a) /\ Readable(b)
       THEN Return(<<Truth(Before(Bytes(a), Bytes(b)))>>)
       ELSE Stop("undefined")

(* An object is constructed, a field of it is set, it is collected.  Trap  *)
(* "release": a view is no reference to its object.                        *)
ObjectChanges(o, bytes) ==
    /\ mode = "run"
    /\ memory[o] = <<>> => bytes # <<>>
    /\ bytes = <<>> => "release" \in Traps \/ ~\E a \in live : array[a].data = o
    /\ memory' = [memory EXCEPT ![o] = bytes]
    /\ returned' = <<>>
    /\ UNCHANGED <<live, array, mode>>
-----------------------------------------------------------------------------
Init ==
    /\ memory = [b \in Buffer \cup Object |-> <<>>]
    /\ live = {}
    /\ array = [a \in Array |-> Empty]
    /\ returned = <<>>
    /\ mode = "run"

Next ==
    \/ \E a \in Array, n \in Size, e \in Byte : Construct(a, n, e)
    \/ \E a \in Array, b \in Array :
          CopyConstruct(a, b) \/ CopyAssign(a, b) \/ Equals(a, b) \/ IsLess(a, b)
    \/ \E a \in Array, o \in Object : FromObject(a, o)
    \/ \E a \in Array :
          Destroy(a) \/ Clear(a) \/ ShrinkToFit(a) \/ NoElement(a) \/ Length(a) \/ Capacity(a)
    \/ \E a \in Array, n \in Size : Reserve(a, n)
    \/ \E a \in Array, e \in Byte : Add(a, e)
    \/ \E a \in Array, i \in Index : RemoveAt(a, i) \/ GetAt(a, i)
    \/ \E a \in Array, i \in Index, e \in Byte : InsertAt(a, i, e) \/ SetAt(a, i, e)
    \/ \E o \in Object : \E bytes \in {<<>>} \cup [1..ObjectSize -> Byte] : ObjectChanges(o, bytes)

Spec == Init /\ [][Next]_vars
-----------------------------------------------------------------------------
Blocks == Buffer \cup Object

(* Type invariant.  What a builtin returns is never memory that was not    *)
(* written.                                                                *)
TypeOK ==
    /\ memory \in [Blocks -> Seq(Byte \cup {Unset})]
    /\ live \subseteq Array
    /\ array \in [Array -> [data : Blocks \cup {Null}, size : Nat,
                            capacity : Nat, isView : BOOLEAN]]
    /\ returned \in Seq(Nat)
    /\ mode \in {"run", "failed", "undefined"}

(* No builtin reads or writes outside of the memory of its arrays.         *)
NoOverrun == mode # "undefined"

Owners(b) == {a \in live : array[a].data = b /\ ~array[a].isView}

(* The allocator's books: each buffer in use is owned by exactly one array *)
(* -- none is leaked, released twice or shared, whatever was assigned to   *)
(* what -- and one not in use by none.                                     *)
BuffersHaveOneOwner ==
    \A b \in Buffer :
        IF memory[b] = <<>> THEN Owners(b) = {}
        ELSE \E a \in live : Owners(b) = {a}

(* What the next Insert or Reserve relies on: an array's elements are in   *)
(* its capacity and its capacity is in its buffer.                         *)
CapacityIsHonest ==
    \A a \in live :
        /\ array[a].size <= array[a].capacity
        /\ array[a].capacity <= Room(memory, array[a])

(* InsertAt(i) puts the element before the one that GetAt(i) returned, or  *)
(* at the end if i is the length: for all indices and lengths.             *)
InsertsBeforeIndex ==
    \A a \in live : \A i \in Index :
        LET n == array[a].size
        IN n > 0 => InsertIndex(i, n) = IF i = n THEN n ELSE CircularIndex(i, n)
-----------------------------------------------------------------------------
Absent == "absent"

(* Where an array's elements are, for its user: in the array itself, or in *)
(* the object that it is a view of; and what is there.                     *)
Places == [a \in Array |-> IF a \notin live THEN Absent
                          ELSE IF array[a].isView THEN array[a].data ELSE a]

Contents == [p \in Array \cup Object |->
               IF p \in Object THEN memory[p]
               ELSE IF array[p].isView THEN <<>> ELSE Bytes(p)]

Promise == INSTANCE Arrays WITH
    Element <- Byte,
    Less <- Before,
    InsertPlace <- InsertIndex,
    place <- Places,
    content <- Contents,
    failed <- mode # "run"

(* The elements of every array are those that the sequence operations give *)
(* it, wherever they are stored, and nothing else changes them.            *)
ImplementsArrays == Promise!Spec
=============================================================================
