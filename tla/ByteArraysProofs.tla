--------------------------- MODULE ByteArraysProofs ---------------------------
(***************************************************************************)
(* Theorems about ByteArrays, for any arrays, objects, sizes and indices:  *)
(* no builtin leaves the memory of its array, every buffer has one owner,  *)
(* and the arrays behave as the sequences of Arrays.                       *)
(***************************************************************************)
EXTENDS ByteArrays, TLAPS

Cell == Byte \cup {Unset}
Memory == [Blocks -> Seq(Cell)]
Record == [data : Blocks \cup {Null}, size : Nat, capacity : Nat, isView : BOOLEAN]

(* The elements of an array are written, and it has memory for its         *)
(* capacity: a buffer of its own, or the object that it is a view of.      *)
Fits(m, x) ==
    /\ x.size <= x.capacity /\ x.capacity <= Room(m, x)
    /\ \A i \in 1..x.size : m[x.data][i] \in Byte
    /\ IF x.isView
       THEN x.data \in Object /\ x.size = ObjectSize
       ELSE x.data \in Buffer \cup {Null} /\ (x.data \in Buffer => m[x.data] # <<>>)

(* Objects are written when they are constructed.                          *)
Whole(bytes) == bytes \in Seq(Byte) /\ (bytes = <<>> \/ Len(bytes) = ObjectSize)

Inv ==
    /\ memory \in Memory
    /\ live \subseteq Array
    /\ array \in [Array -> Record]
    /\ returned \in Seq(Nat)
    /\ mode \in {"run", "failed"}
    /\ \A a \in live : Fits(memory, array[a])
    /\ \A a \in Array \ live : array[a] = Empty
    /\ \A o \in Object : Whole(memory[o])
    /\ \A b \in Buffer : memory[b] # <<>> => \E a \in live : array[a].data = b
    /\ \A a, b \in live : array[a].data \in Buffer /\ array[a].data = array[b].data => a = b

(* The buffer of array a is given back, and nothing else.                  *)
Released(a, m) ==
    /\ m \in Memory
    /\ \A c \in Blocks : m[c] = IF c \in Buffer /\ c = array[a].data THEN <<>> ELSE memory[c]

(* A storage that array a can move to.                                     *)
Serves(a, s) ==
    /\ s.memory \in Memory /\ s.array \in Record
    /\ ~s.array.isView /\ s.array.data \in Buffer \cup {Null}
    /\ s.array.capacity <= Room(s.memory, s.array)
    /\ s.array.data \in Buffer =>
         s.memory[s.array.data] # <<>> /\ \A b \in live \ {a} : array[b].data # s.array.data
    /\ \A c \in Blocks : c # s.array.data =>
         s.memory[c] = IF c \in Buffer /\ c = array[a].data THEN <<>> ELSE memory[c]
-----------------------------------------------------------------------------
(* Sequences.                                                              *)

LEMMA ElementFacts ==
    ASSUME NEW S, NEW s \in Seq(S), NEW i \in 1..Len(s)
    PROVE  s[i] \in S
  OBVIOUS

LEMMA PrefixFacts ==
    ASSUME NEW S, NEW s \in Seq(S), NEW n \in Nat, n <= Len(s)
    PROVE  /\ SubSeq(s, 1, n) \in Seq(S)
           /\ Len(SubSeq(s, 1, n)) = n
           /\ \A i \in 1..n : SubSeq(s, 1, n)[i] = s[i]
  OBVIOUS

LEMMA SameSequence ==
    ASSUME NEW S, NEW T, NEW s \in Seq(S), NEW t \in Seq(T), Len(s) = Len(t),
           \A i \in 1..Len(s) : s[i] = t[i]
    PROVE  s = t
  OBVIOUS

LEMMA Narrowed ==
    ASSUME NEW S, NEW T, NEW s \in Seq(S), \A i \in 1..Len(s) : s[i] \in T
    PROVE  s \in Seq(T)
  OBVIOUS

LEMMA TupleFacts ==
    ASSUME NEW S, NEW n \in Nat, NEW f \in [1..n -> S]
    PROVE  f \in Seq(S) /\ Len(f) = n
  OBVIOUS

LEMMA FilledFacts ==
    ASSUME NEW seq \in Seq(Byte), NEW n \in Nat
    PROVE  /\ Filled(seq, n) \in Seq(Cell) /\ Len(Filled(seq, n)) = n
           /\ \A i \in 1..n : i <= Len(seq) => Filled(seq, n)[i] = seq[i]
           /\ n > 0 => Filled(seq, n) # <<>>
<1>. DEFINE f == Filled(seq, n)
<1>1. \A i \in 1..n : i <= Len(seq) => i \in 1..Len(seq)
  OBVIOUS
<1>2. f \in [1..n -> Cell]
  BY <1>1, ElementFacts DEF Filled, Cell
<1>3. \A i \in 1..n : i <= Len(seq) => f[i] = seq[i]
  BY DEF Filled
<1>. HIDE DEF f
<1>4. f \in Seq(Cell) /\ Len(f) = n
  BY <1>2, TupleFacts
<1>. QED  BY <1>3, <1>4 DEF f

LEMMA ReplaceFacts ==
    ASSUME NEW S, NEW s \in Seq(S), NEW i \in 1..Len(s), NEW e \in S
    PROVE  Seqs!ReplaceAt(s, i, e) \in Seq(S) /\ Len(Seqs!ReplaceAt(s, i, e)) = Len(s)
  BY DEF Seqs!ReplaceAt

LEMMA ConcatFacts ==
    ASSUME NEW S, NEW s \in Seq(S), NEW t \in Seq(S)
    PROVE  s \o t \in Seq(S) /\ Len(s \o t) = Len(s) + Len(t)
  OBVIOUS

LEMMA RemoveFacts ==
    ASSUME NEW S, NEW s \in Seq(S), NEW i \in 1..Len(s)
    PROVE  Seqs!RemoveAt(s, i) \in Seq(S) /\ Len(Seqs!RemoveAt(s, i)) = Len(s) - 1
<1>. DEFINE p == SubSeq(s, 1, i - 1)
            q == SubSeq(s, i + 1, Len(s))
<1>1. p \in Seq(S) /\ Len(p) = i - 1 /\ q \in Seq(S) /\ Len(q) = Len(s) - i
  OBVIOUS
<1>2. Seqs!RemoveAt(s, i) = p \o q
  BY DEF Seqs!RemoveAt
<1>. HIDE DEF p, q
<1>3. p \o q \in Seq(S) /\ Len(p \o q) = Len(p) + Len(q)
  BY <1>1, ConcatFacts
<1>4. Len(p) + Len(q) = Len(s) - 1
  BY <1>1
<1>. QED  BY <1>2, <1>3, <1>4

LEMMA InsertFacts ==
    ASSUME NEW S, NEW s \in Seq(S), NEW i \in 1..(Len(s) + 1), NEW e \in S
    PROVE  Seqs!InsertAt(s, i, e) \in Seq(S) /\ Len(Seqs!InsertAt(s, i, e)) = Len(s) + 1
<1>. DEFINE p == SubSeq(s, 1, i - 1)
            q == SubSeq(s, i, Len(s))
            r == <<e>>
<1>1. /\ p \in Seq(S) /\ Len(p) = i - 1 /\ q \in Seq(S) /\ Len(q) = Len(s) + 1 - i
      /\ r \in Seq(S) /\ Len(r) = 1
  OBVIOUS
<1>2. Seqs!InsertAt(s, i, e) = p \o r \o q
  BY DEF Seqs!InsertAt
<1>. HIDE DEF p, q, r
<1>3. p \o r \in Seq(S) /\ Len(p \o r) = Len(p) + Len(r)
  BY <1>1, ConcatFacts
<1>4. (p \o r) \o q \in Seq(S) /\ Len((p \o r) \o q) = Len(p \o r) + Len(q)
  BY <1>1, <1>3, ConcatFacts
<1>5. Len(p \o r) + Len(q) = Len(s) + 1
  BY <1>1, <1>3
<1>. QED  BY <1>2, <1>4, <1>5

(* Indices wrap around the array.                                          *)
LEMMA IndexFacts ==
    ASSUME NEW i \in Int, NEW n \in Nat
    PROVE  /\ n > 0 => CircularIndex(i, n) + 1 \in 1..n
           /\ InsertIndex(i, n) + 1 \in 1..(n + 1)
<1>1. ASSUME n > 0 PROVE i % n \in 0..(n - 1)
  BY <1>1
<1>. QED  BY <1>1 DEF CircularIndex, InsertIndex
-----------------------------------------------------------------------------
(* Memory and its blocks.                                                  *)

LEMMA BlockNames ==
    /\ Buffer \subseteq Blocks /\ Object \subseteq Blocks /\ Null \notin Blocks
    /\ \A b \in Buffer : b \notin Object
    /\ \A b \in Blocks : b # Null
  BY NameAssumption DEF Blocks, Null

(* The elements of an array can be read, and nothing else.                 *)
LEMMA BytesFacts ==
    ASSUME NEW m \in Memory, NEW x \in Record, Fits(m, x)
    PROVE  /\ BytesOf(m, x) \in Seq(Byte) /\ Len(BytesOf(m, x)) = x.size
           /\ Room(m, x) \in Nat /\ x.size <= Room(m, x)
           /\ \A i \in 1..x.size : x.data # Null /\ BytesOf(m, x)[i] = m[x.data][i]
<1>1. x.data \in Blocks \cup {Null} /\ x.size \in Nat /\ x.capacity \in Nat
  BY DEF Record
<1>2. CASE x.data = Null
  <2>1. Room(m, x) = 0 /\ x.size = 0 /\ BytesOf(m, x) = <<>>
    BY <1>1, <1>2 DEF Fits, Room, BytesOf
  <2>. QED  BY <1>1, <2>1
<1>3. CASE x.data # Null
  <2>. DEFINE d == m[x.data]
              s == SubSeq(d, 1, x.size)
  <2>1. d \in Seq(Cell) /\ Len(d) \in Nat
    BY <1>1, <1>3 DEF Memory
  <2>2. Room(m, x) = Len(d) /\ BytesOf(m, x) = s
    BY <1>3 DEF Room, BytesOf
  <2>3. x.size <= Len(d)
    BY <1>1, <2>1, <2>2 DEF Fits
  <2>4. \A i \in 1..x.size : d[i] \in Byte
    BY DEF Fits
  <2>. HIDE DEF d
  <2>5. s \in Seq(Cell) /\ Len(s) = x.size /\ \A i \in 1..x.size : s[i] = d[i]
    BY <1>1, <2>1, <2>3, PrefixFacts
  <2>. HIDE DEF s
  <2>6. s \in Seq(Byte)
    BY <2>4, <2>5, Narrowed
  <2>. QED  BY <1>3, <2>1, <2>2, <2>3, <2>5, <2>6 DEF d
<1>. QED  BY <1>2, <1>3

LEMMA LiveFacts ==
    ASSUME Inv, NEW a \in live
    PROVE  /\ a \in Array /\ array[a] \in Record /\ Fits(memory, array[a]) /\ memory \in Memory
           /\ array[a].size \in Nat /\ array[a].capacity \in Nat
           /\ array[a].data \in Blocks \cup {Null}
           /\ Readable(a) /\ Bytes(a) \in Seq(Byte) /\ Len(Bytes(a)) = array[a].size
           /\ array[a].size <= array[a].capacity
           /\ Room(memory, array[a]) \in Nat /\ array[a].capacity <= Room(memory, array[a])
<1>1. a \in Array /\ array[a] \in Record /\ Fits(memory, array[a]) /\ memory \in Memory
  BY DEF Inv
<1>2. /\ array[a].size \in Nat /\ array[a].capacity \in Nat
      /\ array[a].data \in Blocks \cup {Null}
  BY <1>1 DEF Record
<1>3. Readable(a) /\ Bytes(a) \in Seq(Byte) /\ Len(Bytes(a)) = array[a].size
  BY <1>1, BytesFacts DEF Readable, Bytes
<1>. QED  BY <1>1, <1>2, <1>3, BytesFacts DEF Fits

(* The allocator finds a buffer that nobody has.                           *)
LEMMA FreeBuffer ==
    ASSUME Inv
    PROVE  \E b \in Buffer : memory[b] = <<>> /\ \A a \in Array : array[a].data # b
<1>. DEFINE held == [b \in Array |-> array[b].data]
<1>1. held \in [Array -> Buffer \cup Object \cup {Null}]
  BY DEF Inv, Record, Blocks
<1>. HIDE DEF held
<1>2. PICK b \in Buffer : \A c \in Array : held[c] # b
  BY <1>1, SupplyAssumption
<1>3. \A c \in Array : array[c].data # b
  BY <1>2 DEF held
<1>4. memory[b] = <<>>
  BY <1>3 DEF Inv
<1>. QED  BY <1>3, <1>4

LEMMA FreshFacts ==
    ASSUME Inv, NEW a \in Array, NEW m, Released(a, m)
    PROVE  /\ Fresh(m) \in Buffer /\ m[Fresh(m)] = <<>>
           /\ \A b \in live \ {a} : array[b].data # Fresh(m)
<1>4. \E b \in Buffer : m[b] = <<>>
  BY FreeBuffer, BlockNames DEF Released
<1>5. Fresh(m) \in Buffer /\ m[Fresh(m)] = <<>>
  BY <1>4 DEF Fresh
<1>6. ASSUME NEW c \in live \ {a}, array[c].data = Fresh(m) PROVE FALSE
  <2>1. memory[array[c].data] # <<>>
    BY <1>5, <1>6, BlockNames DEF Inv, Fits
  <2>2. array[a].data = Fresh(m)
    BY <1>5, <1>6, <2>1, BlockNames DEF Released
  <2>3. a \in live
    BY <1>5, <2>2, BlockNames DEF Inv, Empty
  <2>. QED  BY <1>5, <1>6, <2>2, <2>3 DEF Inv
<1>. QED  BY <1>5, <1>6

LEMMA DeallocateReleases ==
    ASSUME Inv, NEW a \in Array
    PROVE  /\ Released(a, DeallocateMemory(Of(a)).memory)
           /\ DeallocateMemory(Of(a)).array \in Record
           /\ DeallocateMemory(Of(a)).array.size = array[a].size
           /\ DeallocateMemory(Of(a)).array.isView = array[a].isView
           /\ DeallocateMemory(Of(a)).array.capacity = array[a].capacity
<1>1. memory \in Memory /\ array[a] \in Record
  BY DEF Inv
<1>2. array[a].isView => array[a].data \notin Buffer
  BY BlockNames DEF Inv, Fits, Empty
<1>3. CASE array[a].isView \/ array[a].data = Null
  <2>1. DeallocateMemory(Of(a)) = Of(a)
    BY <1>3 DEF DeallocateMemory, Of, Storage
  <2>2. array[a].data \notin Buffer
    BY <1>2, <1>3, BlockNames
  <2>. QED  BY <1>1, <2>1, <2>2 DEF Of, Storage, Released
<1>4. CASE ~(array[a].isView \/ array[a].data = Null)
  <2>. DEFINE d == DeallocateMemory(Of(a))
  <2>1. /\ d.memory = [memory EXCEPT ![array[a].data] = <<>>]
        /\ d.array = [array[a] EXCEPT !.data = Null]
    BY <1>4 DEF DeallocateMemory, Of, Storage
  <2>2. array[a].data \in Buffer /\ array[a].data \in Blocks
    BY <1>4, BlockNames DEF Inv, Fits, Empty
  <2>3. Released(a, d.memory)
    BY <1>1, <2>1, <2>2 DEF Released, Memory
  <2>4. /\ d.array \in Record /\ d.array.size = array[a].size
        /\ d.array.isView = array[a].isView /\ d.array.capacity = array[a].capacity
    BY <1>1, <2>1 DEF Record
  <2>. QED  BY <2>3, <2>4
<1>. QED  BY <1>3, <1>4

(* A new buffer of n bytes serves, or none if n is 0.                      *)
LEMMA AllocationServes ==
    ASSUME Inv, NEW a \in Array, NEW m, Released(a, m), NEW x \in Record, NEW n \in Nat,
           NEW s, s.memory = AllocateMemory(Storage(m, x), n).memory, s.array \in Record,
           s.array.data = AllocateMemory(Storage(m, x), n).array.data,
           s.array.capacity = n, ~s.array.isView
    PROVE  Serves(a, s)
<1>1. m \in Memory
  BY DEF Released
<1>2. CASE n = 0
  <2>1. s.memory = m /\ s.array.data = Null
    BY <1>2 DEF AllocateMemory, Storage, Record
  <2>2. s.array.capacity <= Room(s.memory, s.array)
    BY <1>2, <2>1 DEF Room
  <2>. QED  BY <1>1, <2>1, <2>2, BlockNames DEF Serves, Released
<1>3. CASE n # 0
  <2>. DEFINE b == Fresh(m)
              f == Filled(<<>>, n)
  <2>1. b \in Buffer /\ b \in Blocks /\ \A c \in live \ {a} : array[c].data # b
    BY FreshFacts, BlockNames
  <2>2. f \in Seq(Cell) /\ Len(f) = n /\ f # <<>>
    <3>1. <<>> \in Seq(Byte) /\ n > 0
      BY <1>3
    <3>. QED  BY <3>1, FilledFacts
  <2>3. s.memory = [m EXCEPT ![b] = f] /\ s.array.data = b
    BY <1>3 DEF AllocateMemory, Storage, Record
  <2>. HIDE DEF b, f
  <2>4. s.memory \in Memory /\ s.memory[b] = f /\ \A c \in Blocks : c # b => s.memory[c] = m[c]
    BY <1>1, <2>1, <2>2, <2>3 DEF Memory
  <2>5. s.array.capacity <= Room(s.memory, s.array)
    BY <2>1, <2>2, <2>3, <2>4, BlockNames DEF Room
  <2>. QED  BY <2>1, <2>2, <2>3, <2>4, <2>5 DEF Serves, Released
<1>. QED  BY <1>2, <1>3

LEMMA OwnServes ==
    ASSUME Inv, NEW a \in live, ~array[a].isView
    PROVE  Serves(a, Of(a))
<1>1. array[a].data \in Buffer \cup {Null} /\ (array[a].data \in Buffer => memory[array[a].data] # <<>>)
  BY LiveFacts DEF Fits
<1>2. array[a].data \in Buffer => \A b \in live \ {a} : array[b].data # array[a].data
  BY DEF Inv
<1>. QED  BY <1>1, <1>2, LiveFacts DEF Serves, Of, Storage

LEMMA MovedServes ==
    ASSUME Inv, NEW a \in live, ~array[a].isView, NEW n \in Nat, n > 0
    PROVE  Serves(a, Moved(Of(a), n)) /\ Moved(Of(a), n).array.capacity = n
<1>. DEFINE x == array[a]
            b == Fresh(memory)
            f == Filled(Bytes(a), n)
            m == [memory EXCEPT ![b] = f]
            freed == DeallocateMemory(Storage(m, x))
            s == Moved(Of(a), n)
<1>1. /\ a \in Array /\ x \in Record /\ memory \in Memory /\ Bytes(a) \in Seq(Byte)
      /\ x.data \in Buffer \cup {Null} /\ (x.data \in Buffer => memory[x.data] # <<>>)
  BY LiveFacts DEF Fits
<1>2. s.memory = freed.memory /\ s.array = [x EXCEPT !.data = b, !.capacity = n]
  BY DEF Moved, Of, Storage, Bytes
<1>3. s.array \in Record /\ ~s.array.isView /\ s.array.data = b /\ s.array.capacity = n
  <2>1. b \in Blocks \cup {Null} => s.array \in Record
    BY <1>1, <1>2 DEF Record
  <2>2. b \in Blocks
    BY FreeBuffer, BlockNames DEF Fresh
  <2>. QED  BY <1>1, <1>2, <2>1, <2>2 DEF Record
<1>4. b \in Buffer /\ b \in Blocks /\ memory[b] = <<>>
  BY FreeBuffer, BlockNames DEF Fresh
<1>5. \A c \in live : array[c].data # b
  <2>. SUFFICES ASSUME NEW c \in live, array[c].data = b PROVE FALSE
    OBVIOUS
  <2>1. Fits(memory, array[c])
    BY DEF Inv
  <2>. QED  BY <1>4, <2>1, BlockNames DEF Fits
<1>6. f \in Seq(Cell) /\ Len(f) = n /\ f # <<>>
  BY <1>1, FilledFacts
<1>. HIDE DEF b, f
<1>7. m \in Memory /\ m[b] = f /\ \A c \in Blocks : c # b => m[c] = memory[c]
  BY <1>1, <1>4, <1>6 DEF Memory
<1>. HIDE DEF m
<1>8. /\ s.memory \in Memory /\ s.memory[b] = f
      /\ \A c \in Blocks : c # b =>
           s.memory[c] = IF c \in Buffer /\ c = x.data THEN <<>> ELSE memory[c]
  <2>1. CASE x.data = Null
    <3>1. freed.memory = m
      BY <2>1 DEF DeallocateMemory, Storage
    <3>. QED  BY <1>2, <1>7, <2>1, <3>1, BlockNames
  <2>2. CASE x.data # Null
    <3>1. freed.memory = [m EXCEPT ![x.data] = <<>>]
      BY <2>2 DEF DeallocateMemory, Storage
    <3>2. x.data \in Buffer /\ x.data \in Blocks /\ x.data # b
      BY <1>1, <1>5, <2>2, BlockNames
    <3>. QED  BY <1>2, <1>7, <3>1, <3>2 DEF Memory
  <2>. QED  BY <2>1, <2>2
<1>. HIDE DEF s, freed
<1>9. s.array.capacity <= Room(s.memory, s.array)
  BY <1>3, <1>4, <1>6, <1>8, BlockNames DEF Room
<1>10. Serves(a, s)
  BY <1>3, <1>4, <1>5, <1>6, <1>8, <1>9 DEF Serves
<1>. QED  BY <1>3, <1>10 DEF s

(* An array that has room for more elements than it needs.                 *)
LEMMA ReservedServes ==
    ASSUME Inv, NEW a \in live, ~array[a].isView, NEW n \in Nat
    PROVE  /\ Serves(a, Reserved(Of(a), n))
           /\ Reserved(Of(a), n).array.capacity >= n
           /\ Reserved(Of(a), n).array.capacity >= array[a].capacity
<1>. DEFINE s == Reserved(Of(a), n)
<1>1. array[a].capacity \in Nat /\ Of(a).array = array[a]
  BY LiveFacts DEF Of, Storage
<1>2. CASE n <= array[a].capacity
  <2>1. s = Of(a)
    BY <1>1, <1>2 DEF Reserved
  <2>. QED  BY <1>1, <1>2, <2>1, OwnServes
<1>3. CASE ~(n <= array[a].capacity)
  <2>1. s = Moved(Of(a), n) /\ n > 0
    BY <1>1, <1>3 DEF Reserved
  <2>2. Serves(a, s) /\ s.array.capacity = n
    BY <2>1, MovedServes
  <2>. QED  BY <1>1, <1>3, <2>2
<1>. QED  BY <1>2, <1>3

LEMMA GrownServes ==
    ASSUME Inv, NEW a \in live, ~array[a].isView
    PROVE  Serves(a, Grown(Of(a))) /\ Grown(Of(a)).array.capacity >= array[a].size + 1
<1>1. /\ array[a].capacity \in Nat /\ array[a].size \in Nat /\ Of(a).array = array[a]
      /\ array[a].size <= array[a].capacity
  BY LiveFacts DEF Of, Storage
<1>2. CASE array[a].size >= array[a].capacity
  <2>. DEFINE n == IF array[a].capacity = 0 THEN 1 ELSE 2 * array[a].capacity
  <2>1. n \in Nat /\ n >= array[a].size + 1
    BY <1>1, <1>2
  <2>2. Grown(Of(a)) = Reserved(Of(a), n)
    BY <1>1, <1>2 DEF Grown
  <2>. HIDE DEF n
  <2>3. Serves(a, Reserved(Of(a), n)) /\ Reserved(Of(a), n).array.capacity >= n
    BY <2>1, ReservedServes
  <2>4. Reserved(Of(a), n).array.capacity \in Nat
    BY <2>3 DEF Serves, Record
  <2>. QED  BY <1>1, <2>1, <2>2, <2>3, <2>4
<1>3. CASE ~(array[a].size >= array[a].capacity)
  <2>1. Grown(Of(a)) = Of(a)
    BY <1>1, <1>3 DEF Grown
  <2>. QED  BY <1>1, <1>3, <2>1, OwnServes
<1>. QED  BY <1>2, <1>3

LEMMA ShrunkServes ==
    ASSUME Inv, NEW a \in live, ~array[a].isView
    PROVE  Serves(a, Shrunk(Of(a))) /\ Shrunk(Of(a)).array.capacity >= array[a].size
<1>. DEFINE s == Shrunk(Of(a))
<1>1. /\ array[a].capacity \in Nat /\ array[a].size \in Nat /\ Of(a).array = array[a]
      /\ array[a].size <= array[a].capacity /\ a \in Array
  BY LiveFacts DEF Of, Storage
<1>2. CASE array[a].size = array[a].capacity
  <2>1. s = Of(a)
    BY <1>1, <1>2 DEF Shrunk
  <2>. QED  BY <1>1, <2>1, OwnServes
<1>3. CASE array[a].size # array[a].capacity /\ array[a].size = 0
  <2>. DEFINE freed == DeallocateMemory(Of(a))
  <2>1. s.memory = freed.memory /\ s.array = [freed.array EXCEPT !.capacity = 0]
    BY <1>1, <1>3 DEF Shrunk, Storage
  <2>2. Released(a, freed.memory) /\ freed.array \in Record /\ ~freed.array.isView
    BY <1>1, DeallocateReleases
  <2>3. freed.array.data = Null
    BY DEF DeallocateMemory, Of, Storage, Record
  <2>. HIDE DEF freed
  <2>4. /\ s.array \in Record /\ s.array.capacity = 0 /\ ~s.array.isView
        /\ s.array.data = Null
    BY <2>1, <2>2, <2>3 DEF Record
  <2>. HIDE DEF s
  <2>5. s.array.capacity <= Room(s.memory, s.array)
    BY <2>4 DEF Room
  <2>6. Serves(a, s)
    BY <2>1, <2>2, <2>4, <2>5, BlockNames DEF Serves, Released
  <2>. QED  BY <1>3, <2>4, <2>6 DEF s
<1>4. CASE array[a].size # array[a].capacity /\ array[a].size # 0
  <2>1. s = Moved(Of(a), array[a].size) /\ array[a].size > 0
    BY <1>1, <1>4 DEF Shrunk
  <2>2. Serves(a, s) /\ s.array.capacity = array[a].size
    BY <1>1, <2>1, MovedServes
  <2>. QED  BY <1>1, <2>2
<1>. QED  BY <1>2, <1>3, <1>4
-----------------------------------------------------------------------------
(* Writing to an array.                                                    *)

(* An array whose memory stays as it is.                                   *)
LEMMA KeptFits ==
    ASSUME NEW m \in Memory, NEW n \in Memory, NEW x \in Record, Fits(m, x),
           x.data # Null => n[x.data] = m[x.data]
    PROVE  Fits(n, x) /\ BytesOf(n, x) = BytesOf(m, x)
<1>1. x.data \in Blocks \cup {Null} /\ x.size \in Nat /\ x.capacity \in Nat
  BY DEF Record
<1>2. Room(n, x) = Room(m, x) /\ BytesOf(n, x) = BytesOf(m, x)
  BY DEF Room, BytesOf
<1>3. \A i \in 1..x.size : n[x.data][i] \in Byte
  <2>1. \A i \in 1..x.size : x.data # Null
    BY BytesFacts
  <2>. QED  BY <2>1 DEF Fits
<1>4. x.data \in Buffer => n[x.data] = m[x.data]
  BY BlockNames
<1>. QED  BY <1>2, <1>3, <1>4 DEF Fits

LEMMA PutKeepsInv ==
    ASSUME Inv, NEW a \in Array, NEW s, Serves(a, s),
           NEW seq \in Seq(Byte), Len(seq) <= s.array.capacity,
           Put(a, s, seq), live' = live \cup {a}
    PROVE  /\ Inv' /\ mode' = mode /\ returned' = <<>>
           /\ \A b \in Array \ {a} : array'[b] = array[b]
           /\ ~array'[a].isView
           /\ \A o \in Object : memory'[o] = memory[o]
           /\ BytesOf(memory', array'[a]) = seq
           /\ \A b \in live \ {a} : BytesOf(memory', array'[b]) = Bytes(b)
<1>. DEFINE d == s.array.data
            x == [s.array EXCEPT !.size = Len(seq)]
            f == Filled(seq, Len(s.memory[d]))
<1>1. /\ s.memory \in Memory /\ s.array \in Record /\ ~s.array.isView
      /\ d \in Buffer \cup {Null} /\ s.array.capacity \in Nat /\ Len(seq) \in Nat
      /\ s.array.capacity <= Room(s.memory, s.array)
  BY DEF Serves, Record
<1>2. /\ x \in Record /\ x.size = Len(seq) /\ x.data = d /\ x.capacity = s.array.capacity
      /\ ~x.isView
  BY <1>1 DEF Record
<1>3. Room(s.memory, s.array) \in Nat
  BY <1>1, BlockNames DEF Room, Memory
<1>4. /\ memory' = IF d = Null THEN s.memory ELSE [s.memory EXCEPT ![d] = f]
      /\ array' = [array EXCEPT ![a] = x] /\ returned' = <<>> /\ mode' = mode
  BY <1>1, <1>3 DEF Put
<1>. HIDE DEF x
<1>5. d # Null => /\ d \in Blocks /\ f \in Seq(Cell) /\ Len(f) = Len(s.memory[d])
                  /\ \A i \in 1..Len(seq) : i \in 1..Len(f) /\ f[i] = seq[i]
                  /\ f # <<>> /\ Len(seq) <= Len(f)
  <2>. SUFFICES ASSUME d # Null
                PROVE  /\ d \in Blocks /\ f \in Seq(Cell) /\ Len(f) = Len(s.memory[d])
                       /\ \A i \in 1..Len(seq) : i \in 1..Len(f) /\ f[i] = seq[i]
                       /\ f # <<>> /\ Len(seq) <= Len(f)
    OBVIOUS
  <2>. DEFINE n == Len(s.memory[d])
  <2>1. d \in Blocks /\ d \in Buffer /\ s.memory[d] # <<>>
    BY <1>1, BlockNames DEF Serves
  <2>2. n \in Nat /\ n > 0
    BY <1>1, <2>1 DEF Memory
  <2>3. Len(seq) <= n
    BY <1>1, <2>2 DEF Room
  <2>. HIDE DEF n
  <2>4. /\ f \in Seq(Cell) /\ Len(f) = n /\ f # <<>>
        /\ \A i \in 1..n : i <= Len(seq) => f[i] = seq[i]
    BY <2>2, FilledFacts DEF n
  <2>. QED  BY <1>1, <2>1, <2>2, <2>3, <2>4 DEF n
<1>. HIDE DEF f
<1>6. memory' \in Memory /\ \A c \in Blocks : c # d => memory'[c] = s.memory[c]
  <2>1. CASE d = Null
    BY <1>1, <1>4, <2>1
  <2>2. CASE d # Null
    BY <1>1, <1>4, <1>5, <2>2 DEF Memory
  <2>. QED  BY <2>1, <2>2
<1>7. d # Null => memory'[d] = f
  BY <1>1, <1>4, <1>5 DEF Memory
<1>. HIDE DEF d
<1>8. \A c \in Blocks : c # d =>
        memory'[c] = IF c \in Buffer /\ c = array[a].data THEN <<>> ELSE memory[c]
  BY <1>6 DEF Serves, d
<1>9. array \in [Array -> Record] /\ memory \in Memory /\ live \subseteq Array
  BY DEF Inv
<1>10. /\ array' \in [Array -> Record] /\ array'[a] = x
       /\ \A b \in Array \ {a} : array'[b] = array[b]
  BY <1>2, <1>4, <1>9
<1>11. d = Null => Len(seq) = 0 /\ x.capacity = 0 /\ seq = <<>>
  <2>. SUFFICES ASSUME d = Null PROVE Len(seq) = 0 /\ x.capacity = 0 /\ seq = <<>>
    OBVIOUS
  <2>1. Room(s.memory, s.array) = 0
    BY DEF Room, d
  <2>2. s.array.capacity = 0 /\ Len(seq) = 0
    BY <1>1, <2>1
  <2>. QED  BY <1>2, <2>2
<1>12. Fits(memory', x) /\ BytesOf(memory', x) = seq
  <2>1. CASE d = Null
    <3>1. Room(memory', x) = 0 /\ BytesOf(memory', x) = <<>>
      BY <1>2, <2>1 DEF Room, BytesOf
    <3>. QED  BY <1>2, <1>11, <2>1, <3>1, BlockNames DEF Fits
  <2>2. CASE d # Null
    <3>1. Room(memory', x) = Len(f) /\ Len(f) = Len(s.memory[d])
      BY <1>2, <1>5, <1>7, <2>2 DEF Room, d
    <3>2. x.capacity <= Room(memory', x)
      BY <1>1, <1>2, <2>2, <3>1 DEF Room, d
    <3>3. \A i \in 1..Len(seq) : f[i] \in Byte
      BY <1>5, <2>2, ElementFacts
    <3>4. x.data \in Buffer \cup {Null} /\ (x.data \in Buffer => memory'[x.data] # <<>>)
      BY <1>1, <1>2, <1>5, <1>7, <2>2 DEF d
    <3>5. Fits(memory', x)
      BY <1>1, <1>2, <1>7, <2>2, <3>2, <3>3, <3>4 DEF Fits
    <3>6. /\ BytesOf(memory', x) \in Seq(Byte) /\ Len(BytesOf(memory', x)) = Len(seq)
          /\ \A i \in 1..Len(seq) : BytesOf(memory', x)[i] = f[i]
      BY <1>2, <1>6, <1>7, <2>2, <3>5, BytesFacts
    <3>7. \A i \in 1..Len(seq) : BytesOf(memory', x)[i] = seq[i]
      BY <1>5, <2>2, <3>6
    <3>8. BytesOf(memory', x) = seq
      BY <3>6, <3>7, SameSequence
    <3>. QED  BY <3>5, <3>8
  <2>. QED  BY <2>1, <2>2
<1>13. ASSUME NEW b \in live \ {a}
       PROVE  /\ array'[b] = array[b] /\ Fits(memory', array[b])
              /\ BytesOf(memory', array[b]) = Bytes(b)
              /\ array[b].data \in Buffer => array[b].data # d
  <2>1. b \in Array /\ array[b] \in Record /\ Fits(memory, array[b])
    BY <1>13, LiveFacts
  <2>2. array[b].data # Null => array[b].data \in Blocks
    BY <2>1 DEF Record
  <2>3. array[b].data \in Buffer => array[b].data # d
    BY <1>1, <1>13 DEF Serves, d
  <2>4. array[b].data \in Buffer => array[b].data # array[a].data
    <3>1. a \in live => (array[b].data \in Buffer => array[b].data # array[a].data)
      BY <1>13 DEF Inv
    <3>2. a \notin live => array[a].data = Null
      BY DEF Inv, Empty
    <3>. QED  BY <3>1, <3>2, BlockNames
  <2>5. array[b].data \notin Buffer /\ array[b].data # Null => array[b].data # d
    BY <1>1 DEF d
  <2>6. array[b].data # Null => memory'[array[b].data] = memory[array[b].data]
    BY <1>8, <2>2, <2>3, <2>4, <2>5
  <2>7. Fits(memory', array[b]) /\ BytesOf(memory', array[b]) = BytesOf(memory, array[b])
    BY <1>6, <1>9, <2>1, <2>6, KeptFits
  <2>. QED  BY <1>10, <1>13, <2>1, <2>3, <2>7 DEF Bytes
<1>14. \A o \in Object : memory'[o] = memory[o]
  BY <1>1, <1>8, BlockNames DEF d
<1>15. live' \subseteq Array /\ \A b \in live' : b = a \/ b \in live \ {a}
  BY <1>9
<1>16. \A b \in live' : Fits(memory', array'[b])
  BY <1>10, <1>12, <1>13, <1>15
<1>17. \A b \in Array \ live' : array'[b] = Empty
  BY <1>10 DEF Inv
<1>18. ASSUME NEW c \in Buffer, memory'[c] # <<>>
       PROVE  \E b \in live' : array'[b].data = c
  <2>1. CASE c = d
    BY <1>2, <1>10, <2>1 DEF d
  <2>2. CASE c # d
    <3>1. memory[c] # <<>> /\ c # array[a].data
      BY <1>8, <1>18, <2>2, BlockNames
    <3>2. PICK b \in live : array[b].data = c
      BY <3>1 DEF Inv
    <3>. QED  BY <1>13, <3>1, <3>2
  <2>. QED  BY <2>1, <2>2
<1>19. ASSUME NEW b \in live', NEW c \in live', array'[b].data \in Buffer,
              array'[b].data = array'[c].data
       PROVE  b = c
  <2>1. array'[a].data = d
    BY <1>2, <1>10 DEF d
  <2>2. CASE b = a \/ c = a
    BY <1>13, <1>15, <1>19, <2>1, <2>2
  <2>3. CASE b # a /\ c # a
    BY <1>13, <1>15, <1>19, <2>3 DEF Inv
  <2>. QED  BY <2>2, <2>3
<1>20. \A o \in Object : Whole(memory'[o])
  BY <1>14 DEF Inv
<1>21. <<>> \in Seq(Nat) /\ mode \in {"run", "failed"}
  BY DEF Inv
<1>22. Inv'
  <2>1. memory' \in Memory' /\ array' \in [Array -> Record]'
    BY <1>6, <1>10 DEF Memory, Record, Cell, Blocks
  <2>2. \A b \in live' : Fits(memory', array'[b])
    BY <1>16
  <2>. QED  BY <1>4, <1>15, <1>17, <1>18, <1>19, <1>20, <1>21, <2>1, <2>2 DEF Inv
<1>. QED  BY <1>2, <1>4, <1>10, <1>12, <1>13, <1>14, <1>22
(* A view of an object is made or written: the object gets the bytes.      *)
LEMMA ViewKeepsInv ==
    ASSUME Inv, NEW a \in Array, array[a].data \notin Buffer,
           NEW o \in Object, memory[o] # <<>>,
           NEW x \in Record, x.data = o, x.size = ObjectSize, x.capacity = ObjectSize, x.isView,
           NEW seq \in Seq(Byte), Len(seq) = ObjectSize,
           Put(a, Storage(memory, x), seq), live' = live \cup {a}
    PROVE  /\ Inv' /\ mode' = mode /\ returned' = <<>>
           /\ array' = [array EXCEPT ![a] = x]
           /\ memory' = [memory EXCEPT ![o] = seq]
<1>1. /\ memory \in Memory /\ array \in [Array -> Record] /\ live \subseteq Array
      /\ o \in Blocks /\ o # Null /\ o \notin Buffer
  BY BlockNames DEF Inv
<1>2. memory[o] \in Seq(Byte) /\ Len(memory[o]) = ObjectSize
  BY DEF Inv, Whole
<1>3. ObjectSize \in Nat /\ ObjectSize > 0
  BY ObjectSizeAssumption
<1>4. Filled(seq, ObjectSize) = seq
  <2>1. /\ Filled(seq, ObjectSize) \in Seq(Cell) /\ Len(Filled(seq, ObjectSize)) = ObjectSize
        /\ \A i \in 1..ObjectSize : i <= Len(seq) => Filled(seq, ObjectSize)[i] = seq[i]
    BY <1>3, FilledFacts
  <2>2. \A i \in 1..ObjectSize : Filled(seq, ObjectSize)[i] = seq[i]
    BY <1>3, <2>1
  <2>. QED  BY <2>1, <2>2, SameSequence
<1>5. Room(memory, x) = ObjectSize
  BY <1>1, <1>2 DEF Room
<1>6. Storage(memory, x).memory = memory /\ Storage(memory, x).array = x
  BY DEF Storage
<1>7. [x EXCEPT !.size = Len(seq)] = x
  BY DEF Record
<1>8. /\ memory' = [memory EXCEPT ![o] = Filled(seq, Len(@))]
      /\ array' = [array EXCEPT ![a] = x] /\ returned' = <<>> /\ mode' = mode
  BY <1>1, <1>3, <1>5, <1>6, <1>7 DEF Put
<1>9. memory' = [memory EXCEPT ![o] = seq]
  BY <1>2, <1>4, <1>8
<1>10. seq \in Seq(Cell)
  BY Narrowed, ElementFacts DEF Cell
<1>11. /\ memory' \in Memory /\ memory'[o] = seq
       /\ \A c \in Blocks : c # o => memory'[c] = memory[c]
  BY <1>1, <1>9, <1>10 DEF Memory
<1>12. /\ array' \in [Array -> Record] /\ array'[a] = x
       /\ \A b \in Array \ {a} : array'[b] = array[b]
  BY <1>1, <1>8
<1>13. ASSUME NEW y \in Record, y.isView, y.data = o, y.size = ObjectSize,
              y.capacity = ObjectSize
       PROVE  Fits(memory', y)
  <2>1. Room(memory', y) = ObjectSize
    BY <1>1, <1>11, <1>13 DEF Room
  <2>2. \A i \in 1..y.size : memory'[y.data][i] \in Byte
    BY <1>11, <1>13, ElementFacts
  <2>. QED  BY <1>3, <1>13, <2>1, <2>2 DEF Fits
<1>14. ASSUME NEW b \in live, b # a
       PROVE  Fits(memory', array'[b])
  <2>1. b \in Array /\ array'[b] = array[b] /\ array[b] \in Record /\ Fits(memory, array[b])
    BY <1>12, <1>14, LiveFacts
  <2>2. CASE array[b].data = o
    <3>1. array[b].isView /\ array[b].size = ObjectSize /\ Room(memory, array[b]) = ObjectSize
      BY <1>1, <1>2, <2>1, <2>2 DEF Fits, Room
    <3>2. array[b].capacity = ObjectSize
      BY <1>3, <2>1, <3>1 DEF Fits, Record
    <3>. QED  BY <1>13, <2>1, <2>2, <3>1, <3>2
  <2>3. CASE array[b].data # o
    <3>1. array[b].data # Null => memory'[array[b].data] = memory[array[b].data]
      BY <1>11, <2>1, <2>3 DEF Record
    <3>. QED  BY <1>1, <1>11, <2>1, <3>1, KeptFits
  <2>. QED  BY <2>2, <2>3
<1>15. live' \subseteq Array /\ \A b \in live' : b = a \/ (b \in live /\ b # a)
  BY <1>1
<1>16. \A b \in live' : Fits(memory', array'[b])
  BY <1>12, <1>13, <1>14, <1>15
<1>17. \A b \in Array \ live' : array'[b] = Empty
  BY <1>12 DEF Inv
<1>18. \A c \in Object : Whole(memory'[c])
  BY <1>11, BlockNames DEF Inv, Whole
<1>19. ASSUME NEW c \in Buffer, memory'[c] # <<>>
       PROVE  \E b \in live' : array'[b].data = c
  <2>1. memory[c] # <<>>
    BY <1>1, <1>11, <1>19, BlockNames
  <2>2. PICK b \in live : array[b].data = c
    BY <2>1 DEF Inv
  <2>. QED  BY <1>1, <1>12, <2>2
<1>20. ASSUME NEW b \in live', NEW c \in live', array'[b].data \in Buffer,
              array'[b].data = array'[c].data
       PROVE  b = c
  <2>1. b # a /\ c # a
    BY <1>1, <1>12, <1>20
  <2>. QED  BY <1>12, <1>15, <1>20, <2>1 DEF Inv
<1>21. <<>> \in Seq(Nat) /\ mode \in {"run", "failed"}
  BY DEF Inv
<1>22. memory' \in Memory' /\ array' \in [Array -> Record]'
  BY <1>11, <1>12 DEF Memory, Record, Cell, Blocks
<1>23. Inv'
  BY <1>8, <1>15, <1>16, <1>17, <1>18, <1>19, <1>20, <1>21, <1>22 DEF Inv
<1>. QED  BY <1>8, <1>9, <1>23
-----------------------------------------------------------------------------
(* What the user sees.                                                     *)

LEMMA PlaceFacts ==
    ASSUME Inv
    PROVE  /\ Places \in [Array -> Array \cup Object \cup {Absent}]
           /\ \A a \in live :
                /\ Places[a] = IF array[a].isView THEN array[a].data ELSE a
                /\ Places[a] # Absent /\ Places[a] \in DOMAIN Contents
                /\ Places[a] \in Object <=> array[a].isView
                /\ Contents[Places[a]] = Bytes(a)
           /\ \A a \in Array : Places[a] = Absent <=> a \notin live
           /\ DOMAIN Contents = Array \cup Object
           /\ \A o \in Object : Contents[o] = memory[o]
           /\ \A a \in Array : Contents[a] = IF array[a].isView THEN <<>> ELSE Bytes(a)
<1>1. \A a \in Array : a \notin Object /\ a # Absent
  BY NameAssumption DEF Absent
<1>2. \A o \in Object : o # Absent
  BY NameAssumption DEF Absent
<1>3. \A a \in live : array[a].isView => array[a].data \in Object
  BY DEF Inv, Fits
<1>4. live \subseteq Array
  BY DEF Inv
<1>5. \A a \in Array : Places[a] = IF a \notin live THEN Absent
                                  ELSE IF array[a].isView THEN array[a].data ELSE a
  BY DEF Places
<1>6. /\ DOMAIN Contents = Array \cup Object
      /\ \A o \in Object : Contents[o] = memory[o]
      /\ \A a \in Array : Contents[a] = IF array[a].isView THEN <<>> ELSE Bytes(a)
  BY <1>1 DEF Contents
<1>7. Places \in [Array -> Array \cup Object \cup {Absent}]
  BY <1>3, <1>4, <1>5 DEF Places
<1>8. ASSUME NEW a \in live, array[a].isView
      PROVE  Bytes(a) = memory[array[a].data]
  <2>. DEFINE d == memory[array[a].data]
  <2>1. array[a].data \in Object /\ array[a].size = ObjectSize /\ Fits(memory, array[a])
    BY <1>8 DEF Inv, Fits
  <2>2. Whole(d)
    BY <2>1 DEF Inv
  <2>3. Room(memory, array[a]) = Len(d) /\ Bytes(a) = SubSeq(d, 1, ObjectSize)
    BY <2>1, BlockNames DEF Room, Bytes, BytesOf
  <2>4. ObjectSize <= Len(d)
    BY <2>1, <2>3, LiveFacts
  <2>. HIDE DEF d
  <2>5. d \in Seq(Byte) /\ Len(d) = ObjectSize
    <3>1. d = <<>> => Len(d) = 0
      OBVIOUS
    <3>. QED  BY <2>2, <2>4, <3>1, ObjectSizeAssumption DEF Whole
  <2>6. SubSeq(d, 1, ObjectSize) = d
    BY <2>5
  <2>. QED  BY <2>3, <2>6 DEF d
<1>. QED  BY <1>1, <1>2, <1>3, <1>4, <1>5, <1>6, <1>7, <1>8

LEMMA AbstractFacts ==
    ASSUME Inv, NEW a \in Array, Exists(a)
    PROVE  /\ Promise!Exists(a) /\ a \in live /\ mode = "run"
           /\ Promise!Elements(a) = Bytes(a) /\ Promise!Length(a) = array[a].size
           /\ Promise!Fixed(a) <=> array[a].isView
<1>1. a \in live /\ mode = "run"
  BY DEF Exists
<1>2. Contents[Places[a]] = Bytes(a) /\ Places[a] # Absent
      /\ (Places[a] \in Object <=> array[a].isView)
  BY <1>1, PlaceFacts
<1>3. Len(Bytes(a)) = array[a].size
  BY <1>1, LiveFacts
<1>. QED  BY <1>1, <1>2, <1>3 DEF Promise!Exists, Promise!Elements, Promise!Length,
                                  Promise!Fixed, Promise!Absent, Absent

(* An array of its own gets the elements of seq.                           *)
LEMMA PutMaps ==
    ASSUME Inv, NEW a \in Array, NEW s, Serves(a, s),
           NEW seq \in Seq(Byte), Len(seq) <= s.array.capacity,
           Put(a, s, seq), live' = live \cup {a}
    PROVE  /\ Inv' /\ mode' = mode /\ returned' = <<>>
           /\ Places' = [Places EXCEPT ![a] = a]
           /\ Contents' = [Contents EXCEPT ![a] = seq]
<1>1. /\ Inv' /\ mode' = mode /\ returned' = <<>>
      /\ \A b \in Array \ {a} : array'[b] = array[b]
      /\ ~array'[a].isView
      /\ \A o \in Object : memory'[o] = memory[o]
      /\ BytesOf(memory', array'[a]) = seq
      /\ \A b \in live \ {a} : BytesOf(memory', array'[b]) = Bytes(b)
  BY PutKeepsInv
<1>2. a \notin Object
  BY NameAssumption
<1>3. ASSUME NEW b \in Array
      PROVE  Places'[b] = IF b = a THEN a ELSE Places[b]
  BY <1>1, <1>3 DEF Places
<1>4. Places' = [Places EXCEPT ![a] = a]
  <2>1. Places' = [b \in Array |-> Places'[b]]
    BY DEF Places
  <2>2. Places = [b \in Array |-> Places[b]]
    BY DEF Places
  <2>. QED  BY <1>3, <2>1, <2>2
<1>5. ASSUME NEW p \in Array \cup Object
      PROVE  Contents'[p] = IF p = a THEN seq ELSE Contents[p]
  <2>1. CASE p \in Object
    BY <1>1, <1>2, <2>1 DEF Contents
  <2>2. CASE p \in Array
    <3>. DEFINE y == array'[p]
    <3>1. p \notin Object
      BY <2>2, NameAssumption
    <3>2. Contents'[p] = IF y.isView THEN <<>> ELSE BytesOf(memory', y)
      BY <2>2, <3>1 DEF Contents, Bytes
    <3>3. Contents[p] = IF array[p].isView THEN <<>> ELSE Bytes(p)
      BY <2>2, <3>1 DEF Contents
    <3>4. CASE p = a
      BY <1>1, <3>2, <3>4
    <3>5. CASE p # a /\ p \in live
      BY <1>1, <2>2, <3>2, <3>3, <3>5
    <3>6. CASE p # a /\ p \notin live
      <4>1. array[p] = Empty /\ y = Empty
        BY <1>1, <2>2, <3>6 DEF Inv
      <4>. HIDE DEF y
      <4>2. BytesOf(memory', Empty) = <<>> /\ BytesOf(memory, Empty) = <<>>
        BY DEF BytesOf, Empty
      <4>. QED  BY <3>2, <3>3, <3>6, <4>1, <4>2 DEF Bytes
    <3>. QED  BY <3>4, <3>5, <3>6
  <2>. QED  BY <1>5, <2>1, <2>2
<1>6. Contents' = [Contents EXCEPT ![a] = seq]
  <2>1. Contents' = [p \in Array \cup Object |-> Contents'[p]]
    BY DEF Contents
  <2>2. Contents = [p \in Array \cup Object |-> Contents[p]]
    BY DEF Contents
  <2>. QED  BY <1>5, <2>1, <2>2
<1>. QED  BY <1>1, <1>4, <1>6

(* The program goes on with nothing changed, or stops at an error.         *)
LEMMA ReturnMaps ==
    ASSUME Inv, NEW v \in Seq(Nat), Return(v)
    PROVE  Inv' /\ Places' = Places /\ Contents' = Contents /\ mode' = mode /\ returned' = v
<1>1. UNCHANGED <<memory, live, array, mode>> /\ returned' = v
  BY DEF Return
<1>2. Places' = Places /\ Contents' = Contents
  BY <1>1 DEF Places, Contents, Bytes
<1>3. Inv'
  BY <1>1 DEF Inv, Memory, Record, Cell, Blocks
<1>. QED  BY <1>1, <1>2, <1>3

LEMMA FailMaps ==
    ASSUME Inv, Stop("failed")
    PROVE  Inv' /\ Promise!Fail
<1>1. UNCHANGED <<memory, live, array>> /\ returned' = <<>> /\ mode' = "failed"
  BY DEF Stop
<1>2. Places' = Places /\ Contents' = Contents
  BY <1>1 DEF Places, Contents, Bytes
<1>3. <<>> \in Seq(Nat)
  OBVIOUS
<1>4. Inv'
  BY <1>1, <1>3 DEF Inv, Memory, Record, Cell, Blocks
<1>. QED  BY <1>1, <1>2, <1>4 DEF Promise!Fail

LEMMA ChangeMaps ==
    ASSUME Inv, NEW a \in Array, NEW s, NEW seq, Change(a, s, seq),
           a \in live /\ ~array[a].isView =>
             Serves(a, s) /\ seq \in Seq(Byte) /\ Len(seq) <= s.array.capacity
    PROVE  /\ Inv'
           /\ Promise!Exists(a) /\ Promise!Elements(a) = Bytes(a)
           /\ Promise!Length(a) = array[a].size
           /\ Promise!Refuse(a) \/ Promise!Become(a, seq)
<1>1. Exists(a)
  BY DEF Change
<1>2. /\ Promise!Exists(a) /\ a \in live /\ mode = "run"
      /\ Promise!Elements(a) = Bytes(a) /\ Promise!Length(a) = array[a].size
      /\ Promise!Fixed(a) <=> array[a].isView
  BY <1>1, AbstractFacts
<1>3. CASE array[a].isView
  <2>1. Stop("failed")
    BY <1>3 DEF Change
  <2>. QED  BY <1>2, <1>3, <2>1, FailMaps DEF Promise!Refuse
<1>4. CASE ~array[a].isView
  <2>1. Put(a, s, seq) /\ live' = live \cup {a}
    BY <1>2, <1>4 DEF Change
  <2>2. /\ Inv' /\ mode' = mode /\ returned' = <<>>
        /\ Places' = [Places EXCEPT ![a] = a]
        /\ Contents' = [Contents EXCEPT ![a] = seq]
    BY <1>2, <1>4, <2>1, PutMaps
  <2>3. Places[a] = a /\ Places \in [Array -> Array \cup Object \cup {Absent}]
    BY <1>2, <1>4, PlaceFacts
  <2>4. Places' = Places
    BY <2>2, <2>3
  <2>5. Promise!Become(a, seq)
    BY <1>2, <1>4, <2>2, <2>4 DEF Promise!Become, Promise!Return
  <2>. QED  BY <1>2, <2>2, <2>5
<1>. QED  BY <1>3, <1>4
-----------------------------------------------------------------------------
(* The builtins, one by one.                                               *)

LEMMA ClearMaps ==
    ASSUME Inv, NEW a \in Array, Clear(a)
    PROVE  Inv' /\ (Promise!Clear(a) \/ Promise!Refuse(a))
<1>1. Change(a, Of(a), <<>>)
  BY DEF Clear
<1>2. ASSUME a \in live, ~array[a].isView
      PROVE  Serves(a, Of(a)) /\ <<>> \in Seq(Byte) /\ Len(<<>>) <= Of(a).array.capacity
  <2>1. Of(a).array.capacity \in Nat
    BY <1>2, LiveFacts DEF Of, Storage
  <2>. QED  BY <1>2, <2>1, OwnServes
<1>. QED  BY <1>1, <1>2, ChangeMaps DEF Promise!Clear

LEMMA StorageMaps ==
    ASSUME Inv, NEW a \in Array, (\E n \in Size : Reserve(a, n)) \/ ShrinkToFit(a)
    PROVE  Inv' /\ (Promise!ReserveOrShrink(a) \/ Promise!Refuse(a))
<1>1. ASSUME NEW s, Change(a, s, Bytes(a)),
             a \in live /\ ~array[a].isView =>
               Serves(a, s) /\ s.array.capacity >= array[a].size
      PROVE  Inv' /\ (Promise!ReserveOrShrink(a) \/ Promise!Refuse(a))
  <2>1. ASSUME a \in live, ~array[a].isView
        PROVE  Serves(a, s) /\ Bytes(a) \in Seq(Byte) /\ Len(Bytes(a)) <= s.array.capacity
    <3>1. Serves(a, s) /\ s.array.capacity >= array[a].size /\ s.array.capacity \in Nat
      BY <1>1, <2>1 DEF Serves, Record
    <3>2. Bytes(a) \in Seq(Byte) /\ Len(Bytes(a)) = array[a].size /\ array[a].size \in Nat
      BY <2>1, LiveFacts
    <3>. QED  BY <3>1, <3>2
  <2>. QED  BY <1>1, <2>1, ChangeMaps DEF Promise!ReserveOrShrink
<1>2. ASSUME NEW n \in Size, Reserve(a, n)
      PROVE  Inv' /\ (Promise!ReserveOrShrink(a) \/ Promise!Refuse(a))
  <2>1. ASSUME a \in live, ~array[a].isView
        PROVE  /\ Serves(a, Reserved(Of(a), n))
               /\ Reserved(Of(a), n).array.capacity >= array[a].size
    <3>1. n \in Nat
      BY SizeAssumption
    <3>2. /\ Serves(a, Reserved(Of(a), n))
          /\ Reserved(Of(a), n).array.capacity >= array[a].capacity
      BY <2>1, <3>1, ReservedServes
    <3>3. /\ array[a].size <= array[a].capacity
          /\ array[a].size \in Nat /\ array[a].capacity \in Nat
      BY <2>1, LiveFacts
    <3>4. Reserved(Of(a), n).array.capacity \in Nat
      BY <3>2 DEF Serves, Record
    <3>. QED  BY <3>2, <3>3, <3>4
  <2>. QED  BY <1>1, <1>2, <2>1 DEF Reserve
<1>3. ASSUME ShrinkToFit(a)
      PROVE  Inv' /\ (Promise!ReserveOrShrink(a) \/ Promise!Refuse(a))
  BY <1>1, <1>3, ShrunkServes DEF ShrinkToFit
<1>. QED  BY <1>2, <1>3

LEMMA AddMaps ==
    ASSUME Inv, NEW a \in Array, NEW e \in Byte, Add(a, e)
    PROVE  Inv' /\ (Promise!Add(a, e) \/ Promise!Refuse(a))
<1>1. Change(a, Grown(Of(a)), Append(Bytes(a), e))
  BY DEF Add
<1>2. ASSUME a \in live, ~array[a].isView
      PROVE  /\ Serves(a, Grown(Of(a))) /\ Append(Bytes(a), e) \in Seq(Byte)
             /\ Len(Append(Bytes(a), e)) <= Grown(Of(a)).array.capacity
  <2>1. Serves(a, Grown(Of(a))) /\ Grown(Of(a)).array.capacity >= array[a].size + 1
    BY <1>2, GrownServes
  <2>2. Bytes(a) \in Seq(Byte) /\ Len(Bytes(a)) = array[a].size /\ array[a].size \in Nat
    BY <1>2, LiveFacts
  <2>3. Append(Bytes(a), e) \in Seq(Byte) /\ Len(Append(Bytes(a), e)) = array[a].size + 1
    BY <2>2
  <2>4. Grown(Of(a)).array.capacity \in Nat
    BY <2>1 DEF Serves, Record
  <2>. QED  BY <2>1, <2>2, <2>3, <2>4
<1>. QED  BY <1>1, <1>2, ChangeMaps DEF Promise!Add

LEMMA InsertMaps ==
    ASSUME Inv, NEW a \in Array, NEW i \in Index, NEW e \in Byte, InsertAt(a, i, e)
    PROVE  Inv' /\ (Promise!InsertAt(a, i, e) \/ Promise!Refuse(a))
<1>. DEFINE k == InsertIndex(i, array[a].size)
            seq == Seqs!InsertAt(Bytes(a), k + 1, e)
<1>1. Change(a, Grown(Of(a)), seq)
  BY DEF InsertAt
<1>2. ASSUME a \in live, ~array[a].isView
      PROVE  /\ Serves(a, Grown(Of(a))) /\ seq \in Seq(Byte)
             /\ Len(seq) <= Grown(Of(a)).array.capacity
  <2>1. Serves(a, Grown(Of(a))) /\ Grown(Of(a)).array.capacity >= array[a].size + 1
    BY <1>2, GrownServes
  <2>2. Bytes(a) \in Seq(Byte) /\ Len(Bytes(a)) = array[a].size /\ array[a].size \in Nat
    BY <1>2, LiveFacts
  <2>3. k + 1 \in 1..(Len(Bytes(a)) + 1)
    <3>1. i \in Int
      BY SizeAssumption
    <3>. QED  BY <2>2, <3>1, IndexFacts
  <2>4. seq \in Seq(Byte) /\ Len(seq) = array[a].size + 1
    BY <2>2, <2>3, InsertFacts
  <2>5. Grown(Of(a)).array.capacity \in Nat
    BY <2>1 DEF Serves, Record
  <2>. QED  BY <2>1, <2>2, <2>4, <2>5
<1>. HIDE DEF seq
<1>3. /\ Inv' /\ Promise!Exists(a) /\ Promise!Elements(a) = Bytes(a)
      /\ Promise!Length(a) = array[a].size
      /\ Promise!Refuse(a) \/ Promise!Become(a, seq)
  BY <1>1, <1>2, ChangeMaps
<1>4. seq = Promise!Seqs!InsertAt(Promise!Elements(a), InsertIndex(i, Promise!Length(a)) + 1, e)
  BY <1>3 DEF seq, Seqs!InsertAt, Promise!Seqs!InsertAt
<1>. QED  BY <1>3, <1>4 DEF Promise!InsertAt

LEMMA RemoveMaps ==
    ASSUME Inv, NEW a \in Array, NEW i \in Index, RemoveAt(a, i)
    PROVE  Inv' /\ (Promise!RemoveAt(a, i) \/ Promise!Refuse(a))
<1>. DEFINE k == CircularIndex(i, array[a].size)
            seq == Seqs!RemoveAt(Bytes(a), k + 1)
<1>1. Change(a, Of(a), seq) /\ array[a].size > 0
  BY DEF RemoveAt
<1>2. ASSUME a \in live, ~array[a].isView
      PROVE  /\ Serves(a, Of(a)) /\ seq \in Seq(Byte)
             /\ Len(seq) <= Of(a).array.capacity
  <2>1. Of(a).array.capacity = array[a].capacity
    BY DEF Of, Storage
  <2>2. /\ Bytes(a) \in Seq(Byte) /\ Len(Bytes(a)) = array[a].size /\ array[a].size \in Nat
        /\ array[a].capacity \in Nat /\ array[a].size <= array[a].capacity
    BY <1>2, LiveFacts
  <2>3. k + 1 \in 1..Len(Bytes(a))
    <3>1. i \in Int
      BY SizeAssumption
    <3>. QED  BY <1>1, <2>2, <3>1, IndexFacts
  <2>4. seq \in Seq(Byte) /\ Len(seq) = array[a].size - 1
    BY <2>2, <2>3, RemoveFacts
  <2>. QED  BY <1>2, <2>1, <2>2, <2>4, OwnServes
<1>. HIDE DEF seq
<1>3. /\ Inv' /\ Promise!Exists(a) /\ Promise!Elements(a) = Bytes(a)
      /\ Promise!Length(a) = array[a].size
      /\ Promise!Refuse(a) \/ Promise!Become(a, seq)
  BY <1>1, <1>2, ChangeMaps
<1>4. seq = Promise!Seqs!RemoveAt(Promise!Elements(a), Promise!Wrap(i, Promise!Length(a)))
  BY <1>3 DEF seq, Seqs!RemoveAt, Promise!Seqs!RemoveAt, Promise!Wrap, CircularIndex
<1>. QED  BY <1>1, <1>3, <1>4 DEF Promise!RemoveAt

LEMMA SetMaps ==
    ASSUME Inv, NEW a \in Array, NEW i \in Index, NEW e \in Byte, SetAt(a, i, e)
    PROVE  Inv' /\ Promise!SetAt(a, i, e)
<1>. DEFINE k == CircularIndex(i, array[a].size)
            seq == Seqs!ReplaceAt(Bytes(a), k + 1, e)
<1>1. Exists(a) /\ array[a].size > 0
  BY DEF SetAt
<1>2. /\ Promise!Exists(a) /\ a \in live /\ mode = "run"
      /\ Promise!Elements(a) = Bytes(a) /\ Promise!Length(a) = array[a].size
  BY <1>1, AbstractFacts
<1>3. /\ Bytes(a) \in Seq(Byte) /\ Len(Bytes(a)) = array[a].size /\ array[a].size \in Nat
      /\ array[a].capacity \in Nat /\ array[a].size <= array[a].capacity /\ Readable(a)
      /\ array[a] \in Record /\ Fits(memory, array[a])
  BY <1>2, LiveFacts
<1>4. Put(a, Of(a), seq) /\ live' = live \cup {a}
  BY <1>2, <1>3 DEF SetAt
<1>5. k + 1 \in 1..Len(Bytes(a))
  <2>1. i \in Int
    BY SizeAssumption
  <2>. QED  BY <1>1, <1>3, <2>1, IndexFacts
<1>6. seq \in Seq(Byte) /\ Len(seq) = array[a].size
  BY <1>3, <1>5, ReplaceFacts
<1>7. seq = Promise!Seqs!ReplaceAt(Bytes(a), Promise!Wrap(i, Promise!Length(a)), e)
  BY <1>2 DEF Seqs!ReplaceAt, Promise!Seqs!ReplaceAt, Promise!Wrap, CircularIndex
<1>. HIDE DEF seq
<1>8. Places[a] \in DOMAIN Contents /\ Contents[Places[a]] = Bytes(a)
  BY <1>2, PlaceFacts
<1>9. ASSUME Inv', mode' = mode, returned' = <<>>, Places' = Places,
             Contents' = [Contents EXCEPT ![Places[a]] = seq]
      PROVE  Inv' /\ Promise!SetAt(a, i, e)
  <2>1. Promise!Length(a) > 0
    BY <1>1, <1>2
  <2>2. Contents' = [Contents EXCEPT ![Places[a]] =
                       Promise!Seqs!ReplaceAt(@, Promise!Wrap(i, Promise!Length(a)), e)]
    BY <1>7, <1>8, <1>9
  <2>. QED  BY <1>2, <1>9, <2>1, <2>2 DEF Promise!SetAt, Promise!Return
<1>10. CASE ~array[a].isView
  <2>1. Of(a).array.capacity = array[a].capacity
    BY DEF Of, Storage
  <2>2. Serves(a, Of(a)) /\ Len(seq) <= Of(a).array.capacity
    BY <1>2, <1>3, <1>6, <1>10, <2>1, OwnServes
  <2>3. /\ Inv' /\ mode' = mode /\ returned' = <<>>
        /\ Places' = [Places EXCEPT ![a] = a]
        /\ Contents' = [Contents EXCEPT ![a] = seq]
    BY <1>4, <1>6, <2>2, PutMaps
  <2>4. Places[a] = a /\ Places \in [Array -> Array \cup Object \cup {Absent}]
    BY <1>2, <1>10, PlaceFacts
  <2>. QED  BY <1>9, <2>3, <2>4
<1>11. CASE array[a].isView
  <2>. DEFINE x == array[a]
              o == x.data
  <2>1. o \in Object /\ x.size = ObjectSize /\ o \notin Buffer /\ o # Null
    BY <1>3, <1>11, BlockNames DEF Fits
  <2>2. Whole(memory[o]) /\ Room(memory, x) = Len(memory[o])
    BY <2>1, BlockNames DEF Inv, Room
  <2>3. memory[o] # <<>> /\ x.capacity = ObjectSize
    <3>1. x.size <= x.capacity /\ x.capacity <= Len(memory[o])
      BY <1>3, <2>2 DEF Fits
    <3>2. memory[o] = <<>> => Len(memory[o]) = 0
      OBVIOUS
    <3>. QED  BY <1>3, <2>1, <2>2, <3>1, <3>2, ObjectSizeAssumption DEF Whole
  <2>4. Put(a, Storage(memory, x), seq)
    BY <1>4 DEF Of
  <2>5. array[a] = x
    OBVIOUS
  <2>. HIDE DEF x
  <2>6. /\ Inv' /\ mode' = mode /\ returned' = <<>>
        /\ array' = [array EXCEPT ![a] = x]
        /\ memory' = [memory EXCEPT ![o] = seq]
    BY <1>3, <1>4, <1>6, <1>11, <2>1, <2>2, <2>3, <2>4, <2>5, ViewKeepsInv
  <2>7. array' = array /\ live' = live
    BY <1>2, <1>4, <2>5, <2>6 DEF Inv
  <2>8. Places' = Places
    BY <2>7 DEF Places
  <2>9. ASSUME NEW p \in Array \cup Object
        PROVE  Contents'[p] = IF p = o THEN seq ELSE Contents[p]
    <3>1. CASE p \in Object
      BY <2>1, <2>6, <3>1, BlockNames DEF Contents, Inv, Memory
    <3>2. CASE p \in Array
      <4>1. p \notin Object /\ p # o
        BY <2>1, <3>2, NameAssumption
      <4>2. CASE p \in live
        <5>1. array[p] \in Record /\ Fits(memory, array[p]) /\ array[p].data \in Blocks \cup {Null}
          BY <4>2, LiveFacts
        <5>2. ~array[p].isView => array[p].data # o
          BY <2>1, <5>1 DEF Fits
        <5>3. ~array[p].isView => BytesOf(memory', array[p]) = BytesOf(memory, array[p])
          BY <2>6, <5>1, <5>2 DEF BytesOf, Inv, Memory
        <5>. QED  BY <2>7, <3>2, <4>1, <5>3 DEF Contents, Bytes
      <4>3. CASE p \notin live
        <5>1. array[p].data = Null
          BY <3>2, <4>3 DEF Inv, Empty
        <5>. QED  BY <2>7, <3>2, <4>1, <5>1 DEF Contents, Bytes, BytesOf
      <4>. QED  BY <4>2, <4>3
    <3>. QED  BY <2>9, <3>1, <3>2
  <2>10. Places[a] = o
    BY <1>2, <1>11, <2>5, PlaceFacts
  <2>11. Contents' = [Contents EXCEPT ![o] = seq]
    <3>1. Contents' = [p \in Array \cup Object |-> Contents'[p]]
      BY DEF Contents
    <3>2. Contents = [p \in Array \cup Object |-> Contents[p]]
      BY DEF Contents
    <3>. QED  BY <2>9, <3>1, <3>2
  <2>. QED  BY <1>9, <2>6, <2>8, <2>10, <2>11
<1>. QED  BY <1>10, <1>11

(* An array is made, of its own.                                           *)
LEMMA CreateMaps ==
    ASSUME Inv, NEW a \in Array, NEW s, NEW seq \in Seq(Byte), Create(a, s, seq),
           a \notin live => Serves(a, s), Len(seq) <= s.array.capacity
    PROVE  /\ mode = "run" /\ Places[a] = Absent
           /\ Inv' /\ mode' = mode /\ returned' = <<>>
           /\ Places' = [Places EXCEPT ![a] = a]
           /\ Contents' = [Contents EXCEPT ![a] = seq]
<1>1. mode = "run" /\ a \notin live /\ Put(a, s, seq)
  BY DEF Create
<1>2. Serves(a, s) /\ Places[a] = Absent
  BY <1>1, PlaceFacts
<1>3. Len(seq) <= Room(s.memory, s.array)
  <2>1. /\ s.array.capacity <= Room(s.memory, s.array) /\ s.array.capacity \in Nat
        /\ s.memory \in Memory /\ s.array.data \in Buffer \cup {Null}
    BY <1>2 DEF Serves, Record
  <2>2. Room(s.memory, s.array) \in Nat
    BY <2>1, BlockNames DEF Room, Memory
  <2>. QED  BY <2>1, <2>2
<1>4. mode' = "run"
  <2>1. Room(s.memory, s.array) \in Nat
    BY <1>2, BlockNames DEF Room, Memory, Serves
  <2>. QED  BY <1>1, <1>3, <2>1 DEF Put
<1>5. live' = live \cup {a}
  BY <1>4 DEF Create
<1>. QED  BY <1>1, <1>2, <1>5, PutMaps

(* Room for n bytes, for an array that does not exist yet.                 *)
LEMMA NewServes ==
    ASSUME Inv, NEW a \in Array, a \notin live, NEW n \in Nat
    PROVE  LET s == AllocateMemory(Storage(memory, [Empty EXCEPT !.capacity = n]), n)
           IN Serves(a, s) /\ s.array.capacity = n
<1>. DEFINE x == [Empty EXCEPT !.capacity = n]
            s == AllocateMemory(Storage(memory, x), n)
<1>1. x \in Record /\ x.capacity = n /\ ~x.isView
  BY DEF Empty, Record
<1>2. array[a].data = Null /\ memory \in Memory
  BY DEF Inv, Empty
<1>3. Released(a, memory)
  BY <1>2, BlockNames DEF Released
<1>. HIDE DEF x
<1>4. s.array = [x EXCEPT !.data = Null] \/ s.array = [x EXCEPT !.data = Fresh(memory)]
  BY DEF AllocateMemory, Storage
<1>5. Fresh(memory) \in Blocks
  BY <1>3, FreshFacts, BlockNames
<1>6. s.array \in Record /\ s.array.capacity = n /\ ~s.array.isView
  BY <1>1, <1>4, <1>5 DEF Record
<1>7. Serves(a, s)
  <2>. DEFINE t == s
  <2>1. t.memory = s.memory /\ t.array.data = s.array.data
    OBVIOUS
  <2>. QED  BY <1>1, <1>3, <1>6, <2>1, AllocationServes
<1>. QED  BY <1>6, <1>7 DEF x

LEMMA ConstructMaps ==
    ASSUME Inv, NEW a \in Array, NEW n \in Size, NEW e \in Byte, Construct(a, n, e)
    PROVE  Inv' /\ Promise!Construct(a, n, e)
<1>. DEFINE c == IF n = 0 THEN 1 ELSE n
            s == AllocateMemory(Storage(memory, [Empty EXCEPT !.capacity = c]), c)
            seq == [i \in 1..n |-> e]
<1>1. n \in Nat /\ c \in Nat /\ n <= c
  BY SizeAssumption
<1>2. Create(a, s, seq)
  BY DEF Construct
<1>3. seq \in Seq(Byte) /\ Len(seq) = n
  <2>1. seq \in [1..n -> Byte]
    OBVIOUS
  <2>. HIDE DEF seq
  <2>. QED  BY <1>1, <2>1, TupleFacts
<1>. HIDE DEF c
<1>4. a \notin live
  BY <1>2 DEF Create
<1>5. Serves(a, s) /\ s.array.capacity = c
  BY <1>1, <1>4, NewServes
<1>. HIDE DEF s
<1>6. Len(seq) <= s.array.capacity
  BY <1>1, <1>3, <1>5
<1>7. /\ mode = "run" /\ Places[a] = Absent
      /\ Inv' /\ mode' = mode /\ returned' = <<>>
      /\ Places' = [Places EXCEPT ![a] = a]
      /\ Contents' = [Contents EXCEPT ![a] = seq]
  <2>. HIDE DEF seq
  <2>. QED  BY <1>2, <1>3, <1>5, <1>6, CreateMaps
<1>. QED  BY <1>7 DEF Promise!Construct, Promise!Return, Promise!Absent, Absent

LEMMA CopyConstructMaps ==
    ASSUME Inv, NEW a \in Array, NEW b \in Array, CopyConstruct(a, b)
    PROVE  Inv' /\ Promise!CopyConstruct(a, b)
<1>. DEFINE c == array[b].capacity
            s == AllocateMemory(Storage(memory, [Empty EXCEPT !.capacity = c]), c)
<1>1. Exists(b) /\ b \in live
  BY DEF CopyConstruct, Exists
<1>2. /\ Readable(b) /\ Bytes(b) \in Seq(Byte) /\ Len(Bytes(b)) = array[b].size
      /\ c \in Nat /\ array[b].size \in Nat /\ array[b].size <= c
  BY <1>1, LiveFacts
<1>3. Create(a, s, Bytes(b))
  BY <1>2 DEF CopyConstruct
<1>. HIDE DEF c
<1>4. a \notin live
  BY <1>3 DEF Create
<1>5. Serves(a, s) /\ s.array.capacity = c
  BY <1>2, <1>4, NewServes
<1>. HIDE DEF s
<1>6. Len(Bytes(b)) <= s.array.capacity
  BY <1>2, <1>5
<1>7. /\ mode = "run" /\ Places[a] = Absent
      /\ Inv' /\ mode' = mode /\ returned' = <<>>
      /\ Places' = [Places EXCEPT ![a] = a]
      /\ Contents' = [Contents EXCEPT ![a] = Bytes(b)]
  BY <1>2, <1>3, <1>5, <1>6, CreateMaps
<1>8. Promise!Exists(b) /\ Promise!Elements(b) = Bytes(b)
  BY <1>1, AbstractFacts
<1>. QED  BY <1>7, <1>8 DEF Promise!CopyConstruct, Promise!Return, Promise!Absent, Absent

LEMMA CopyAssignMaps ==
    ASSUME Inv, Traps = {}, NEW a \in Array, NEW b \in Array, CopyAssign(a, b)
    PROVE  Inv' /\ Promise!CopyAssign(a, b)
<1>. DEFINE x == array[a]
            y == array[b]
            anew == y.size > x.capacity \/ x.isView
            s == IF anew THEN AllocateMemory(DeallocateMemory(Of(a)), y.capacity) ELSE Of(a)
            t == Storage(s.memory, [s.array EXCEPT !.capacity = y.capacity, !.isView = FALSE])
<1>1. /\ Exists(a) /\ a \in live /\ Exists(b) /\ b \in live
      /\ anew \/ y.capacity <= x.capacity
  BY DEF CopyAssign, Exists
<1>2. Promise!Exists(a) /\ Promise!Exists(b) /\ Promise!Elements(b) = Bytes(b)
  BY <1>1, AbstractFacts
<1>3. CASE a = b
  <2>1. Return(<<>>) /\ <<>> \in Seq(Nat)
    BY <1>3 DEF CopyAssign
  <2>2. Inv' /\ Places' = Places /\ Contents' = Contents /\ mode' = mode /\ returned' = <<>>
    BY <2>1, ReturnMaps
  <2>. QED  BY <1>2, <1>3, <2>2 DEF Promise!CopyAssign, Promise!Return
<1>4. CASE a # b
  <2>1. /\ Readable(b) /\ Bytes(b) \in Seq(Byte) /\ Len(Bytes(b)) = y.size
        /\ y.capacity \in Nat /\ y.size \in Nat /\ y.size <= y.capacity
    BY <1>1, LiveFacts
  <2>2. Put(a, t, Bytes(b)) /\ live' = live \cup {a}
    BY <1>1, <1>4, <2>1 DEF CopyAssign
  <2>3. Serves(a, t) /\ t.array.capacity = y.capacity
    <3>1. CASE anew
      <4>. DEFINE freed == DeallocateMemory(Of(a))
                  m == freed.memory
                  z == freed.array
      <4>1. Released(a, m) /\ z \in Record
        BY DeallocateReleases
      <4>2. freed = Storage(m, z)
        BY DEF DeallocateMemory, Of, Storage
      <4>. HIDE DEF freed, m, z
      <4>3. s = AllocateMemory(Storage(m, z), y.capacity)
        BY <3>1, <4>2 DEF freed
      <4>4. \/ s.array = [z EXCEPT !.data = Null]
            \/ s.array = [z EXCEPT !.data = Fresh(m)]
        BY <4>3 DEF AllocateMemory, Storage
      <4>5. Fresh(m) \in Blocks
        BY <4>1, FreshFacts, BlockNames
      <4>6. s.array \in Record
        BY <4>1, <4>4, <4>5 DEF Record
      <4>. HIDE DEF s
      <4>7. /\ t.memory = s.memory /\ t.array \in Record /\ t.array.data = s.array.data
            /\ t.array.capacity = y.capacity /\ ~t.array.isView
        BY <2>1, <4>6 DEF Storage, Record
      <4>. HIDE DEF t, y
      <4>. QED  BY <2>1, <4>1, <4>3, <4>7, AllocationServes
    <3>2. CASE ~anew
      <4>1. s = Of(a) /\ ~x.isView /\ y.capacity <= x.capacity
        BY <1>1, <3>2
      <4>2. Serves(a, Of(a)) /\ Of(a).memory = memory /\ Of(a).array = x
        BY <1>1, <4>1, OwnServes DEF Of, Storage
      <4>3. x \in Record /\ x.capacity \in Nat /\ Room(memory, x) \in Nat
            /\ x.capacity <= Room(memory, x)
        BY <1>1, LiveFacts
      <4>4. /\ t.memory = memory /\ t.array \in Record /\ t.array.data = x.data
            /\ t.array.capacity = y.capacity /\ ~t.array.isView
        BY <2>1, <4>1, <4>2, <4>3 DEF Storage, Record
      <4>. HIDE DEF t, s
      <4>5. Room(t.memory, t.array) = Room(memory, x)
        BY <4>4 DEF Room
      <4>6. t.array.capacity <= Room(t.memory, t.array)
        BY <2>1, <4>1, <4>3, <4>4, <4>5
      <4>. QED  BY <4>2, <4>4, <4>6 DEF Serves
    <3>. QED  BY <3>1, <3>2
  <2>. HIDE DEF t
  <2>4. Len(Bytes(b)) <= t.array.capacity
    BY <2>1, <2>3
  <2>5. /\ Inv' /\ mode' = mode /\ returned' = <<>>
        /\ Places' = [Places EXCEPT ![a] = a]
        /\ Contents' = [Contents EXCEPT ![a] = Bytes(b)]
    BY <2>1, <2>2, <2>3, <2>4, PutMaps
  <2>. QED  BY <1>2, <1>4, <2>5 DEF Promise!CopyAssign, Promise!Return
<1>. QED  BY <1>3, <1>4

LEMMA ReadFacts ==
    ASSUME Inv, NEW a \in Array, Exists(a)
    PROVE  /\ Promise!Exists(a) /\ Promise!Elements(a) = Bytes(a)
           /\ Promise!Length(a) = array[a].size
           /\ Readable(a) /\ Bytes(a) \in Seq(Byte) /\ Len(Bytes(a)) = array[a].size
           /\ array[a].size \in Nat /\ array[a].capacity \in Nat
           /\ array[a].size <= array[a].capacity
<1>1. a \in live
  BY DEF Exists
<1>. QED  BY <1>1, AbstractFacts, LiveFacts

LEMMA GetMaps ==
    ASSUME Inv, NEW a \in Array, NEW i \in Index, GetAt(a, i)
    PROVE  Inv' /\ Promise!GetAt(a, i)
<1>. DEFINE k == CircularIndex(i, array[a].size) + 1
<1>1. array[a].size > 0 /\ Exists(a) /\ i \in Int
  BY SizeAssumption DEF GetAt
<1>2. /\ Promise!Exists(a) /\ Promise!Elements(a) = Bytes(a)
      /\ Promise!Length(a) = array[a].size /\ Readable(a)
      /\ Bytes(a) \in Seq(Byte) /\ Len(Bytes(a)) = array[a].size /\ array[a].size \in Nat
  BY <1>1, ReadFacts
<1>3. k \in 1..Len(Bytes(a))
  BY <1>1, <1>2, IndexFacts
<1>4. Bytes(a)[k] \in Nat
  BY <1>2, <1>3, ElementFacts, ByteAssumption
<1>5. Return(<<Bytes(a)[k]>>)
  BY <1>2 DEF GetAt
<1>6. k = Promise!Wrap(i, Promise!Length(a))
  BY <1>2 DEF Promise!Wrap, CircularIndex
<1>. HIDE DEF k
<1>7. <<Bytes(a)[k]>> \in Seq(Nat)
  BY <1>4
<1>8. /\ Inv' /\ Places' = Places /\ Contents' = Contents /\ mode' = mode
      /\ returned' = <<Bytes(a)[k]>>
  BY <1>5, <1>7, ReturnMaps
<1>9. Promise!Length(a) > 0
  BY <1>1, <1>2
<1>. QED  BY <1>2, <1>6, <1>8, <1>9 DEF Promise!GetAt, Promise!Return

LEMMA QueryMaps ==
    ASSUME Inv, NEW a \in Array, NEW b \in Array,
           \/ Equals(a, b) \/ IsLess(a, b)
           \/ NoElement(a) \/ Length(a) \/ Capacity(a)
    PROVE  /\ Inv'
           /\ \/ Promise!LengthOf(a) \/ Promise!Capacity(a)
              \/ Promise!Refuse(a) \/ Promise!Equals(a, b) \/ Promise!IsLess(a, b)
<1>1. Exists(a)
  BY DEF Length, Capacity, NoElement, Equals, IsLess
<1>2. /\ Promise!Exists(a) /\ Promise!Elements(a) = Bytes(a)
      /\ Promise!Length(a) = array[a].size
  BY <1>1, ReadFacts
<1>3. /\ Readable(a) /\ array[a].size \in Nat /\ array[a].capacity \in Nat
      /\ array[a].size <= array[a].capacity
  BY <1>1, ReadFacts
<1>4. CASE Length(a)
  <2>1. Return(<<array[a].size>>) /\ <<array[a].size>> \in Seq(Nat)
    BY <1>3, <1>4 DEF Length
  <2>2. /\ Inv' /\ Places' = Places /\ Contents' = Contents /\ mode' = mode
        /\ returned' = <<array[a].size>>
    BY <2>1, ReturnMaps
  <2>. QED  BY <1>2, <2>2 DEF Promise!LengthOf, Promise!Return
<1>5. CASE Capacity(a)
  <2>. DEFINE v == <<array[a].capacity>>
  <2>1. Return(v) /\ v \in Seq(Nat) /\ Len(v) = 1 /\ v[1] = array[a].capacity
    BY <1>3, <1>5 DEF Capacity
  <2>. HIDE DEF v
  <2>2. /\ Inv' /\ Places' = Places /\ Contents' = Contents /\ mode' = mode
        /\ returned' = v
    BY <2>1, ReturnMaps
  <2>3. v[1] >= Promise!Length(a)
    BY <1>2, <1>3, <2>1
  <2>. QED  BY <1>2, <2>1, <2>2, <2>3 DEF Promise!Capacity
<1>6. CASE NoElement(a)
  <2>1. Stop("failed") /\ Promise!Length(a) = 0
    BY <1>2, <1>6 DEF NoElement
  <2>. QED  BY <1>2, <2>1, FailMaps DEF Promise!Refuse
<1>7. CASE Equals(a, b) \/ IsLess(a, b)
  <2>1. Exists(b)
    BY <1>7 DEF Equals, IsLess
  <2>2. Promise!Exists(b) /\ Promise!Elements(b) = Bytes(b) /\ Readable(b)
    BY <2>1, ReadFacts
  <2>3. ASSUME NEW v \in Nat, Return(<<v>>)
        PROVE  /\ Inv' /\ Places' = Places /\ Contents' = Contents /\ mode' = mode
               /\ returned' = <<v>>
    <3>1. <<v>> \in Seq(Nat)
      OBVIOUS
    <3>. QED  BY <2>3, <3>1, ReturnMaps
  <2>4. CASE Equals(a, b)
    <3>. DEFINE v == Truth(Bytes(a) = Bytes(b))
    <3>1. v \in Nat /\ Return(<<v>>)
      BY <1>3, <2>2, <2>4 DEF Equals, Truth
    <3>2. v = Promise!Truth(Promise!Elements(a) = Promise!Elements(b))
      BY <1>2, <2>2 DEF Truth, Promise!Truth
    <3>. HIDE DEF v
    <3>. QED  BY <1>2, <2>2, <2>3, <3>1, <3>2 DEF Promise!Equals, Promise!Return
  <2>5. CASE IsLess(a, b)
    <3>. DEFINE v == Truth(Before(Bytes(a), Bytes(b)))
    <3>1. v \in Nat /\ Return(<<v>>)
      BY <1>3, <2>2, <2>5 DEF IsLess, Truth
    <3>2. v = Promise!Truth(Before(Promise!Elements(a), Promise!Elements(b)))
      BY <1>2, <2>2 DEF Truth, Promise!Truth
    <3>. HIDE DEF v
    <3>. QED  BY <1>2, <2>2, <2>3, <3>1, <3>2 DEF Promise!IsLess, Promise!Return
  <2>. QED  BY <1>7, <2>4, <2>5
<1>. QED  BY <1>4, <1>5, <1>6, <1>7

LEMMA FromObjectMaps ==
    ASSUME Inv, NEW a \in Array, NEW o \in Object, FromObject(a, o)
    PROVE  Inv' /\ Promise!FromObject(a, o)
<1>. DEFINE x == [data |-> o, size |-> ObjectSize, capacity |-> ObjectSize, isView |-> TRUE]
            s == Storage(memory, x)
<1>1. memory[o] # <<>> /\ Create(a, s, memory[o])
  BY DEF FromObject
<1>2. mode = "run" /\ a \notin live /\ Put(a, s, memory[o])
  BY <1>1 DEF Create
<1>3. memory[o] \in Seq(Byte) /\ Len(memory[o]) = ObjectSize /\ memory \in Memory
  BY <1>1 DEF Inv, Whole
<1>4. o \in Blocks /\ o # Null /\ ObjectSize \in Nat
  BY BlockNames, ObjectSizeAssumption
<1>5. /\ x \in Record /\ x.data = o /\ x.size = ObjectSize /\ x.capacity = ObjectSize
      /\ x.isView
  BY <1>4 DEF Record
<1>6. array[a].data = Null /\ array[a].data \notin Buffer
  BY <1>2, BlockNames DEF Inv, Empty
<1>7. s.memory = memory /\ s.array = x
  BY DEF Storage
<1>. HIDE DEF x
<1>8. Room(s.memory, s.array) = ObjectSize
  BY <1>3, <1>4, <1>5, <1>7 DEF Room
<1>9. mode' = "run"
  BY <1>2, <1>3, <1>4, <1>8 DEF Put
<1>10. live' = live \cup {a}
  BY <1>1, <1>9 DEF Create
<1>11. /\ Inv' /\ mode' = mode /\ returned' = <<>>
       /\ array' = [array EXCEPT ![a] = x]
       /\ memory' = [memory EXCEPT ![o] = memory[o]]
  BY <1>1, <1>2, <1>3, <1>5, <1>6, <1>10, ViewKeepsInv
<1>12. memory' = memory /\ array'[a] = x /\ \A b \in Array \ {a} : array'[b] = array[b]
  BY <1>3, <1>4, <1>11 DEF Memory, Inv
<1>13. Places' = [Places EXCEPT ![a] = o]
  BY <1>5, <1>10, <1>12 DEF Places
<1>14. ASSUME NEW b \in Array
       PROVE  (IF array'[b].isView THEN <<>> ELSE BytesOf(memory', array'[b])) =
              (IF array[b].isView THEN <<>> ELSE BytesOf(memory, array[b]))
  <2>1. CASE b = a
    <3>1. array[b].isView \/ BytesOf(memory, array[b]) = <<>>
      BY <1>6, <2>1 DEF BytesOf
    <3>. QED  BY <1>5, <1>12, <2>1, <3>1
  <2>2. CASE b # a
    BY <1>12, <2>2
  <2>. QED  BY <2>1, <2>2
<1>15. Contents' = Contents
  BY <1>12, <1>14 DEF Contents, Bytes
<1>16. Places[a] = Absent /\ Contents[o] # <<>>
  BY <1>1, <1>2, PlaceFacts
<1>. QED  BY <1>2, <1>11, <1>13, <1>15, <1>16 DEF Promise!FromObject, Promise!Return,
                                                  Promise!Absent, Absent

LEMMA DestroyMaps ==
    ASSUME Inv, NEW a \in Array, Destroy(a)
    PROVE  Inv' /\ Promise!Destroy(a)
<1>1. /\ Exists(a) /\ a \in live /\ live' = live \ {a} /\ mode' = mode /\ returned' = <<>>
      /\ array' = [array EXCEPT ![a] = Empty]
      /\ Released(a, memory')
  BY DeallocateReleases DEF Destroy, Exists
<1>2. /\ memory' \in Memory /\ memory \in Memory /\ array \in [Array -> Record]
      /\ live \subseteq Array
      /\ \A c \in Blocks : memory'[c] = IF c \in Buffer /\ c = array[a].data THEN <<>> ELSE memory[c]
  BY <1>1 DEF Released, Inv
<1>3. Empty \in Record /\ Empty.data = Null /\ Empty.isView = FALSE
  BY DEF Empty, Record
<1>4. /\ array' \in [Array -> Record] /\ array'[a] = Empty
      /\ \A b \in Array \ {a} : array'[b] = array[b]
  BY <1>1, <1>2, <1>3
<1>5. ASSUME NEW b \in live \ {a}
      PROVE  /\ Fits(memory', array[b]) /\ BytesOf(memory', array[b]) = Bytes(b)
             /\ array'[b] = array[b]
  <2>1. b \in Array /\ array[b] \in Record /\ Fits(memory, array[b])
    BY <1>5, LiveFacts
  <2>2. array[b].data \in Buffer => array[b].data # array[a].data
    BY <1>1, <1>5 DEF Inv
  <2>3. array[b].data # Null => memory'[array[b].data] = memory[array[b].data]
    BY <1>2, <2>1, <2>2 DEF Record
  <2>. QED  BY <1>2, <1>4, <1>5, <2>1, <2>3, KeptFits DEF Bytes
<1>6. \A o \in Object : memory'[o] = memory[o]
  BY <1>2, BlockNames
<1>7. ASSUME NEW c \in Buffer, memory'[c] # <<>>
      PROVE  \E b \in live' : array'[b].data = c
  <2>1. c # array[a].data /\ memory[c] # <<>>
    BY <1>2, <1>7, BlockNames
  <2>2. PICK b \in live : array[b].data = c
    BY <2>1 DEF Inv
  <2>. QED  BY <1>1, <1>5, <2>1, <2>2
<1>8. ASSUME NEW b \in live', NEW c \in live', array'[b].data \in Buffer,
             array'[b].data = array'[c].data
      PROVE  b = c
  <2>1. b \in live \ {a} /\ c \in live \ {a}
    BY <1>1, <1>8
  <2>. QED  BY <1>5, <1>8, <2>1 DEF Inv
<1>9. Inv'
  <2>1. memory' \in Memory' /\ array' \in [Array -> Record]'
    BY <1>2, <1>4 DEF Memory, Record, Cell, Blocks
  <2>2. \A b \in live' : Fits(memory', array'[b])
    BY <1>1, <1>5
  <2>3. \A b \in Array \ live' : array'[b] = Empty
    BY <1>1, <1>4 DEF Inv
  <2>4. \A o \in Object : Whole(memory'[o])
    BY <1>6 DEF Inv
  <2>5. <<>> \in Seq(Nat) /\ mode \in {"run", "failed"} /\ live' \subseteq Array
    BY <1>1, <1>2 DEF Inv
  <2>. QED  BY <1>1, <1>7, <1>8, <2>1, <2>2, <2>3, <2>4, <2>5 DEF Inv
<1>10. Places' = [Places EXCEPT ![a] = Absent]
  BY <1>1, <1>2, <1>4 DEF Places
<1>11. ASSUME NEW p \in Array \cup Object
       PROVE  Contents'[p] = IF p = a THEN <<>> ELSE Contents[p]
  <2>1. CASE p \in Object
    BY <1>6, <2>1, NameAssumption DEF Contents
  <2>2. CASE p \in Array
    <3>. DEFINE y == array'[p]
    <3>1. p \notin Object
      BY <2>2, NameAssumption
    <3>2. Contents'[p] = IF y.isView THEN <<>> ELSE BytesOf(memory', y)
      BY <2>2, <3>1 DEF Contents, Bytes
    <3>3. Contents[p] = IF array[p].isView THEN <<>> ELSE Bytes(p)
      BY <2>2, <3>1 DEF Contents
    <3>4. BytesOf(memory', Empty) = <<>> /\ BytesOf(memory, Empty) = <<>>
      BY DEF BytesOf, Empty
    <3>5. CASE p = a
      <4>1. y = Empty
        BY <1>4, <3>5
      <4>. HIDE DEF y
      <4>. QED  BY <1>3, <3>2, <3>4, <3>5, <4>1
    <3>6. CASE p # a /\ p \in live
      BY <1>5, <3>2, <3>3, <3>6
    <3>7. CASE p # a /\ p \notin live
      <4>1. y = Empty /\ array[p] = Empty
        BY <1>4, <2>2, <3>7 DEF Inv
      <4>. HIDE DEF y
      <4>. QED  BY <3>2, <3>3, <3>4, <3>7, <4>1 DEF Bytes
    <3>. QED  BY <3>5, <3>6, <3>7
  <2>. QED  BY <1>11, <2>1, <2>2
<1>12. Contents' = [Contents EXCEPT ![a] = <<>>]
  <2>1. Contents' = [p \in Array \cup Object |-> Contents'[p]]
    BY DEF Contents
  <2>2. Contents = [p \in Array \cup Object |-> Contents[p]]
    BY DEF Contents
  <2>. QED  BY <1>11, <2>1, <2>2
<1>13. Promise!Exists(a)
  BY <1>1, AbstractFacts
<1>. QED  BY <1>1, <1>9, <1>10, <1>12, <1>13 DEF Promise!Destroy, Promise!Return,
                                                 Promise!Absent, Absent

LEMMA ObjectMaps ==
    ASSUME Inv, Traps = {}, NEW o \in Object,
           NEW bytes \in {<<>>} \cup [1..ObjectSize -> Byte], ObjectChanges(o, bytes)
    PROVE  Inv' /\ Promise!ObjectChanges(o)
<1>1. /\ mode = "run" /\ mode' = mode /\ returned' = <<>> /\ live' = live /\ array' = array
      /\ memory' = [memory EXCEPT ![o] = bytes]
      /\ bytes = <<>> => ~\E a \in live : array[a].data = o
  BY DEF ObjectChanges
<1>2. /\ memory \in Memory /\ array \in [Array -> Record] /\ live \subseteq Array
      /\ o \in Blocks /\ o # Null /\ o \notin Buffer /\ ObjectSize \in Nat
  BY BlockNames, ObjectSizeAssumption DEF Inv
<1>3. Whole(bytes) /\ bytes \in Seq(Byte)
  <2>1. CASE bytes = <<>>
    BY <2>1 DEF Whole
  <2>2. CASE bytes \in [1..ObjectSize -> Byte]
    <3>1. bytes \in Seq(Byte) /\ Len(bytes) = ObjectSize
      BY <1>2, <2>2, TupleFacts
    <3>. QED  BY <3>1 DEF Whole
  <2>. QED  BY <2>1, <2>2
<1>4. bytes \in Seq(Cell)
  BY <1>3, Narrowed, ElementFacts DEF Cell
<1>5. /\ memory' \in Memory /\ memory'[o] = bytes
      /\ \A c \in Blocks : c # o => memory'[c] = memory[c]
  BY <1>1, <1>2, <1>4 DEF Memory
<1>6. ASSUME NEW a \in live
      PROVE  /\ Fits(memory', array[a])
             /\ ~array[a].isView => BytesOf(memory', array[a]) = Bytes(a)
  <2>1. a \in Array /\ array[a] \in Record /\ Fits(memory, array[a])
    BY LiveFacts
  <2>2. CASE array[a].data = o
    <3>. DEFINE x == array[a]
    <3>1. bytes # <<>> /\ Len(bytes) = ObjectSize
      BY <1>1, <1>3, <2>2 DEF Whole
    <3>2. x.isView /\ x.size = ObjectSize /\ x.size <= x.capacity
          /\ x.capacity <= Len(memory[o]) /\ x.capacity \in Nat
      BY <1>2, <2>1, <2>2 DEF Fits, Room, Record
    <3>3. Len(memory[o]) = ObjectSize
      <4>1. memory[o] = <<>> => Len(memory[o]) = 0
        OBVIOUS
      <4>2. Whole(memory[o])
        BY DEF Inv
      <4>. QED  BY <3>2, <4>1, <4>2, ObjectSizeAssumption DEF Whole
    <3>4. x.capacity = ObjectSize
      BY <1>2, <3>2, <3>3
    <3>5. Room(memory', x) = ObjectSize
      BY <1>2, <1>5, <2>2, <3>1 DEF Room
    <3>6. \A i \in 1..x.size : memory'[x.data][i] \in Byte
      BY <1>3, <1>5, <2>2, <3>1, <3>2, ElementFacts
    <3>. QED  BY <1>2, <2>2, <3>2, <3>4, <3>5, <3>6 DEF Fits
  <2>3. CASE array[a].data # o
    <3>1. array[a].data # Null => memory'[array[a].data] = memory[array[a].data]
      BY <1>5, <2>1, <2>3 DEF Record
    <3>. QED  BY <1>2, <1>5, <2>1, <3>1, KeptFits DEF Bytes
  <2>. QED  BY <2>2, <2>3
<1>7. Inv'
  <2>1. memory' \in Memory' /\ array' \in [Array -> Record]'
    BY <1>1, <1>2, <1>5 DEF Memory, Record, Cell, Blocks
  <2>2. \A c \in Object : Whole(memory'[c])
    BY <1>3, <1>5, BlockNames DEF Inv
  <2>3. \A c \in Buffer : memory'[c] = memory[c]
    BY <1>2, <1>5, BlockNames
  <2>4. \A b \in Buffer : memory'[b] # <<>> => \E a \in live' : array'[a].data = b
    BY <1>1, <2>3 DEF Inv
  <2>5. <<>> \in Seq(Nat) /\ mode' \in {"run", "failed"}
    BY <1>1
  <2>6. \A a \in live' : Fits(memory', array'[a])
    BY <1>1, <1>6
  <2>. QED  BY <1>1, <2>1, <2>2, <2>4, <2>5, <2>6 DEF Inv
<1>8. Places' = Places
  BY <1>1 DEF Places
<1>9. Contents'[o] = bytes
  BY <1>5 DEF Contents
<1>10. ASSUME NEW p \in Array \cup Object
       PROVE  Contents'[p] = IF p = o THEN bytes ELSE Contents[p]
  <2>1. CASE p \in Object
    BY <1>5, <2>1, BlockNames DEF Contents
  <2>2. CASE p \in Array
    <3>1. p \notin Object /\ p # o
      BY <2>2, NameAssumption
    <3>2. p \notin live => array[p].data = Null
      BY <2>2 DEF Inv, Empty
    <3>3. ~array[p].isView => BytesOf(memory', array[p]) = BytesOf(memory, array[p])
      BY <1>6, <3>2 DEF Bytes, BytesOf
    <3>. QED  BY <1>1, <2>2, <3>1, <3>3 DEF Contents, Bytes
  <2>. QED  BY <1>10, <2>1, <2>2
<1>11. Contents' = [Contents EXCEPT ![o] = Contents'[o]]
  <2>1. Contents' = [p \in Array \cup Object |-> Contents'[p]]
    BY DEF Contents
  <2>2. Contents = [p \in Array \cup Object |-> Contents[p]]
    BY DEF Contents
  <2>. QED  BY <1>9, <1>10, <2>1, <2>2
<1>12. bytes = <<>> => ~\E a \in Array : Places[a] = o
  <2>. SUFFICES ASSUME bytes = <<>>, NEW a \in Array, Places[a] = o PROVE FALSE
    OBVIOUS
  <2>1. o # Absent /\ a # o
    BY NameAssumption DEF Absent
  <2>2. a \in live /\ array[a].data = o
    BY <2>1 DEF Places
  <2>. QED  BY <1>1, <2>2
<1>. QED  BY <1>1, <1>3, <1>7, <1>8, <1>9, <1>11, <1>12 DEF Promise!ObjectChanges, Promise!Return
-----------------------------------------------------------------------------
LEMMA InitMaps ==
    ASSUME Init
    PROVE  Inv /\ Promise!Init
<1>1. /\ memory = [b \in Blocks |-> <<>>] /\ live = {} /\ array = [a \in Array |-> Empty]
      /\ returned = <<>> /\ mode = "run"
  BY DEF Init, Blocks
<1>2. Empty \in Record /\ <<>> \in Seq(Cell) /\ <<>> \in Seq(Nat) /\ <<>> \in Seq(Byte)
  BY DEF Empty, Record
<1>3. memory \in Memory /\ array \in [Array -> Record]
  BY <1>1, <1>2 DEF Memory
<1>4. \A b \in Blocks : memory[b] = <<>>
  BY <1>1
<1>5. Inv
  BY <1>1, <1>2, <1>3, <1>4, BlockNames DEF Inv, Whole
<1>6. Places = [a \in Array |-> Absent]
  BY <1>1 DEF Places
<1>7. Contents = [p \in Array \cup Object |-> <<>>]
  BY <1>1, <1>4, BlockNames DEF Contents, Bytes, BytesOf, Empty
<1>. QED  BY <1>1, <1>5, <1>6, <1>7 DEF Promise!Init, Promise!Absent, Absent

LEMMA StepMaps ==
    ASSUME Inv, Traps = {}, Next
    PROVE  Inv' /\ Promise!Next
<1>1. ASSUME NEW a \in Array, NEW n \in Size, NEW e \in Byte, Construct(a, n, e)
      PROVE  Inv' /\ Promise!Next
  BY <1>1, ConstructMaps DEF Promise!Next
<1>2. ASSUME NEW a \in Array, NEW b \in Array, CopyConstruct(a, b)
      PROVE  Inv' /\ Promise!Next
  BY <1>2, CopyConstructMaps DEF Promise!Next
<1>3. ASSUME NEW a \in Array, NEW b \in Array, CopyAssign(a, b)
      PROVE  Inv' /\ Promise!Next
  BY <1>3, CopyAssignMaps DEF Promise!Next
<1>4. ASSUME NEW a \in Array, NEW b \in Array,
             \/ Equals(a, b) \/ IsLess(a, b)
             \/ NoElement(a) \/ Length(a) \/ Capacity(a)
      PROVE  Inv' /\ Promise!Next
  <2>1. /\ Inv'
        /\ \/ Promise!LengthOf(a) \/ Promise!Capacity(a)
           \/ Promise!Refuse(a) \/ Promise!Equals(a, b) \/ Promise!IsLess(a, b)
    BY <1>4, QueryMaps
  <2>. QED  BY <2>1 DEF Promise!Next
<1>5. ASSUME NEW a \in Array, NEW i \in Index, GetAt(a, i)
      PROVE  Inv' /\ Promise!Next
  BY <1>5, GetMaps DEF Promise!Next
<1>6. ASSUME NEW a \in Array, NEW o \in Object, FromObject(a, o)
      PROVE  Inv' /\ Promise!Next
  BY <1>6, FromObjectMaps DEF Promise!Next
<1>7. ASSUME NEW a \in Array, Destroy(a)
      PROVE  Inv' /\ Promise!Next
  BY <1>7, DestroyMaps DEF Promise!Next
<1>8. ASSUME NEW a \in Array, Clear(a)
      PROVE  Inv' /\ Promise!Next
  BY <1>8, ClearMaps DEF Promise!Next
<1>9. ASSUME NEW a \in Array, (\E n \in Size : Reserve(a, n)) \/ ShrinkToFit(a)
      PROVE  Inv' /\ Promise!Next
  BY <1>9, StorageMaps DEF Promise!Next
<1>10. ASSUME NEW a \in Array, NEW e \in Byte, Add(a, e)
       PROVE  Inv' /\ Promise!Next
  BY <1>10, AddMaps DEF Promise!Next
<1>11. ASSUME NEW a \in Array, NEW i \in Index, RemoveAt(a, i)
       PROVE  Inv' /\ Promise!Next
  BY <1>11, RemoveMaps DEF Promise!Next
<1>12. ASSUME NEW a \in Array, NEW i \in Index, NEW e \in Byte, InsertAt(a, i, e)
       PROVE  Inv' /\ Promise!Next
  BY <1>12, InsertMaps DEF Promise!Next
<1>13. ASSUME NEW a \in Array, NEW i \in Index, NEW e \in Byte, SetAt(a, i, e)
       PROVE  Inv' /\ Promise!Next
  BY <1>13, SetMaps DEF Promise!Next
<1>14. ASSUME NEW o \in Object, NEW bytes \in {<<>>} \cup [1..ObjectSize -> Byte],
              ObjectChanges(o, bytes)
       PROVE  Inv' /\ Promise!Next
  BY <1>14, ObjectMaps DEF Promise!Next
<1>. QED  BY <1>1, <1>2, <1>3, <1>4, <1>5, <1>6, <1>7, <1>8, <1>9, <1>10, <1>11, <1>12,
             <1>13, <1>14 DEF Next

LEMMA StutterMaps ==
    ASSUME Inv, UNCHANGED vars
    PROVE  Inv' /\ UNCHANGED Promise!vars
<1>1. UNCHANGED <<memory, live, array, returned, mode>>
  BY DEF vars
<1>2. Places' = Places
  BY <1>1 DEF Places
<1>3. Contents' = Contents
  BY <1>1 DEF Contents, Bytes
<1>4. Inv'
  BY <1>1 DEF Inv
<1>. QED  BY <1>1, <1>2, <1>3, <1>4 DEF Promise!vars
-----------------------------------------------------------------------------
LEMMA Invariance ==
    ASSUME Traps = {}
    PROVE  Spec => []Inv
<1>1. Init => Inv
  BY InitMaps
<1>2. Inv /\ [Next]_vars => Inv'
  BY StepMaps, StutterMaps
<1>. QED  BY <1>1, <1>2, PTL DEF Spec

(* The storage of byte arrays is always well typed, and what a builtin     *)
(* returns is a number: never memory that nobody wrote.                    *)
THEOREM TypeCorrect ==
    ASSUME Traps = {}
    PROVE  Spec => []TypeOK
<1>1. Inv => TypeOK
  BY DEF Inv, TypeOK, Memory, Record, Cell
<1>. QED  BY <1>1, Invariance, PTL

(* Resizing, shrinking, inserting and assigning never touch memory outside *)
(* of the array's buffer or object, and never a buffer that was given      *)
(* back.                                                                   *)
THEOREM MemoryIsRespected ==
    ASSUME Traps = {}
    PROVE  Spec => []NoOverrun
<1>1. Inv => NoOverrun
  BY DEF Inv, NoOverrun
<1>. QED  BY <1>1, Invariance, PTL

(* AllocateMemory and DeallocateMemory are paired on every path through    *)
(* the builtins: no buffer leaks, none is released twice, none is shared.  *)
THEOREM BuffersAreOwnedOnce ==
    ASSUME Traps = {}
    PROVE  Spec => []BuffersHaveOneOwner
<1>1. ASSUME Inv, NEW b \in Buffer
      PROVE  IF memory[b] = <<>> THEN Owners(b) = {}
             ELSE \E a \in live : Owners(b) = {a}
  <2>1. b # Null /\ b \notin Object
    BY BlockNames
  <2>2. ASSUME NEW a \in live, array[a].data = b
        PROVE  memory[b] # <<>> /\ ~array[a].isView
    BY <1>1, <2>1, <2>2, LiveFacts DEF Fits
  <2>3. ASSUME memory[b] # <<>>
        PROVE  \E a \in live : Owners(b) = {a}
    <3>1. PICK a \in live : array[a].data = b
      BY <1>1, <2>3 DEF Inv
    <3>2. Owners(b) = {a}
      BY <1>1, <2>2, <3>1 DEF Inv, Owners
    <3>. QED  BY <3>2
  <2>. QED  BY <2>2, <2>3 DEF Owners
<1>2. Inv => BuffersHaveOneOwner
  BY <1>1 DEF BuffersHaveOneOwner
<1>. QED  BY <1>2, Invariance, PTL

(* Reserve, Insert and ShrinkToFit decide by capacity_ whether to move: it *)
(* is never more than the buffer holds and never less than the elements,   *)
(* if no array with spare capacity is assigned to: operator= would give    *)
(* that capacity to a buffer that has less.                                *)
THEOREM CapacitiesAreHonest ==
    ASSUME Traps = {}
    PROVE  Spec => []CapacityIsHonest
<1>1. Inv => CapacityIsHonest
  BY DEF Inv, CapacityIsHonest, Fits
<1>. QED  BY <1>1, Invariance, PTL

(* A program sees sequences: whatever buffers the arrays own, keep, move   *)
(* to or view, every builtin does what the abstract operation does.        *)
THEOREM ArraysAreSequences ==
    ASSUME Traps = {}
    PROVE  Spec => ImplementsArrays
<1>1. Init => Promise!Init
  BY InitMaps
<1>2. Inv /\ [Next]_vars => [Promise!Next]_(Promise!vars)
  BY StepMaps, StutterMaps
<1>. QED  BY <1>1, <1>2, Invariance, PTL DEF Spec, ImplementsArrays, Promise!Spec
=============================================================================
