------------------------- MODULE BytecodeParserProofs -------------------------
(***************************************************************************)
(* Proofs about the parser of the bytecode, for every file and every       *)
(* vocabulary.  First how constructs nest, what a handler has left to do,  *)
(* and where the session is.  Then what it means that the parser has built *)
(* what it has read: every block has a text, which its statements spell;   *)
(* what has been read is the text of the declarations that are complete,   *)
(* that of the constructs that are open, from the outside in, each up to   *)
(* where it is, and what the running handler has consumed.                 *)
(***************************************************************************)
EXTENDS BytecodeParser, FiniteSetTheorems, WellFoundedInduction, TLAPS

(* What is open, from the outside in, and which block each    *)
(* construct has.                                                          *)
Nodes == {"if", "while"}
Sections == {"interfaces", "methods", "vartable"}
Outermost == {"init", "function", "class", "types"}
Kinds == Nodes \cup Sections \cup Outermost
Parts(kind) == CASE kind = "if" -> {"condition", "body", "else", "last"}
                 [] kind = "while" -> {"condition", "body"}
                 [] OTHER -> {"body"}
Construct == [kind : Kinds, part : {"condition", "body", "else", "last"},
              block : Nat, parent : Nat, parts : Seq(Nat)]
IsSeq(s) == \E S : s \in Seq(S)
TopOf(s) == s[Len(s)]

Filling(c, n) == c.kind \in Bodies /\ c.part # "else" /\ c.block \in 1..n
Placed(o, i, n) ==
    /\ o[i].kind \in Outermost => i = 1
    /\ o[i].kind \in Sections => i > 1 /\ o[i - 1].kind = "class"
    /\ o[i].kind \in Nodes => i > 1 /\ Filling(o[i - 1], n) /\ o[i].parent = o[i - 1].block
    /\ o[i].part \in Parts(o[i].kind)
    /\ o[i].block \in 0..n /\ o[i].parent \in 0..n
Nested(o, n) == \A i \in 1..Len(o) : Placed(o, i, n)

(* What the running handler does last: it needs a construct of its kind.   *)
Finals == {"NewBlock", "AddCommand", "AddNode", "Else", "AddFunction", "SetInitStatic", "AddClass"}
Awaits(c, step) ==
    /\ step \in {"NewBlock", "AddCommand"} => c.kind \in Bodies /\ c.part # "else"
    /\ step = "AddNode" => c.kind \in Nodes
    /\ step = "Else" => c.kind = "if"
    /\ step = "AddFunction" => c.kind = "function"
    /\ step = "SetInitStatic" => c.kind = "init"
    /\ step = "AddClass" => c.kind = "class"
    /\ step \notin Finals => c.kind \notin Bodies
Agenda(o, t) ==
    /\ o = <<>> => t = <<>>
    /\ \A i \in 1..(Len(t) - 1) : t[i] \notin Finals \cup {"comma"}
    /\ t # <<>> => Awaits(TopOf(o), TopOf(t))

(* Between statements the session is at the block of the innermost body.   *)
AtStatement(o, t) ==
    o # <<>> /\ TopOf(o).kind \in Bodies /\ TopOf(o).part # "else"
      /\ (t = <<>> \/ TopOf(t) = "AddCommand")
Settled(o, t, b, n) == AtStatement(o, t) => b = TopOf(o).block /\ b \in 1..n

Parsing(o, t, b, s) ==
    /\ o \in Seq(Construct) /\ IsSeq(t) /\ IsSeq(s)
    /\ Nested(o, Len(s)) /\ Agenda(o, t)
    /\ b \in 0..Len(s) /\ Settled(o, t, b, Len(s))
ParserInv == Parsing(open, todo, current, blocks)
-----------------------------------------------------------------------------
LEMMA KindFacts ==
    /\ Bodies = {"init", "function", "if", "while"} /\ Nodes \subseteq Bodies
    /\ \A k \in Sections \cup {"class", "types"} : k \notin Bodies
    /\ "file" \notin Kinds
    /\ DOMAIN Item = Sections \cup {"types"}
    /\ Kinds = Bodies \cup Sections \cup {"class", "types"}
  BY DEF Bodies, Nodes, Sections, Outermost, Kinds, Item

LEMMA SequenceFacts ==
    ASSUME NEW s, IsSeq(s)
    PROVE  /\ Len(s) \in Nat /\ (s # <<>> => Len(s) \in 1..Len(s) /\ Len(s) > 0)
           /\ \A v : /\ IsSeq(Append(s, v)) /\ Len(Append(s, v)) = Len(s) + 1
                     /\ \A i \in 1..Len(s) : Append(s, v)[i] = s[i]
                     /\ Append(s, v)[Len(s) + 1] = v
<1>1. PICK S : s \in Seq(S)
  BY DEF IsSeq
<1>2. ASSUME NEW v
      PROVE  /\ IsSeq(Append(s, v)) /\ Len(Append(s, v)) = Len(s) + 1
             /\ \A i \in 1..Len(s) : Append(s, v)[i] = s[i]
             /\ Append(s, v)[Len(s) + 1] = v
  <2>. DEFINE T == S \cup {v}
  <2>1. s \in Seq(T) /\ v \in T
    BY <1>1
  <2>. HIDE DEF T
  <2>2. Append(s, v) \in Seq(T) /\ Len(Append(s, v)) = Len(s) + 1
    BY <2>1
  <2>. QED  BY <2>1, <2>2 DEF IsSeq
<1>. QED  BY <1>1, <1>2

LEMMA LongerThanEmpty ==
    ASSUME NEW S, NEW s \in Seq(S)
    PROVE  s = <<>> <=> Len(s) = 0
  OBVIOUS

LEMMA TailFacts ==
    ASSUME NEW s, IsSeq(s), s # <<>>
    PROVE  /\ IsSeq(Tail(s)) /\ Len(Tail(s)) = Len(s) - 1 /\ Head(s) = s[1]
           /\ \A i \in 1..(Len(s) - 1) : Tail(s)[i] = s[i + 1]
           /\ Tail(s) # <<>> <=> Len(s) > 1
<1>1. PICK S : s \in Seq(S)
  BY DEF IsSeq
<1>2. Tail(s) \in Seq(S) /\ Len(Tail(s)) = Len(s) - 1 /\ Head(s) = s[1]
  BY <1>1
<1>3. Tail(s) = <<>> <=> Len(Tail(s)) = 0
  BY <1>2, LongerThanEmpty
<1>4. Len(s) \in Nat /\ Len(s) > 0
  BY <1>1, LongerThanEmpty
<1>. QED  BY <1>1, <1>2, <1>3, <1>4 DEF IsSeq

LEMMA FrontFacts ==
    ASSUME NEW S, NEW s \in Seq(S), s # <<>>
    PROVE  /\ Front(s) \in Seq(S) /\ Len(Front(s)) = Len(s) - 1
           /\ \A i \in 1..(Len(s) - 1) : Front(s)[i] = s[i]
<1>. DEFINE n == Len(s) - 1
<1>1. n \in 0..Len(s) /\ n \in Nat
  OBVIOUS
<1>. HIDE DEF n
<1>2. /\ SubSeq(s, 1, n) \in Seq(S) /\ Len(SubSeq(s, 1, n)) = n
      /\ \A i \in 1..n : SubSeq(s, 1, n)[i] = s[i]
  BY <1>1
<1>. QED  BY <1>2 DEF Front, n

LEMMA UpdateFacts ==
    ASSUME NEW s, IsSeq(s), NEW i, NEW v
    PROVE  IsSeq([s EXCEPT ![i] = v]) /\ Len([s EXCEPT ![i] = v]) = Len(s)
<1>1. PICK S : s \in Seq(S)
  BY DEF IsSeq
<1>. DEFINE T == S \cup {v}
            t == [s EXCEPT ![i] = v]
<1>2. s \in Seq(T) /\ v \in T
  BY <1>1
<1>. HIDE DEF T
<1>3. t = [j \in 1..Len(s) |-> IF j = i THEN v ELSE s[j]] /\ Len(s) \in Nat
  BY <1>1
<1>. HIDE DEF t
<1>4. t \in [1..Len(s) -> T]
  BY <1>2, <1>3
<1>5. t \in Seq(T) /\ Len(t) = Len(s)
  BY <1>3, <1>4
<1>. QED  BY <1>5 DEF IsSeq, t

LEMMA StaysPlaced ==
    ASSUME NEW o, NEW p, NEW n \in Nat, NEW m \in Nat, n <= m, NEW i \in Nat, Placed(o, i, n),
           i > 1 => p[i - 1] = o[i - 1],
           p[i].kind = o[i].kind, p[i].parent = o[i].parent,
           p[i].part \in Parts(p[i].kind), p[i].block \in 0..m
    PROVE  Placed(p, i, m)
<1>1. /\ o[i].kind \in Outermost => i = 1
      /\ o[i].kind \in Sections => i > 1 /\ o[i - 1].kind = "class"
      /\ o[i].kind \in Nodes => i > 1 /\ Filling(o[i - 1], n) /\ o[i].parent = o[i - 1].block
      /\ o[i].parent \in 0..n
  BY DEF Placed
<1>2. Filling(o[i - 1], n) => Filling(o[i - 1], m)
  BY DEF Filling
<1>3. p[i].parent \in 0..m
  BY <1>1
<1>. QED  BY <1>1, <1>2, <1>3 DEF Placed

(* The innermost construct changes.                                        *)
LEMMA TopChanges ==
    ASSUME NEW o \in Seq(Construct), o # <<>>, NEW n \in Nat, NEW m \in Nat, n <= m,
           NEW c \in Construct, Nested(o, n),
           c.kind = TopOf(o).kind, c.parent = TopOf(o).parent,
           c.part \in Parts(c.kind), c.block \in 0..m,
           NEW p, p = [o EXCEPT ![Len(o)] = c]
    PROVE  p \in Seq(Construct) /\ p # <<>> /\ Len(p) = Len(o) /\ TopOf(p) = c /\ Nested(p, m)
<1>1. Len(o) \in 1..Len(o) /\ Len(o) \in Nat
  OBVIOUS
<1>2. /\ p \in Seq(Construct) /\ Len(p) = Len(o) /\ p[Len(o)] = c
      /\ \A i \in 1..(Len(o) - 1) : p[i] = o[i]
  BY <1>1
<1>3. ASSUME NEW i \in 1..Len(o)
      PROVE  Placed(p, i, m)
  <2>1. Placed(o, i, n)
    BY DEF Nested
  <2>2. i > 1 => p[i - 1] = o[i - 1]
    <3>1. i > 1 => i - 1 \in 1..(Len(o) - 1)
      BY <1>1
    <3>. QED  BY <1>2, <3>1
  <2>3. CASE i = Len(o)
    BY <1>1, <1>2, <2>1, <2>2, <2>3, StaysPlaced DEF TopOf
  <2>4. CASE i # Len(o)
    <3>1. i \in 1..(Len(o) - 1)
      BY <1>1, <2>4
    <3>2. p[i] = o[i]
      BY <1>2, <3>1
    <3>3. o[i].part \in Parts(o[i].kind) /\ o[i].block \in 0..m
      BY <2>1 DEF Placed
    <3>4. i \in Nat
      BY <1>1
    <3>. QED  BY <2>1, <2>2, <3>2, <3>3, <3>4, StaysPlaced
  <2>. QED  BY <2>3, <2>4
<1>4. p # <<>>
  BY <1>1, <1>2, LongerThanEmpty
<1>5. Nested(p, m)
  BY <1>2, <1>3 DEF Nested
<1>. QED  BY <1>2, <1>4, <1>5 DEF TopOf

(* A construct is opened, and closed again.                                *)
LEMMA OpensNested ==
    ASSUME NEW o \in Seq(Construct), NEW n \in Nat, Nested(o, n),
           NEW c \in Construct, NEW p, p = Append(o, c), Placed(p, Len(o) + 1, n)
    PROVE  p \in Seq(Construct) /\ p # <<>> /\ TopOf(p) = c /\ Nested(p, n)
<1>1. /\ p \in Seq(Construct) /\ Len(p) = Len(o) + 1 /\ p[Len(o) + 1] = c
      /\ \A i \in 1..Len(o) : p[i] = o[i]
  OBVIOUS
<1>2. ASSUME NEW i \in 1..Len(o)
      PROVE  Placed(p, i, n)
  <2>1. Placed(o, i, n) /\ p[i] = o[i] /\ (i > 1 => p[i - 1] = o[i - 1])
    BY <1>1 DEF Nested
  <2>. QED  BY <2>1 DEF Placed, Filling
<1>. QED  BY <1>1, <1>2 DEF Nested, TopOf

LEMMA ClosesNested ==
    ASSUME NEW o \in Seq(Construct), o # <<>>, NEW n \in Nat, Nested(o, n)
    PROVE  /\ Front(o) \in Seq(Construct) /\ Nested(Front(o), n)
           /\ Front(o) # <<>> => Len(o) > 1 /\ TopOf(Front(o)) = o[Len(o) - 1]
<1>1. /\ Front(o) \in Seq(Construct) /\ Len(Front(o)) = Len(o) - 1 /\ Len(o) \in Nat
      /\ \A i \in 1..(Len(o) - 1) : Front(o)[i] = o[i]
  BY FrontFacts
<1>2. ASSUME NEW i \in 1..(Len(o) - 1)
      PROVE  Placed(Front(o), i, n)
  <2>1. Placed(o, i, n) /\ Front(o)[i] = o[i] /\ (i > 1 => Front(o)[i - 1] = o[i - 1])
    BY <1>1 DEF Nested
  <2>. QED  BY <2>1 DEF Placed, Filling
<1>. QED  BY <1>1, <1>2 DEF Nested, TopOf
-----------------------------------------------------------------------------
(* What a handler has left to do.                                          *)
Ordinary(step) == step \notin Finals \cup {"comma"}
Ends(t, last) ==
    /\ IsSeq(t) /\ t # <<>> /\ TopOf(t) = last
    /\ \A i \in 1..(Len(t) - 1) : t[i] \notin Finals \cup {"comma"}

LEMMA SixSteps ==
    ASSUME NEW a, NEW b, NEW c, NEW d, NEW e, NEW f,
           Ordinary(a), Ordinary(b), Ordinary(c), Ordinary(d), Ordinary(e),
           NEW t, t = <<a, b, c, d, e, f>>
    PROVE  Ends(t, f)
<1>1. t \in Seq({a, b, c, d, e, f}) /\ Len(t) = 6
  OBVIOUS
<1>2. t[1] = a /\ t[2] = b /\ t[3] = c /\ t[4] = d /\ t[5] = e /\ t[6] = f
  OBVIOUS
<1>3. 1..(6 - 1) = {1, 2, 3, 4, 5}
  OBVIOUS
<1>4. t # <<>>
  BY <1>1, LongerThanEmpty
<1>5. \A i \in {1, 2, 3, 4, 5} : t[i] \notin Finals \cup {"comma"}
  BY <1>2 DEF Ordinary
<1>. QED  BY <1>1, <1>2, <1>3, <1>4, <1>5 DEF Ends, TopOf, IsSeq

LEMMA Lists ==
    /\ Ends(<<"NewBlock">>, "NewBlock") /\ Ends(<<"{", "NewBlock">>, "NewBlock")
    /\ Ends(<<"then", "{", "NewBlock">>, "NewBlock")
    /\ Ends(<<":", "1", "function id", "NameIt", "{", "NewBlock">>, "NewBlock")
    /\ Ends(<<"class", "NameIt", "{">>, "{") /\ Ends(<<"(">>, "(") /\ Ends(<<"{">>, "{")
    /\ Ends(<<":", "1", "Resize">>, "Resize")
    /\ \A k \in DOMAIN Item : Ends(Item[k], "comma")
    /\ \A step \in Finals : Ends(<<step>>, step)
<1>1. \A a : IsSeq(<<a>>)
  <2>1. ASSUME NEW a PROVE <<a>> \in Seq({a})
    OBVIOUS
  <2>. QED  BY <2>1 DEF IsSeq
<1>2. \A a, b : IsSeq(<<a, b>>)
  <2>1. ASSUME NEW a, NEW b PROVE <<a, b>> \in Seq({a, b})
    OBVIOUS
  <2>. QED  BY <2>1 DEF IsSeq
<1>3. \A a, b, c : IsSeq(<<a, b, c>>)
  <2>1. ASSUME NEW a, NEW b, NEW c PROVE <<a, b, c>> \in Seq({a, b, c})
    OBVIOUS
  <2>. QED  BY <2>1 DEF IsSeq
<1>4. ASSUME NEW a PROVE Ends(<<a>>, a)
  BY <1>1 DEF Ends, TopOf
<1>5. ASSUME NEW a, NEW b, Ordinary(a) PROVE Ends(<<a, b>>, b)
  BY <1>2, <1>5 DEF Ordinary, Ends, TopOf
<1>6. ASSUME NEW a, NEW b, NEW c, Ordinary(a), Ordinary(b)
      PROVE  Ends(<<a, b, c>>, c)
  BY <1>3, <1>6 DEF Ordinary, Ends, TopOf
<1>7. ASSUME NEW a, NEW b, NEW c, NEW d, Ordinary(a), Ordinary(b), Ordinary(c)
      PROVE  Ends(<<a, b, c, d>>, d)
  <2>. DEFINE t == <<a, b, c, d>>
  <2>1. t \in Seq({a, b, c, d}) /\ Len(t) = 4
    OBVIOUS
  <2>2. t[1] = a /\ t[2] = b /\ t[3] = c /\ t[4] = d
    OBVIOUS
  <2>3. 1..(4 - 1) = {1, 2, 3}
    OBVIOUS
  <2>. HIDE DEF t
  <2>4. t # <<>>
    BY <2>1, LongerThanEmpty
  <2>5. \A i \in {1, 2, 3} : t[i] \notin Finals \cup {"comma"}
    BY <1>7, <2>2 DEF Ordinary
  <2>6. Ends(t, d)
    BY <2>1, <2>2, <2>3, <2>4, <2>5 DEF Ends, TopOf, IsSeq
  <2>. QED  BY <2>6 DEF t
<1>9. /\ Ordinary("{") /\ Ordinary(":") /\ Ordinary("1") /\ Ordinary("then") /\ Ordinary("class")
      /\ Ordinary("NameIt") /\ Ordinary("(") /\ Ordinary("function id") /\ Ordinary("real")
      /\ Ordinary("type") /\ Ordinary("@") /\ Ordinary("AddMethod") /\ Ordinary("AddField")
      /\ Ordinary("AddType") /\ Ordinary("AddInterface")
  BY DEF Ordinary, Finals
<1>10. ASSUME NEW k \in DOMAIN Item PROVE Ends(Item[k], "comma")
  <2>1. CASE k = "types"
    <3>1. Item[k] = <<"AddType", "comma">>
      BY <2>1 DEF Item
    <3>. QED  BY <1>5, <1>9, <3>1
  <2>2. CASE k = "interfaces"
    <3>1. Item[k] = <<"AddInterface", "comma">>
      BY <2>2 DEF Item
    <3>. QED  BY <1>5, <1>9, <3>1
  <2>3. CASE k = "methods"
    <3>1. Item[k] = <<":", "real", "AddMethod", "comma">>
      BY <2>3 DEF Item
    <3>. QED  BY <1>7, <1>9, <3>1
  <2>4. CASE k = "vartable"
    <3>1. Item[k] = <<":", "type", "@", "1", "AddField", "comma">>
      BY <2>4 DEF Item
    <3>. QED  BY <1>9, <3>1, SixSteps
  <2>. QED  BY <2>1, <2>2, <2>3, <2>4 DEF Item
<1>11. Ends(<<":", "1", "function id", "NameIt", "{", "NewBlock">>, "NewBlock")
  BY <1>9, SixSteps
<1>12. /\ Ends(<<"then", "{", "NewBlock">>, "NewBlock") /\ Ends(<<"class", "NameIt", "{">>, "{")
       /\ Ends(<<":", "1", "Resize">>, "Resize")
  BY <1>6, <1>9
<1>13. Ends(<<"{", "NewBlock">>, "NewBlock")
  BY <1>5, <1>9
<1>. QED  BY <1>4, <1>10, <1>11, <1>12, <1>13

LEMMA Continues ==
    ASSUME NEW o \in Seq(Construct), o # <<>>, NEW s, IsSeq(s), Nested(o, Len(s)),
           NEW b \in 0..Len(s), NEW t, NEW last, Ends(t, last), Awaits(TopOf(o), last),
           last # "AddCommand"
    PROVE  Parsing(o, t, b, s)
<1>1. Agenda(o, t)
  BY DEF Agenda, Ends
<1>2. Settled(o, t, b, Len(s))
  BY DEF Settled, AtStatement, Ends
<1>. QED  BY <1>1, <1>2 DEF Parsing, Ends

LEMMA Rests ==
    ASSUME NEW o \in Seq(Construct), NEW s, IsSeq(s), Nested(o, Len(s)), NEW b \in 0..Len(s),
           Settled(o, <<>>, b, Len(s))
    PROVE  Parsing(o, <<>>, b, s)
<1>1. IsSeq(<<>>) /\ Len(<<>>) = 0
  <2>1. <<>> \in Seq({}) /\ Len(<<>>) = 0
    OBVIOUS
  <2>. QED  BY <2>1 DEF IsSeq
<1>2. Agenda(o, <<>>)
  BY <1>1 DEF Agenda
<1>. QED  BY <1>1, <1>2 DEF Parsing

LEMMA Abandoned ==
    ASSUME NEW s, IsSeq(s)
    PROVE  Parsing(<<>>, <<>>, 0, s)
<1>1. <<>> \in Seq(Construct) /\ Len(<<>>) = 0
  OBVIOUS
<1>2. Nested(<<>>, Len(s)) /\ Settled(<<>>, <<>>, 0, Len(s))
  BY <1>1 DEF Nested, Settled, AtStatement
<1>3. 0 \in 0..Len(s)
  BY SequenceFacts
<1>. QED  BY <1>1, <1>2, <1>3, Rests

LEMMA Shifts ==
    ASSUME NEW o, NEW t, NEW b, NEW s, Parsing(o, t, b, s), t # <<>>, Head(t) \notin Finals
    PROVE  Parsing(o, Tail(t), b, s)
<1>1. /\ IsSeq(Tail(t)) /\ Len(Tail(t)) = Len(t) - 1 /\ Head(t) = t[1] /\ Len(t) \in Nat
      /\ \A i \in 1..(Len(t) - 1) : Tail(t)[i] = t[i + 1]
      /\ Tail(t) # <<>> => Len(t) > 1
      /\ Len(t) > 0
  BY TailFacts, SequenceFacts DEF Parsing
<1>2. Tail(t) # <<>> => TopOf(Tail(t)) = TopOf(t)
  <2>1. Len(t) > 1 => Len(t) - 1 \in 1..(Len(t) - 1) /\ Len(t) - 1 + 1 = Len(t)
    BY <1>1
  <2>. QED  BY <1>1, <2>1 DEF TopOf
<1>3. Tail(t) = <<>> => TopOf(t) = Head(t)
  <2>1. Tail(t) = <<>> => Len(t) = 1
    BY TailFacts, <1>1 DEF Parsing
  <2>. QED  BY <1>1, <2>1 DEF TopOf
<1>4. Agenda(o, t)
  BY DEF Parsing
<1>5. Agenda(o, Tail(t))
  <2>1. ASSUME NEW i \in 1..(Len(Tail(t)) - 1)
        PROVE  Tail(t)[i] \notin Finals \cup {"comma"}
    <3>1. i \in 1..(Len(t) - 1) /\ i + 1 \in 1..(Len(t) - 1)
      BY <1>1
    <3>. QED  BY <1>1, <1>4, <3>1 DEF Agenda
  <2>. QED  BY <1>2, <1>4, <2>1 DEF Agenda
<1>6. Settled(o, Tail(t), b, Len(s))
  <2>1. CASE Tail(t) = <<>>
    <3>1. o # <<>> => TopOf(o).kind \notin Bodies
      BY <1>3, <1>4, <2>1 DEF Agenda, Awaits
    <3>. QED  BY <3>1 DEF Settled, AtStatement
  <2>2. CASE Tail(t) # <<>>
    BY <1>2, <2>2 DEF Settled, AtStatement, Parsing
  <2>. QED  BY <2>1, <2>2
<1>. QED  BY <1>1, <1>5, <1>6 DEF Parsing

LEMMA Due ==
    ASSUME NEW o, NEW t, NEW b, NEW s, Parsing(o, t, b, s), t # <<>>,
           Head(t) \in Finals \cup {"comma"}
    PROVE  o # <<>> /\ Awaits(TopOf(o), Head(t)) /\ TopOf(t) = Head(t)
<1>1. Len(t) \in Nat /\ Len(t) > 0 /\ Head(t) = t[1] /\ Agenda(o, t)
  BY TailFacts, SequenceFacts DEF Parsing
<1>2. ~(1 \in 1..(Len(t) - 1))
  BY <1>1 DEF Agenda
<1>3. Len(t) = 1
  <2>1. ASSUME Len(t) > 1 PROVE 1 \in 1..(Len(t) - 1)
    BY <1>1, <2>1
  <2>2. ~(Len(t) > 1)
    BY <1>2, <2>1
  <2>3. \A n \in Nat : n > 0 => n = 1 \/ n > 1
    OBVIOUS
  <2>. QED  BY <1>1, <2>2, <2>3
<1>. QED  BY <1>1, <1>3 DEF Agenda, TopOf
-----------------------------------------------------------------------------
(* The steps of the parser, one lemma for every kind of step.              *)
LEMMA AppendFacts ==
    ASSUME NEW S, NEW s \in Seq(S), NEW x \in S
    PROVE  /\ Append(s, x) \in Seq(S) /\ Len(Append(s, x)) = Len(s) + 1
           /\ Append(s, x)[Len(s) + 1] = x
           /\ \A i \in 1..Len(s) : Append(s, x)[i] = s[i]
  OBVIOUS

LEMMA ConcatFacts ==
    ASSUME NEW S, NEW s \in Seq(S), NEW t \in Seq(S)
    PROVE  /\ s \o t \in Seq(S) /\ Len(s \o t) = Len(s) + Len(t)
           /\ \A i \in 1..(Len(s) + Len(t)) :
                  (s \o t)[i] = IF i <= Len(s) THEN s[i] ELSE t[i - Len(s)]
  OBVIOUS

LEMMA TopFacts ==
    ASSUME ParserInv, open # <<>>
    PROVE  /\ Innermost = TopOf(open) /\ TopOf(open) \in Construct
           /\ Len(open) \in 1..Len(open) /\ Len(open) \in Nat
           /\ Placed(open, Len(open), Len(blocks))
<1>1. open \in Seq(Construct) /\ Nested(open, Len(blocks))
  BY DEF ParserInv, Parsing
<1>2. Len(open) \in 1..Len(open) /\ open[Len(open)] \in Construct /\ Len(open) \in Nat
  BY <1>1, LongerThanEmpty
<1>. QED  BY <1>1, <1>2 DEF Nested, TopOf, Innermost

(* A token is expected, an item is declared: the handler goes on.          *)
LEMMA HandlerGoesOn ==
    ASSUME ParserInv, Expect \/ Declare
    PROVE  ParserInv'
<1>1. todo # <<>> /\ todo' = Tail(todo) /\ UNCHANGED <<open, blocks, current>>
  BY DEF Expect, Declare
<1>2. Head(todo) \notin Finals
  <2>1. CASE Expect
    <3>1. IsToken(Head(todo))
      BY <2>1 DEF Expect
    <3>2. Finals \subseteq Steps
      BY DEF Finals, Steps
    <3>3. \A f \in Finals : f \notin Keywords \cup Puncts \cup {"1"}
      BY DEF Finals, Keywords, Puncts
    <3>. QED  BY <3>1, <3>2, <3>3, PlacesAssumption DEF IsToken
  <2>2. CASE Declare
    <3>1. \/ Head(todo) = "NameIt" \/ Head(todo) = "AddType" \/ Head(todo) = "AddInterface"
          \/ Head(todo) = "AddMethod" \/ Head(todo) = "AddField" \/ Head(todo) = "Resize"
      BY <2>2 DEF Declare
    <3>. QED  BY <3>1 DEF Finals
  <2>. QED  BY <2>1, <2>2
<1>3. Parsing(open, todo, current, blocks)
  BY DEF ParserInv
<1>4. Parsing(open, Tail(todo), current, blocks)
  BY <1>1, <1>2, <1>3, Shifts
<1>. QED  BY <1>1, <1>4 DEF ParserInv

LEMMA ItemEnds ==
    ASSUME ParserInv, Comma
    PROVE  ParserInv'
<1>1. todo # <<>> /\ Head(todo) = "comma" /\ todo' = <<>> /\ UNCHANGED <<open, blocks, current>>
  BY DEF Comma, Doing
<1>2. open # <<>> /\ Awaits(TopOf(open), "comma")
  BY <1>1, Due DEF ParserInv
<1>3. TopOf(open).kind \notin Bodies
  BY <1>2 DEF Awaits, Finals
<1>4. Settled(open, <<>>, current, Len(blocks))
  BY <1>3 DEF Settled, AtStatement
<1>5. Parsing(open, <<>>, current, blocks)
  BY <1>4, Rests DEF ParserInv, Parsing
<1>. QED  BY <1>1, <1>5 DEF ParserInv

LEMMA ParseFails ==
    ASSUME ParserInv, LiteralOutOfRange \/ Refuse \/ UnknownFieldType \/ NameTaken
    PROVE  ParserInv'
<1>1. open' = <<>> /\ todo' = <<>> /\ current' = 0 /\ blocks' = blocks
  BY DEF LiteralOutOfRange, Refuse, UnknownFieldType, NameTaken, Abandon
<1>2. Parsing(<<>>, <<>>, 0, blocks)
  BY Abandoned DEF ParserInv, Parsing
<1>. QED  BY <1>1, <1>2 DEF ParserInv

LEMMA OpenedFacts ==
    ASSUME ParserInv, NEW k \in Kinds
    PROVE  Opened(k) \in Construct /\ Opened(k).kind = k /\ Opened(k).block = 0
           /\ Opened(k).part = "body" /\ Opened(k).parent = current
<1>1. current \in Nat
  BY SequenceFacts DEF ParserInv, Parsing
<1>. DEFINE e == <<>>
<1>2. e \in Seq(Nat)
  OBVIOUS
<1>3. Opened(k) = [kind |-> k, part |-> "body", block |-> 0, parent |-> current, parts |-> e]
  BY DEF Opened
<1>. HIDE DEF e
<1>. QED  BY <1>1, <1>2, <1>3 DEF Construct

LEMMA DeclarationBegins ==
    ASSUME ParserInv, BeginDeclaration
    PROVE  ParserInv'
<1>1. open = <<>>
  <2>1. ASSUME open # <<>> PROVE FALSE
    <3>1. Inside \in Kinds
      BY <2>1, TopFacts DEF Inside, Construct
    <3>. QED  BY <3>1, KindFacts DEF BeginDeclaration
  <2>. QED  BY <2>1
<1>. DEFINE Begun(k, last) ==
       /\ k \in Outermost
       /\ open' = Append(Counted, Opened(k)) /\ Ends(todo', last)
       /\ last # "AddCommand" /\ (k \in Bodies <=> last = "NewBlock")
       /\ last \notin Finals \ {"NewBlock"}
       /\ UNCHANGED <<blocks, current>>
<1>begun. \E k, last : Begun(k, last)
  <2>1. CASE Begin("init-static", "init", <<"{", "NewBlock">>)
    <3>1. Begun("init", "NewBlock")
      BY <2>1, Lists DEF Begin, Outermost, Bodies, Finals
    <3>. QED  BY <3>1
  <2>2. CASE Begin("vtable", "class", <<"class", "NameIt", "{">>)
    <3>1. Begun("class", "{")
      BY <2>2, Lists DEF Begin, Outermost, Bodies, Finals
    <3>. QED  BY <3>1
  <2>3. CASE Begin("pure", "types", <<"(">>)
    <3>1. Begun("types", "(")
      BY <2>3, Lists DEF Begin, Outermost, Bodies, Finals
    <3>. QED  BY <3>1
  <2>4. CASE Begin("function", "function", <<":", "1", "function id", "NameIt", "{", "NewBlock">>)
    <3>1. Begun("function", "NewBlock")
      BY <2>4, Lists DEF Begin, Outermost, Bodies, Finals
    <3>. QED  BY <3>1
  <2>. QED  BY <2>1, <2>2, <2>3, <2>4 DEF BeginDeclaration
<1>2. PICK k, last : Begun(k, last)
  BY <1>begun
<1>3. Counted = <<>>
  BY <1>1 DEF Counted
<1>4. open \in Seq(Construct) /\ Len(open) = 0 /\ IsSeq(blocks) /\ Nested(open, Len(blocks))
      /\ current \in 0..Len(blocks) /\ Len(blocks) \in Nat
  BY <1>1, SequenceFacts DEF ParserInv, Parsing
<1>5. /\ Opened(k) \in Construct /\ Opened(k).kind = k /\ Opened(k).block = 0
      /\ Opened(k).part = "body" /\ Opened(k).parent = current
  BY <1>2, OpenedFacts DEF Kinds
<1>. DEFINE c == Opened(k)
<1>6. open' = Append(open, c) /\ c \in Construct
  BY <1>1, <1>2, <1>3, <1>5
<1>7. /\ c.kind = k /\ c.block = 0 /\ c.part = "body" /\ c.parent = current
      /\ k \notin Sections /\ k \notin Nodes
  BY <1>2, <1>5 DEF Outermost, Sections, Nodes
<1>. HIDE DEF c
<1>8. open' \in Seq(Construct) /\ open' # <<>> /\ TopOf(open') = c /\ Nested(open', Len(blocks))
  <2>1. open \in Seq(Construct) /\ Len(open) = 0
    BY <1>4
  <2>2. open'[1] = c /\ Len(open) + 1 = 1
    BY <1>6, <2>1
  <2>3. "body" \in Parts(k)
    BY <1>7 DEF Parts, Nodes
  <2>4. Placed(open', 1, Len(blocks))
    BY <1>4, <1>7, <2>2, <2>3 DEF Placed
  <2>5. Placed(open', Len(open) + 1, Len(blocks))
    BY <2>2, <2>4
  <2>. QED  BY <1>4, <1>6, <2>5, OpensNested
<1>9. Awaits(TopOf(open'), last)
  BY <1>2, <1>7, <1>8 DEF Awaits, Finals
<1>10. Parsing(open', todo', current, blocks)
  BY <1>2, <1>4, <1>8, <1>9, Continues
<1>. QED  BY <1>2, <1>10 DEF ParserInv

(* One more part of the innermost construct.                               *)
LEMMA CountedFacts ==
    ASSUME ParserInv, open # <<>>
    PROVE  /\ Counted \in Seq(Construct) /\ Counted # <<>> /\ Len(Counted) = Len(open)
           /\ TopOf(Counted) \in Construct
           /\ TopOf(Counted).kind = TopOf(open).kind /\ TopOf(Counted).part = TopOf(open).part
           /\ TopOf(Counted).block = TopOf(open).block
           /\ Nested(Counted, Len(blocks))
<1>. DEFINE c == [Innermost EXCEPT !.parts = Append(@, 0)]
            p == [open EXCEPT ![Len(open)] = c]
<1>1. open \in Seq(Construct) /\ Nested(open, Len(blocks)) /\ Len(blocks) \in Nat
  BY SequenceFacts DEF ParserInv, Parsing
<1>2. /\ c \in Construct /\ c.kind = TopOf(open).kind /\ c.part = TopOf(open).part
      /\ c.block = TopOf(open).block /\ c.parent = TopOf(open).parent
  <2>1. TopOf(open).parts \in Seq(Nat)
    BY TopFacts DEF Construct
  <2>2. Append(TopOf(open).parts, 0) \in Seq(Nat)
    BY <2>1
  <2>. QED  BY <2>2, TopFacts DEF Construct
<1>. HIDE DEF c
<1>3. Placed(open, Len(open), Len(blocks))
  BY TopFacts
<1>4. c.part \in Parts(c.kind) /\ c.block \in 0..Len(blocks)
  BY <1>2, <1>3 DEF Placed, TopOf
<1>. HIDE DEF p
<1>5. p \in Seq(Construct) /\ p # <<>> /\ Len(p) = Len(open) /\ TopOf(p) = c /\ Nested(p, Len(blocks))
  <2>. DEFINE n == Len(blocks)
  <2>1. /\ open \in Seq(Construct) /\ open # <<>> /\ Nested(open, n)
        /\ n \in Nat /\ n <= n
    BY <1>1
  <2>2. /\ c \in Construct /\ c.kind = TopOf(open).kind /\ c.parent = TopOf(open).parent
        /\ c.part \in Parts(c.kind) /\ c.block \in 0..n
    BY <1>2, <1>4
  <2>3. p = [open EXCEPT ![Len(open)] = c]
    BY DEF p
  <2>. HIDE DEF n
  <2>4. p \in Seq(Construct) /\ p # <<>> /\ Len(p) = Len(open) /\ TopOf(p) = c /\ Nested(p, n)
    BY <2>1, <2>2, <2>3, TopChanges
  <2>. QED  BY <2>4 DEF n
<1>6. Counted = p
  <2>1. /\ Front(open) \in Seq(Construct) /\ Len(Front(open)) = Len(open) - 1
        /\ \A i \in 1..(Len(open) - 1) : Front(open)[i] = open[i]
    BY <1>1, FrontFacts
  <2>2. Counted = Front(open) \o <<c>>
    BY DEF Counted, c
  <2>3. Len(open) \in Nat /\ Len(open) > 0
    BY TopFacts
  <2>4. <<c>> \in Seq(Construct) /\ Len(<<c>>) = 1 /\ <<c>>[1] = c
    BY <1>2
  <2>. DEFINE q == <<c>>
              f == Front(open)
  <2>. HIDE DEF q, f
  <2>5. /\ f \o q \in Seq(Construct) /\ Len(f \o q) = Len(open)
        /\ \A i \in 1..Len(open) : (f \o q)[i] = IF i = Len(open) THEN c ELSE open[i]
    <3>1. f \in Seq(Construct) /\ q \in Seq(Construct) /\ Len(f) = Len(open) - 1 /\ Len(q) = 1
      BY <2>1, <2>4 DEF q, f
    <3>2. f \o q \in Seq(Construct) /\ Len(f \o q) = Len(f) + Len(q)
      BY <3>1, ConcatFacts
    <3>3. ASSUME NEW i \in 1..Len(open)
          PROVE  (f \o q)[i] = IF i = Len(open) THEN c ELSE open[i]
      <4>1. CASE i = Len(open)
        <5>1. (f \o q)[i] = q[i - Len(f)] /\ i - Len(f) = 1
          BY <2>3, <3>1, <4>1
        <5>. QED  BY <2>4, <4>1, <5>1 DEF q
      <4>2. CASE i # Len(open)
        <5>1. i \in 1..Len(f) /\ i \in 1..(Len(open) - 1)
          BY <2>3, <3>1, <4>2
        <5>2. (f \o q)[i] = f[i]
          BY <3>1, <5>1
        <5>. QED  BY <2>1, <4>2, <5>1, <5>2 DEF f
      <4>. QED  BY <4>1, <4>2
    <3>. QED  BY <2>3, <3>1, <3>2, <3>3
  <2>6. \A i \in 1..Len(open) : p[i] = IF i = Len(open) THEN c ELSE open[i]
    BY <1>1 DEF p
  <2>. DEFINE g == f \o q
  <2>7. /\ g \in Seq(Construct) /\ Len(g) = Len(p)
        /\ \A i \in 1..Len(g) : g[i] = p[i]
    BY <1>5, <2>5, <2>6
  <2>. HIDE DEF g
  <2>8. g = p
    BY <1>5, <2>7
  <2>. QED  BY <2>2, <2>8 DEF g, q, f
<1>. QED  BY <1>2, <1>5, <1>6
LEMMA SectionBegins ==
    ASSUME ParserInv, Section
    PROVE  ParserInv'
<1>1. Inside = "class"
  BY DEF Section
<1>2. open # <<>> /\ TopOf(open).kind = "class"
  <2>1. open # <<>>
    BY <1>1 DEF Inside
  <2>. QED  BY <1>1, <2>1, TopFacts DEF Inside
<1>3. /\ open \in Seq(Construct) /\ IsSeq(blocks) /\ Nested(open, Len(blocks))
      /\ current \in 0..Len(blocks) /\ Len(blocks) \in Nat
  BY SequenceFacts DEF ParserInv, Parsing
<1>4. CASE \E s \in Sections : Begin(s, s, <<"{">>)
  <2>1. PICK s \in Sections :
            /\ open' = Append(Counted, Opened(s)) /\ todo' = <<"{">>
            /\ UNCHANGED <<blocks, current>>
    BY <1>4 DEF Begin
  <2>2. PICK last : Ends(todo', last) /\ last \notin Finals
    <3>1. Ends(todo', "{")
      BY <2>1, Lists
    <3>2. "{" \notin Finals
      BY DEF Finals
    <3>. QED  BY <3>1, <3>2
  <2>. DEFINE c == Opened(s)
  <2>3. /\ c \in Construct /\ c.kind = s /\ c.block = 0
        /\ c.part = "body" /\ c.parent = current
    BY OpenedFacts DEF Kinds
  <2>4. open' = Append(Counted, c)
    BY <2>1
  <2>. HIDE DEF c
  <2>5. /\ Counted \in Seq(Construct) /\ Len(Counted) = Len(open) /\ Nested(Counted, Len(blocks))
        /\ Counted[Len(open)].kind = "class" /\ Len(open) \in Nat /\ Len(open) >= 1
    BY <1>2, CountedFacts, TopFacts DEF TopOf
  <2>6. s \notin Outermost /\ s \notin Nodes /\ s \notin Bodies
    BY DEF Sections, Outermost, Nodes, Bodies
  <2>7. /\ open'[Len(open) + 1] = c /\ open'[Len(open)] = Counted[Len(open)]
        /\ Len(open) + 1 - 1 = Len(open) /\ Len(open) + 1 > 1
    <3>1. Len(open) \in 1..Len(open)
      BY <2>5
    <3>. QED  BY <2>3, <2>4, <2>5, <3>1, AppendFacts
  <2>8. Placed(open', Len(Counted) + 1, Len(blocks))
    <3>1. "body" \in Parts(s)
      BY <2>6 DEF Parts, Nodes
    <3>. QED  BY <1>3, <2>3, <2>5, <2>6, <2>7, <3>1 DEF Placed
  <2>9. /\ open' \in Seq(Construct) /\ open' # <<>> /\ TopOf(open') = c
        /\ Nested(open', Len(blocks))
    BY <1>3, <2>3, <2>4, <2>5, <2>8, OpensNested
  <2>10. Awaits(TopOf(open'), last)
    BY <2>2, <2>3, <2>6, <2>9 DEF Awaits, Finals
  <2>11. last # "AddCommand"
    BY <2>2 DEF Finals
  <2>12. Parsing(open', todo', current, blocks)
    BY <1>3, <2>2, <2>9, <2>10, <2>11, Continues
  <2>. QED  BY <2>1, <2>12 DEF ParserInv
<1>5. CASE todo' = <<":", "1", "Resize">> /\ UNCHANGED <<open, blocks, current>>
  <2>1. Ends(todo', "Resize")
    BY <1>5, Lists
  <2>2. Awaits(TopOf(open), "Resize")
    BY <1>2 DEF Awaits, Finals, Bodies
  <2>3. Parsing(open, todo', current, blocks)
    BY <1>2, <1>3, <2>1, <2>2, Continues
  <2>. QED  BY <1>5, <2>3 DEF ParserInv
<1>. QED  BY <1>4, <1>5 DEF Section, Sections

LEMMA ItemBegins ==
    ASSUME ParserInv, ListItem
    PROVE  ParserInv'
<1>1. Inside \in DOMAIN Item /\ open' = Counted /\ todo' = Item[Inside] /\ UNCHANGED <<blocks, current>>
  BY DEF ListItem
<1>2. open # <<>> /\ TopOf(open).kind \in DOMAIN Item
  <2>1. open # <<>>
    BY <1>1, KindFacts DEF Inside, Kinds
  <2>. QED  BY <1>1, <2>1, TopFacts DEF Inside
<1>3. Ends(todo', "comma")
  BY <1>1, Lists
<1>4. Awaits(TopOf(Counted), "comma")
  BY <1>2, CountedFacts, KindFacts DEF Awaits, Finals
<1>5. Parsing(Counted, todo', current, blocks)
  BY <1>2, <1>3, <1>4, CountedFacts, Continues DEF ParserInv, Parsing
<1>. QED  BY <1>1, <1>5 DEF ParserInv

LEMMA ListEnds ==
    ASSUME ParserInv, EndOfList
    PROVE  ParserInv'
<1>1. /\ Inside \in DOMAIN Item /\ todo = <<>> /\ open' = Front(open)
      /\ UNCHANGED <<todo, blocks, current>>
  BY DEF EndOfList, Idle, Close
<1>2. open # <<>> /\ TopOf(open).kind \in Sections \cup {"types"}
  <2>1. open # <<>>
    BY <1>1, KindFacts DEF Inside, Kinds
  <2>. QED  BY <1>1, <2>1, TopFacts, KindFacts DEF Inside
<1>3. /\ open \in Seq(Construct) /\ IsSeq(blocks) /\ Nested(open, Len(blocks))
      /\ current \in 0..Len(blocks) /\ Len(blocks) \in Nat
  BY SequenceFacts DEF ParserInv, Parsing
<1>4. /\ open' \in Seq(Construct) /\ Nested(open', Len(blocks))
      /\ open' # <<>> => Len(open) > 1 /\ TopOf(open') = open[Len(open) - 1]
  BY <1>1, <1>2, <1>3, ClosesNested
<1>5. Len(open) > 1 => open[Len(open) - 1].kind = "class"
  <2>1. Placed(open, Len(open), Len(blocks))
    BY <1>2, TopFacts
  <2>2. TopOf(open).kind \in Outermost => ~(Len(open) > 1)
    BY <2>1, <1>2, TopFacts DEF Placed, TopOf
  <2>. QED  BY <1>2, <2>1, <2>2 DEF Placed, TopOf, Outermost
<1>6. Settled(open', <<>>, current, Len(blocks))
  BY <1>4, <1>5 DEF Settled, AtStatement, Bodies
<1>7. Parsing(open', <<>>, current, blocks)
  BY <1>3, <1>4, <1>6, Rests
<1>. QED  BY <1>1, <1>7 DEF ParserInv

LEMMA ClassEnds ==
    ASSUME ParserInv, EndOfClass
    PROVE  ParserInv'
<1>1. Inside = "class" /\ todo' = <<"AddClass">> /\ UNCHANGED <<open, blocks, current>>
  BY DEF EndOfClass
<1>2. open # <<>> /\ TopOf(open).kind = "class"
  <2>1. open # <<>>
    BY <1>1 DEF Inside
  <2>. QED  BY <1>1, <2>1, TopFacts DEF Inside
<1>3. Ends(todo', "AddClass")
  BY <1>1, Lists DEF Finals
<1>4. Awaits(TopOf(open), "AddClass")
  BY <1>2 DEF Awaits, Finals
<1>5. Parsing(open, todo', current, blocks)
  BY <1>2, <1>3, <1>4, Continues DEF ParserInv, Parsing
<1>. QED  BY <1>1, <1>5 DEF ParserInv

(* A declaration is complete: it was the only construct open.              *)
LEMMA DeclarationEnds ==
    ASSUME ParserInv, AddClass \/ AddFunction \/ SetInitStatic
    PROVE  ParserInv'
<1>1. /\ todo # <<>> /\ Head(todo) \in {"AddClass", "AddFunction", "SetInitStatic"}
      /\ open' = Front(open) /\ todo' = <<>> /\ blocks' = blocks /\ current' \in {0, current}
  BY DEF AddClass, AddFunction, SetInitStatic, Doing, Close
<1>2. open # <<>> /\ Awaits(TopOf(open), Head(todo))
  BY <1>1, Due DEF ParserInv, Finals
<1>3. TopOf(open).kind \in Outermost
  BY <1>1, <1>2 DEF Awaits, Outermost
<1>4. /\ open \in Seq(Construct) /\ IsSeq(blocks) /\ Nested(open, Len(blocks))
      /\ current' \in 0..Len(blocks) /\ Len(blocks) \in Nat
  BY <1>1, SequenceFacts DEF ParserInv, Parsing
<1>5. Len(open) = 1
  BY <1>2, <1>3, TopFacts DEF Placed, TopOf
<1>6. /\ open' \in Seq(Construct) /\ Nested(open', Len(blocks))
      /\ open' # <<>> => Len(open) > 1
  BY <1>1, <1>2, <1>4, ClosesNested
<1>7. Settled(open', <<>>, current', Len(blocks))
  BY <1>5, <1>6 DEF Settled, AtStatement
<1>8. Parsing(open', <<>>, current', blocks)
  BY <1>4, <1>6, <1>7, Rests
<1>. QED  BY <1>1, <1>8 DEF ParserInv

LEMMA BlockBegins ==
    ASSUME ParserInv, NewBlock
    PROVE  ParserInv'
<1>1. /\ todo # <<>> /\ Head(todo) = "NewBlock" /\ blocks' = Append(blocks, <<>>)
      /\ open' = [open EXCEPT ![Len(open)].block = Len(blocks')]
      /\ current' = Len(blocks') /\ todo' = <<>>
  BY DEF NewBlock, Doing
<1>2. open # <<>> /\ TopOf(open).kind \in Bodies /\ TopOf(open).part # "else"
  BY <1>1, Due DEF ParserInv, Finals, Awaits
<1>3. open \in Seq(Construct) /\ IsSeq(blocks) /\ Nested(open, Len(blocks)) /\ Len(blocks) \in Nat
  BY SequenceFacts DEF ParserInv, Parsing
<1>4. IsSeq(blocks') /\ Len(blocks') = Len(blocks) + 1 /\ Len(blocks') \in Nat
  BY <1>1, <1>3, SequenceFacts
<1>. DEFINE c == [TopOf(open) EXCEPT !.block = Len(blocks')]
<1>5. open' = [open EXCEPT ![Len(open)] = c]
  BY <1>1 DEF TopOf
<1>6. /\ c \in Construct /\ c.kind = TopOf(open).kind /\ c.part = TopOf(open).part
      /\ c.block = Len(blocks') /\ c.parent = TopOf(open).parent
  BY <1>2, <1>4, TopFacts DEF Construct
<1>. HIDE DEF c
<1>7. c.part \in Parts(c.kind) /\ c.block \in 0..Len(blocks')
  BY <1>2, <1>4, <1>6, TopFacts DEF Placed, TopOf
<1>8. open' \in Seq(Construct) /\ TopOf(open') = c /\ Nested(open', Len(blocks'))
  <2>. DEFINE n == Len(blocks)
              m == Len(blocks')
              p == open'
  <2>1. n \in Nat /\ m \in Nat /\ n <= m /\ Nested(open, n) /\ c.block \in 0..m
    BY <1>3, <1>4, <1>7
  <2>2. p = [open EXCEPT ![Len(open)] = c]
    BY <1>5
  <2>3. /\ open \in Seq(Construct) /\ open # <<>> /\ c \in Construct
        /\ c.kind = TopOf(open).kind /\ c.parent = TopOf(open).parent /\ c.part \in Parts(c.kind)
    BY <1>2, <1>3, <1>6, <1>7
  <2>. HIDE DEF n, m, p
  <2>4. p \in Seq(Construct) /\ TopOf(p) = c /\ Nested(p, m)
    BY <2>1, <2>2, <2>3, TopChanges
  <2>. QED  BY <2>4 DEF m, p
<1>9. current' \in 0..Len(blocks') /\ Settled(open', <<>>, current', Len(blocks'))
  BY <1>1, <1>3, <1>4, <1>6, <1>8 DEF Settled
<1>10. Parsing(open', <<>>, current', blocks')
  BY <1>4, <1>8, <1>9, Rests
<1>. QED  BY <1>1, <1>10 DEF ParserInv

(* In a body the session is at its block.                                  *)
LEMMA BodyFacts ==
    ASSUME ParserInv, InBody
    PROVE  /\ open # <<>> /\ todo = <<>> /\ TopOf(open).kind \in Bodies
           /\ TopOf(open).part # "else"
           /\ current = TopOf(open).block /\ current \in 1..Len(blocks)
           /\ Filling(TopOf(open), Len(blocks))
<1>1. open # <<>> /\ TopOf(open).kind \in Bodies /\ TopOf(open).part # "else" /\ todo = <<>>
  <2>1. open # <<>>
    BY KindFacts DEF InBody, Inside
  <2>. QED  BY <2>1, TopFacts DEF InBody, Inside, Idle
<1>2. AtStatement(open, todo)
  BY <1>1 DEF AtStatement
<1>3. current = TopOf(open).block /\ current \in 1..Len(blocks)
  BY <1>2 DEF ParserInv, Parsing, Settled
<1>. QED  BY <1>1, <1>3 DEF Filling

LEMMA TwoTokens ==
    ASSUME NEW a, NEW b
    PROVE  <<a>> \o <<b>> = <<a, b>>
<1>. DEFINE S == {a, b}
            s == <<a>>
            t == <<b>>
            u == <<a, b>>
<1>1. /\ s \in Seq(S) /\ Len(s) = 1 /\ s[1] = a /\ t \in Seq(S) /\ Len(t) = 1 /\ t[1] = b
      /\ u \in Seq(S) /\ Len(u) = 2 /\ u[1] = a /\ u[2] = b
  OBVIOUS
<1>. HIDE DEF S, s, t, u
<1>2. s \o t \in Seq(S) /\ Len(s \o t) = 2 /\ (s \o t)[1] = a /\ (s \o t)[2] = b
  <2>1. Len(s) + Len(t) = 2 /\ 1 \in 1..2 /\ 2 \in 1..2 /\ 1 <= 1 /\ ~(2 <= 1) /\ 2 - 1 = 1
    BY <1>1
  <2>2. /\ s \o t \in Seq(S) /\ Len(s \o t) = 2
        /\ \A i \in 1..2 : (s \o t)[i] = IF i <= 1 THEN s[i] ELSE t[i - 1]
    BY <1>1, <2>1, ConcatFacts
  <2>. QED  BY <1>1, <2>1, <2>2
<1>. DEFINE w == s \o t
<1>3. w \in Seq(S) /\ Len(w) = Len(u) /\ \A i \in 1..Len(w) : w[i] = u[i]
  BY <1>1, <1>2
<1>. HIDE DEF w
<1>4. w = u
  BY <1>1, <1>3
<1>. QED  BY <1>4 DEF w, s, t, u

LEMMA CommandTokens ==
    ASSUME NEW t \in DOMAIN Operand, NEW l,
           l = (IF Operand[t] = "none" THEN <<>> ELSE <<Operand[t]>>) \o <<"AddCommand">>
    PROVE  Ends(l, "AddCommand")
<1>1. CASE Operand[t] = "none"
  <2>1. l = <<"AddCommand">>
    BY <1>1
  <2>. QED  BY <2>1, Lists DEF Finals
<1>2. CASE Operand[t] # "none"
  <2>. DEFINE a == Operand[t]
  <2>0. l = <<a>> \o <<"AddCommand">>
    BY <1>2
  <2>. HIDE DEF a
  <2>1a. l = <<a, "AddCommand">>
    BY <2>0, TwoTokens
  <2>1. l = <<Operand[t], "AddCommand">>
    BY <2>1a DEF a
  <2>2. Ordinary(Operand[t])
    <3>1. Operand[t] \in DOMAIN Names \cup {"1"}
      BY <1>2, PlacesAssumption
    <3>2. Finals \cup {"comma"} \subseteq Steps /\ "1" \notin Finals \cup {"comma"}
      BY DEF Finals, Steps
    <3>. QED  BY <3>1, <3>2, PlacesAssumption DEF Ordinary
  <2>3. l \in Seq({Operand[t], "AddCommand"}) /\ Len(l) = 2 /\ l[1] = Operand[t] /\ l[2] = "AddCommand"
    BY <2>1
  <2>4. l # <<>>
    BY <2>3, LongerThanEmpty
  <2>5. 1..(2 - 1) = {1}
    OBVIOUS
  <2>. QED  BY <2>2, <2>3, <2>4, <2>5 DEF Ends, TopOf, IsSeq, Ordinary
<1>. QED  BY <1>1, <1>2

LEMMA CommandBegins ==
    ASSUME ParserInv, Command
    PROVE  ParserInv'
<1>1. InBody /\ UNCHANGED <<open, blocks, current>>
  BY DEF Command
<1>2. Ends(todo', "AddCommand")
  BY CommandTokens DEF Command, Commands
<1>3. /\ open # <<>> /\ TopOf(open).kind \in Bodies /\ TopOf(open).part # "else"
      /\ current = TopOf(open).block /\ current \in 1..Len(blocks)
  BY <1>1, BodyFacts
<1>4. Awaits(TopOf(open), "AddCommand")
  BY <1>3 DEF Awaits, Finals
<1>5. Agenda(open, todo')
  BY <1>2, <1>3, <1>4 DEF Agenda, Ends
<1>6. Settled(open, todo', current, Len(blocks))
  BY <1>3 DEF Settled
<1>7. Parsing(open, todo', current, blocks)
  BY <1>2, <1>5, <1>6 DEF ParserInv, Parsing, Ends
<1>. QED  BY <1>1, <1>7 DEF ParserInv

LEMMA CommandEnds ==
    ASSUME ParserInv, AddCommand
    PROVE  ParserInv'
<1>. DEFINE i == Innermost.block
            v == Append(blocks[i], names)
<1>1. /\ todo # <<>> /\ Head(todo) = "AddCommand" /\ blocks' = [blocks EXCEPT ![i] = v]
      /\ todo' = <<>> /\ UNCHANGED <<open, current>>
  BY DEF AddCommand, Doing
<1>. HIDE DEF i, v
<1>2. /\ open # <<>> /\ TopOf(open).kind \in Bodies /\ TopOf(open).part # "else"
      /\ TopOf(todo) = "AddCommand"
  BY <1>1, Due DEF ParserInv, Finals, Awaits
<1>3. IsSeq(blocks') /\ Len(blocks') = Len(blocks)
  BY <1>1, UpdateFacts DEF ParserInv, Parsing
<1>4. Settled(open, <<>>, current, Len(blocks))
  BY <1>2 DEF ParserInv, Parsing, Settled, AtStatement
<1>5. Parsing(open, <<>>, current, blocks')
  BY <1>3, <1>4, Rests DEF ParserInv, Parsing
<1>. QED  BY <1>1, <1>5 DEF ParserInv

LEMMA NodeBegins ==
    ASSUME ParserInv, BeginNode
    PROVE  ParserInv'
<1>1. PICK t \in Nodes :
          /\ InBody /\ open' = Append(open, [Opened(t) EXCEPT !.part = "condition"])
          /\ todo' = <<"{", "NewBlock">> /\ UNCHANGED <<blocks, current>>
  BY DEF BeginNode, Nodes
<1>2. Ends(todo', "NewBlock")
  BY <1>1, Lists
<1>3. InBody /\ open' = Append(open, [Opened(t) EXCEPT !.part = "condition"]) /\ UNCHANGED <<blocks, current>>
  BY <1>1
<1>. DEFINE c == [Opened(t) EXCEPT !.part = "condition"]
<1>4. /\ c \in Construct /\ c.kind = t /\ c.block = 0 /\ c.part = "condition" /\ c.parent = current
  BY OpenedFacts DEF Construct, Kinds
<1>5. open' = Append(open, c)
  BY <1>3
<1>. HIDE DEF c
<1>6. /\ open \in Seq(Construct) /\ IsSeq(blocks) /\ Nested(open, Len(blocks))
      /\ current \in 0..Len(blocks) /\ Len(blocks) \in Nat
  BY SequenceFacts DEF ParserInv, Parsing
<1>7. open # <<>> /\ current = TopOf(open).block /\ Filling(TopOf(open), Len(blocks))
  BY <1>3, BodyFacts
<1>8. /\ open'[Len(open) + 1] = c /\ open'[Len(open) + 1 - 1] = TopOf(open) /\ Len(open) + 1 > 1
  <2>1. Len(open) \in 1..Len(open) /\ Len(open) \in Nat
    BY <1>7, TopFacts
  <2>2. Len(open) + 1 - 1 = Len(open) /\ Len(open) + 1 > 1
    BY <2>1
  <2>3. open'[Len(open) + 1] = c /\ open'[Len(open)] = open[Len(open)]
    BY <1>4, <1>5, <1>6, <2>1, AppendFacts
  <2>. QED  BY <2>2, <2>3 DEF TopOf
<1>9. Placed(open', Len(open) + 1, Len(blocks))
  <2>1. "condition" \in Parts(t) /\ t \notin Outermost /\ t \notin Sections
    BY DEF Parts, Nodes, Outermost, Sections
  <2>. QED  BY <1>4, <1>6, <1>7, <1>8, <2>1 DEF Placed
<1>10. open' \in Seq(Construct) /\ open' # <<>> /\ TopOf(open') = c /\ Nested(open', Len(blocks))
  BY <1>4, <1>5, <1>6, <1>9, OpensNested
<1>11. Awaits(TopOf(open'), "NewBlock")
  BY <1>4, <1>10, KindFacts DEF Awaits, Finals
<1>12. Parsing(open', todo', current, blocks)
  BY <1>2, <1>6, <1>10, <1>11, Continues
<1>. QED  BY <1>3, <1>12 DEF ParserInv

(* The innermost construct has become c, which waits for its next step.    *)
LEMMA TopMoves ==
    ASSUME ParserInv, open # <<>>, NEW c \in Construct,
           c.kind = TopOf(open).kind, c.parent = TopOf(open).parent,
           c.block = TopOf(open).block, c.part \in Parts(c.kind),
           open' = [open EXCEPT ![Len(open)] = c], UNCHANGED <<blocks, current>>,
           \/ \E last : Ends(todo', last) /\ Awaits(c, last) /\ last # "AddCommand"
           \/ todo' = <<>> /\ c.part = "else"
    PROVE  ParserInv'
<1>. DEFINE n == Len(blocks)
            p == open'
<1>1. /\ open \in Seq(Construct) /\ Nested(open, n) /\ n \in Nat /\ n <= n
      /\ IsSeq(blocks) /\ current \in 0..Len(blocks)
  BY SequenceFacts DEF ParserInv, Parsing
<1>2. c.block \in 0..n
  BY TopFacts DEF Placed, TopOf
<1>3. p = [open EXCEPT ![Len(open)] = c]
  OBVIOUS
<1>. HIDE DEF n, p
<1>4. p \in Seq(Construct) /\ p # <<>> /\ TopOf(p) = c /\ Nested(p, n)
  BY <1>1, <1>2, <1>3, TopChanges
<1>5. Parsing(p, todo', current, blocks)
  <2>1. Nested(p, Len(blocks))
    BY <1>4 DEF n
  <2>2. CASE \E last : Ends(todo', last) /\ Awaits(c, last) /\ last # "AddCommand"
    BY <1>1, <1>4, <2>1, <2>2, Continues
  <2>3. CASE todo' = <<>> /\ c.part = "else"
    <3>1. Settled(p, <<>>, current, Len(blocks))
      BY <1>4, <2>3 DEF Settled, AtStatement
    <3>2. Parsing(p, <<>>, current, blocks)
      BY <1>1, <1>4, <2>1, <3>1, Rests
    <3>. QED  BY <2>3, <3>2
  <2>. QED  BY <2>2, <2>3
<1>. QED  BY <1>5 DEF ParserInv, p

LEMMA AfterBlockFacts ==
    ASSUME NEW c, c.kind \in Bodies, c.part \in Parts(c.kind), c.part # "else"
    PROVE  /\ c.part = "condition" => Ends(AfterBlock(c), "NewBlock") /\ c.kind \in Nodes
           /\ c.part # "condition" =>
                  \E last : Ends(AfterBlock(c), last) /\ Awaits(c, last) /\ last # "AddCommand"
<1>1. CASE c.kind = "init"
  <2>1. c.part = "body"
    BY <1>1 DEF Parts
  <2>2. AfterBlock(c) = <<"SetInitStatic">>
    BY <1>1, <2>1, Zenon DEF AfterBlock
  <2>3. Ends(AfterBlock(c), "SetInitStatic")
    BY <2>2, Lists DEF Finals
  <2>4. Awaits(c, "SetInitStatic")
    BY <1>1 DEF Awaits, Finals
  <2>. QED  BY <2>1, <2>3, <2>4
<1>2. CASE c.kind = "function"
  <2>1. c.part = "body"
    BY <1>2 DEF Parts
  <2>2. AfterBlock(c) = <<"AddFunction">>
    BY <1>2, <2>1, Zenon DEF AfterBlock
  <2>3. Ends(AfterBlock(c), "AddFunction")
    BY <2>2, Lists DEF Finals
  <2>4. Awaits(c, "AddFunction")
    BY <1>2 DEF Awaits, Finals
  <2>. QED  BY <2>1, <2>3, <2>4
<1>3. CASE c.kind \in Nodes /\ c.part = "condition"
  <2>1. AfterBlock(c) = <<"then", "{", "NewBlock">>
    <3>1. c.kind # "init" /\ c.kind # "function"
      BY <1>3 DEF Nodes
    <3>. QED  BY <1>3, <3>1, Zenon DEF AfterBlock
  <2>2. Ends(AfterBlock(c), "NewBlock")
    BY <2>1, Lists
  <2>. QED  BY <1>3, <2>2
<1>4. CASE c.kind \in Nodes /\ ((c.kind = "while" /\ c.part = "body") \/ c.part = "last")
  <2>1. AfterBlock(c) = <<"AddNode">>
    <3>1. CASE c.kind = "while" /\ c.part = "body"
      BY <3>1, Zenon DEF AfterBlock
    <3>2. CASE c.part = "last"
      <4>1. c.kind = "if"
        BY <1>4, <3>2 DEF Parts, Nodes
      <4>. QED  BY <3>2, <4>1, Zenon DEF AfterBlock
    <3>. QED  BY <1>4, <3>1, <3>2
  <2>2. Ends(AfterBlock(c), "AddNode")
    BY <2>1, Lists DEF Finals
  <2>3. Awaits(c, "AddNode")
    BY <1>4 DEF Awaits, Finals
  <2>. QED  BY <1>4, <2>2, <2>3
<1>5. CASE c.kind = "if" /\ c.part = "body"
  <2>1. AfterBlock(c) = <<"Else">>
    BY <1>5, Zenon DEF AfterBlock
  <2>2. Ends(AfterBlock(c), "Else")
    BY <2>1, Lists DEF Finals
  <2>3. Awaits(c, "Else")
    BY <1>5 DEF Awaits, Finals
  <2>. QED  BY <1>5, <2>2, <2>3
<1>. QED  BY <1>1, <1>2, <1>3, <1>4, <1>5 DEF Parts, Bodies, Nodes

LEMMA BlockEnds ==
    ASSUME ParserInv, EndOfBlock
    PROVE  ParserInv'
<1>. DEFINE top == TopOf(open)
            c == [top EXCEPT !.parts = Append(@, top.block),
                             !.part = IF @ = "condition" THEN "body" ELSE @]
<1>1. /\ InBody /\ todo' = AfterBlock(Innermost) /\ UNCHANGED <<blocks, current>>
      /\ open' = [open EXCEPT ![Len(open)].parts = Append(@, Innermost.block),
                              ![Len(open)].part = IF @ = "condition" THEN "body" ELSE @]
  BY DEF EndOfBlock
<1>2. open # <<>> /\ top.kind \in Bodies /\ top.part # "else"
  BY <1>1, BodyFacts
<1>3. Innermost = top /\ top \in Construct /\ top.part \in Parts(top.kind) /\ Len(open) \in 1..Len(open)
  BY <1>2, TopFacts DEF Placed, TopOf
<1>4. open' = [open EXCEPT ![Len(open)] = c]
  BY <1>1, <1>3 DEF ParserInv, Parsing, TopOf
<1>5. /\ c \in Construct /\ c.kind = top.kind /\ c.block = top.block /\ c.parent = top.parent
      /\ c.part = IF top.part = "condition" THEN "body" ELSE top.part
  <2>1. top.parts \in Seq(Nat) /\ top.block \in Nat
    BY <1>3 DEF Construct
  <2>2. Append(top.parts, top.block) \in Seq(Nat)
    BY <2>1
  <2>. QED  BY <1>3, <2>2 DEF Construct
<1>. HIDE DEF c, top
<1>6. c.part \in Parts(c.kind)
  BY <1>3, <1>5 DEF Parts
<1>7. \E last : Ends(todo', last) /\ Awaits(c, last) /\ last # "AddCommand"
  <2>1. CASE top.part = "condition"
    <3>1. Ends(todo', "NewBlock") /\ top.kind \in Nodes
      BY <1>1, <1>2, <1>3, <2>1, AfterBlockFacts
    <3>2. Awaits(c, "NewBlock")
      BY <1>2, <1>5, <2>1 DEF Awaits, Finals
    <3>. QED  BY <3>1, <3>2
  <2>2. CASE top.part # "condition"
    <3>1. PICK last : Ends(todo', last) /\ Awaits(top, last) /\ last # "AddCommand"
      BY <1>1, <1>2, <1>3, <2>2, AfterBlockFacts
    <3>2. Awaits(c, last)
      BY <1>5, <2>2, <3>1 DEF Awaits
    <3>. QED  BY <3>1, <3>2
  <2>. QED  BY <2>1, <2>2
<1>8. top = TopOf(open)
  BY DEF top
<1>. QED  BY <1>1, <1>2, <1>4, <1>5, <1>6, <1>7, <1>8, TopMoves

LEMMA ElseIsTried ==
    ASSUME ParserInv, Else
    PROVE  ParserInv'
<1>1. todo # <<>> /\ Head(todo) = "Else" /\ UNCHANGED <<blocks, current>>
  BY DEF Else, Doing
<1>2. open # <<>> /\ TopOf(open).kind = "if"
  BY <1>1, Due DEF ParserInv, Finals, Awaits
<1>3. TopOf(open) \in Construct /\ Placed(open, Len(open), Len(blocks))
  BY <1>2, TopFacts
<1>4. CASE open' = [open EXCEPT ![Len(open)].part = "else"] /\ todo' = <<>>
  <2>. DEFINE c == [TopOf(open) EXCEPT !.part = "else"]
  <2>1. open' = [open EXCEPT ![Len(open)] = c]
    BY <1>4 DEF TopOf
  <2>2. /\ c \in Construct /\ c.kind = TopOf(open).kind /\ c.block = TopOf(open).block
        /\ c.parent = TopOf(open).parent /\ c.part = "else"
    BY <1>3 DEF Construct
  <2>. HIDE DEF c
  <2>3. c.part \in Parts(c.kind)
    BY <1>2, <2>2 DEF Parts
  <2>. QED  BY <1>1, <1>2, <1>4, <2>1, <2>2, <2>3, TopMoves
<1>5. CASE UNCHANGED open /\ todo' = <<"AddNode">>
  <2>1. Ends(todo', "AddNode")
    BY <1>5, Lists DEF Finals
  <2>2. Awaits(TopOf(open), "AddNode")
    BY <1>2 DEF Awaits, Finals, Nodes
  <2>3. Parsing(open, todo', current, blocks)
    BY <1>2, <2>1, <2>2, Continues DEF ParserInv, Parsing
  <2>. QED  BY <1>1, <1>5, <2>3 DEF ParserInv
<1>6. (open' = [open EXCEPT ![Len(open)].part = "else"] /\ todo' = <<>>)
        \/ (UNCHANGED open /\ todo' = <<"AddNode">>)
  BY DEF Else
<1>. QED  BY <1>4, <1>5, <1>6

LEMMA ElseGoesOn ==
    ASSUME ParserInv, ElseBranch
    PROVE  ParserInv'
<1>1. Inside = "if" /\ Innermost.part = "else" /\ UNCHANGED <<blocks, current>>
  BY DEF ElseBranch
<1>2. open # <<>> /\ TopOf(open).kind = "if"
  <2>1. open # <<>>
    BY <1>1 DEF Inside
  <2>. QED  BY <1>1, <2>1, TopFacts DEF Inside
<1>3. PICK p \in {"condition", "last"} :
          open' = [open EXCEPT ![Len(open)].part = p] /\ Ends(todo', "NewBlock")
  BY Lists DEF ElseBranch
<1>4. TopOf(open) \in Construct
  BY <1>2, TopFacts
<1>. DEFINE c == [TopOf(open) EXCEPT !.part = p]
<1>5. open' = [open EXCEPT ![Len(open)] = c]
  BY <1>3 DEF TopOf
<1>6. /\ c \in Construct /\ c.kind = TopOf(open).kind /\ c.block = TopOf(open).block
      /\ c.parent = TopOf(open).parent /\ c.part = p
  BY <1>4 DEF Construct
<1>. HIDE DEF c
<1>7. c.part \in Parts(c.kind)
  BY <1>2, <1>6 DEF Parts
<1>8. Awaits(c, "NewBlock")
  BY <1>2, <1>6 DEF Awaits, Finals, Bodies
<1>. QED  BY <1>1, <1>2, <1>3, <1>5, <1>6, <1>7, <1>8, TopMoves

LEMMA NodeEnds ==
    ASSUME ParserInv, AddNode
    PROVE  ParserInv'
<1>. DEFINE i == Innermost.parent
            v == Append(blocks[i], <<Innermost.kind, Innermost.parts>>)
<1>1. /\ todo # <<>> /\ Head(todo) = "AddNode" /\ blocks' = [blocks EXCEPT ![i] = v]
      /\ open' = Front(open) /\ todo' = <<>> /\ current' = open[Len(open) - 1].block
  BY DEF AddNode, Doing, Close
<1>. HIDE DEF i, v
<1>2. open # <<>> /\ TopOf(open).kind \in Nodes
  BY <1>1, Due DEF ParserInv, Finals, Awaits
<1>3. IsSeq(blocks') /\ Len(blocks') = Len(blocks) /\ Len(blocks) \in Nat
  BY <1>1, UpdateFacts, SequenceFacts DEF ParserInv, Parsing
<1>4. Len(open) > 1 /\ Filling(open[Len(open) - 1], Len(blocks))
  BY <1>2, TopFacts DEF Placed, TopOf
<1>5. /\ open' \in Seq(Construct) /\ Nested(open', Len(blocks))
      /\ open' # <<>> => TopOf(open') = open[Len(open) - 1]
  BY <1>1, <1>2, <1>3, ClosesNested DEF ParserInv, Parsing
<1>6. current' \in 1..Len(blocks)
  BY <1>1, <1>4 DEF Filling
<1>7. Settled(open', <<>>, current', Len(blocks'))
  BY <1>1, <1>3, <1>5, <1>6 DEF Settled, AtStatement
<1>8. current' \in 0..Len(blocks') /\ Nested(open', Len(blocks'))
  BY <1>3, <1>5, <1>6
<1>9. Parsing(open', <<>>, current', blocks')
  BY <1>3, <1>5, <1>7, <1>8, Rests
<1>. QED  BY <1>1, <1>9 DEF ParserInv

(* Every step of the parser keeps its invariant.                           *)
LEMMA ParserSteps ==
    ASSUME ParserInv, ParserNext
    PROVE  ParserInv'
<1>1. CASE NoJit \/ EndOfFile
  <2>1. UNCHANGED <<open, todo, current, blocks>>
    BY <1>1 DEF NoJit, EndOfFile
  <2>. QED  BY <2>1 DEF ParserInv
<1>. QED  BY <1>1, HandlerGoesOn, ItemEnds, ParseFails, DeclarationBegins, SectionBegins, ItemBegins,
             ListEnds, ClassEnds, DeclarationEnds, BlockBegins, CommandBegins, CommandEnds,
             NodeBegins, BlockEnds, ElseIsTried, ElseGoesOn, NodeEnds DEF ParserNext

LEMMA ParserStarts ==
    ASSUME ParserInit
    PROVE  ParserInv
<1>1. IsSeq(<<>>)
  <2>1. <<>> \in Seq({})
    OBVIOUS
  <2>. QED  BY <2>1 DEF IsSeq
<1>2. Parsing(<<>>, <<>>, 0, <<>>)
  BY <1>1, Abandoned
<1>. QED  BY <1>2 DEF ParserInit, ParserInv

LEMMA ParserResult ==
    ASSUME ParserInv
    PROVE  StatementsReturnToTheirBlock
<1>1. ASSUME NEW i \in 2..Len(open), open[i].kind \in {"if", "while"}
      PROVE  open[i].parent = open[i - 1].block
  <2>1. open \in Seq(Construct) /\ Nested(open, Len(blocks))
    BY DEF ParserInv, Parsing
  <2>2. Len(open) \in Nat
    BY <2>1
  <2>3. i \in 1..Len(open)
    BY <2>2
  <2>4. Placed(open, i, Len(blocks))
    BY <2>1, <2>3 DEF Nested
  <2>. QED  BY <1>1, <2>4 DEF Placed, Nodes
<1>2. ASSUME InBody
      PROVE  current = Innermost.block
  BY <1>2, BodyFacts, TopFacts
<1>. QED  BY <1>1, <1>2 DEF StatementsReturnToTheirBlock
-----------------------------------------------------------------------------
(* Induction over the numbers, by the least number of a set.               *)
LEMMA LeastNumber ==
    ASSUME NEW T, T \subseteq Nat, T # {}
    PROVE  \E m \in T : \A k \in T : m <= k
<1>. DEFINE R == OpToRel(<, Nat)
<1>1. IsWellFoundedOn(R, Nat)
  BY NatLessThanWellFounded
<1>. HIDE DEF R
<1>2. PICK m \in T : \A k \in T : <<k, m>> \notin R
  BY <1>1, WFMin
<1>3. ASSUME NEW k \in T PROVE m <= k
  <2>1. k \in Nat /\ m \in Nat /\ <<k, m>> \notin R
    BY <1>2
  <2>2. ~(k < m)
    BY <2>1 DEF R, OpToRel
  <2>. QED  BY <2>1, <2>2
<1>. QED  BY <1>3

LEMMA Induction ==
    ASSUME NEW S, 0 \in S, \A n \in Nat : n \in S => n + 1 \in S
    PROVE  Nat \subseteq S
<1>. DEFINE T == Nat \ S
<1>1. ASSUME T # {} PROVE FALSE
  <2>1. PICK m \in T : \A k \in T : m <= k
    BY <1>1, LeastNumber
  <2>2. m # 0 /\ m - 1 \in Nat /\ m - 1 \notin T
    BY <2>1
  <2>3. m - 1 \in S /\ m - 1 + 1 = m
    BY <2>2, <2>1
  <2>. QED  BY <2>3, <2>2
<1>. QED  BY <1>1
-----------------------------------------------------------------------------
(* Sequences.                                                              *)
LEMMA SameSequence ==
    ASSUME NEW S, NEW a \in Seq(S), NEW b \in Seq(S), Len(a) = Len(b),
           \A i \in 1..Len(a) : a[i] = b[i]
    PROVE  a = b
  OBVIOUS

LEMMA Joined ==
    ASSUME NEW S, NEW a \in Seq(S), NEW b \in Seq(S)
    PROVE  /\ a \o b \in Seq(S) /\ Len(a \o b) = Len(a) + Len(b)
           /\ \A i \in 1..Len(a) : (a \o b)[i] = a[i]
           /\ \A i \in 1..Len(b) : (a \o b)[Len(a) + i] = b[i]
<1>1. /\ a \o b \in Seq(S) /\ Len(a \o b) = Len(a) + Len(b) /\ Len(a) \in Nat /\ Len(b) \in Nat
      /\ \A i \in 1..(Len(a) + Len(b)) : (a \o b)[i] = IF i <= Len(a) THEN a[i] ELSE b[i - Len(a)]
  BY ConcatFacts
<1>2. ASSUME NEW i \in 1..Len(a) PROVE (a \o b)[i] = a[i]
  BY <1>1
<1>3. ASSUME NEW i \in 1..Len(b) PROVE (a \o b)[Len(a) + i] = b[i]
  <2>. DEFINE k == Len(a) + i
  <2>1. k \in 1..(Len(a) + Len(b)) /\ ~(k <= Len(a)) /\ k - Len(a) = i
    BY <1>1
  <2>. HIDE DEF k
  <2>2. (a \o b)[k] = b[i]
    BY <1>1, <2>1
  <2>. QED  BY <2>2 DEF k
<1>. QED  BY <1>1, <1>2, <1>3

LEMMA JoinAssoc ==
    ASSUME NEW S, NEW a \in Seq(S), NEW b \in Seq(S), NEW c \in Seq(S)
    PROVE  (a \o b) \o c = a \o (b \o c)
<1>. DEFINE ab == a \o b
            bc == b \o c
<1>1. /\ ab \in Seq(S) /\ Len(ab) = Len(a) + Len(b)
      /\ \A i \in 1..Len(a) : ab[i] = a[i]
      /\ \A i \in 1..Len(b) : ab[Len(a) + i] = b[i]
  BY Joined
<1>2. /\ bc \in Seq(S) /\ Len(bc) = Len(b) + Len(c)
      /\ \A i \in 1..Len(b) : bc[i] = b[i]
      /\ \A i \in 1..Len(c) : bc[Len(b) + i] = c[i]
  BY Joined
<1>. HIDE DEF ab, bc
<1>a. ab \in Seq(S) /\ bc \in Seq(S)
  BY <1>1, <1>2
<1>. DEFINE l == ab \o c
            r == a \o bc
<1>3. /\ l \in Seq(S) /\ Len(l) = Len(ab) + Len(c)
      /\ \A i \in 1..Len(ab) : l[i] = ab[i]
      /\ \A i \in 1..Len(c) : l[Len(ab) + i] = c[i]
  BY ONLY <1>a, c \in Seq(S), Joined
<1>4. /\ r \in Seq(S) /\ Len(r) = Len(a) + Len(bc)
      /\ \A i \in 1..Len(a) : r[i] = a[i]
      /\ \A i \in 1..Len(bc) : r[Len(a) + i] = bc[i]
  BY ONLY <1>a, a \in Seq(S), Joined
<1>. HIDE DEF l, r
<1>5. Len(a) \in Nat /\ Len(b) \in Nat /\ Len(c) \in Nat
  OBVIOUS
<1>6. Len(l) = Len(a) + Len(b) + Len(c) /\ Len(r) = Len(l)
  BY <1>1, <1>2, <1>3, <1>4, <1>5
<1>7. ASSUME NEW i \in 1..Len(l) PROVE l[i] = r[i]
  <2>1. CASE i <= Len(a)
    <3>1. i \in 1..Len(a) /\ i \in 1..Len(ab)
      BY <1>1, <1>5, <1>6, <2>1
    <3>. QED  BY <1>1, <1>3, <1>4, <3>1
  <2>2. CASE i > Len(a) /\ i <= Len(a) + Len(b)
    <3>. DEFINE k == i - Len(a)
    <3>1. k \in 1..Len(b) /\ i = Len(a) + k /\ i \in 1..Len(ab) /\ k \in 1..Len(bc)
      BY <1>1, <1>2, <1>5, <1>6, <2>2
    <3>. HIDE DEF k
    <3>2. l[i] = ab[i] /\ ab[i] = b[k]
      BY <1>1, <1>3, <3>1
    <3>3. r[i] = bc[k] /\ bc[k] = b[k]
      BY <1>2, <1>4, <3>1
    <3>. QED  BY <3>2, <3>3
  <2>3. CASE i > Len(a) + Len(b)
    <3>. DEFINE k == i - (Len(a) + Len(b))
                h == Len(b) + k
    <3>1. k \in 1..Len(c) /\ i = Len(ab) + k /\ h \in 1..Len(bc) /\ i = Len(a) + h
      BY <1>1, <1>2, <1>5, <1>6, <2>3
    <3>2. h = Len(b) + k
      OBVIOUS
    <3>. HIDE DEF k, h
    <3>3. l[i] = c[k]
      BY <1>3, <3>1
    <3>4. r[i] = bc[h] /\ bc[h] = c[k]
      BY <1>2, <1>4, <3>1, <3>2
    <3>. QED  BY <3>3, <3>4
  <2>. QED  BY <1>5, <1>6, <2>1, <2>2, <2>3
<1>8. l = r
  BY <1>3, <1>4, <1>6, <1>7, SameSequence
<1>. QED  BY <1>8 DEF l, r, ab, bc

LEMMA JoinEmpty ==
    ASSUME NEW S, NEW a \in Seq(S)
    PROVE  a \o <<>> = a /\ <<>> \o a = a /\ <<>> \in Seq(S)
<1>. DEFINE e == <<>>
<1>1. e \in Seq(S) /\ Len(e) = 0
  OBVIOUS
<1>. HIDE DEF e
<1>2. a \o e = a
  <2>1. a \o e \in Seq(S) /\ Len(a \o e) = Len(a) /\ \A i \in 1..Len(a) : (a \o e)[i] = a[i]
    BY <1>1, Joined
  <2>. QED  BY <2>1, SameSequence
<1>3. e \o a = a
  <2>1. e \o a \in Seq(S) /\ Len(e \o a) = Len(a) /\ \A i \in 1..Len(a) : (e \o a)[i] = a[i]
    <3>1. \A i \in 1..Len(a) : (e \o a)[Len(e) + i] = a[i] /\ Len(e) + i = i
      BY <1>1, Joined
    <3>. QED  BY <1>1, <3>1, Joined
  <2>. QED  BY <2>1, SameSequence
<1>. QED  BY <1>1, <1>2, <1>3 DEF e

LEMMA AppendJoins ==
    ASSUME NEW S, NEW a \in Seq(S), NEW x \in S
    PROVE  Append(a, x) = a \o <<x>> /\ <<x>> \in Seq(S)
<1>. DEFINE e == <<x>>
            l == Append(a, x)
            r == a \o e
<1>1. e \in Seq(S) /\ Len(e) = 1 /\ e[1] = x
  OBVIOUS
<1>2. l \in Seq(S) /\ Len(l) = Len(a) + 1 /\ l[Len(a) + 1] = x /\ \A i \in 1..Len(a) : l[i] = a[i]
  BY AppendFacts
<1>. HIDE DEF e, l
<1>3. r \in Seq(S) /\ Len(r) = Len(a) + 1 /\ r[Len(a) + 1] = x /\ \A i \in 1..Len(a) : r[i] = a[i]
  <2>1. 1 \in 1..Len(e)
    BY <1>1
  <2>. QED  BY <1>1, <2>1, Joined
<1>. HIDE DEF r
<1>4. ASSUME NEW i \in 1..Len(l) PROVE l[i] = r[i]
  <2>1. i \in 1..Len(a) \/ i = Len(a) + 1
    BY <1>2
  <2>. QED  BY <1>2, <1>3, <2>1
<1>5. l = r
  BY <1>2, <1>3, <1>4, SameSequence
<1>. QED  BY <1>1, <1>5 DEF l, r, e
-----------------------------------------------------------------------------
(* FlattenSeq by recursion from the front.                                 *)
Flattening(f, n, g) == g = [i \in 1..n |-> IF i = 1 THEN f[i] ELSE g[i - 1] \o f[i]]

LEMMA FlatteningExists ==
    ASSUME NEW f, NEW n \in Nat
    PROVE  \E g : Flattening(f, n, g)
<1>. DEFINE N == {m \in Nat : \E g : Flattening(f, m, g)}
<1>1. 0 \in N
  <2>. DEFINE g == [i \in 1..0 |-> {}]
  <2>1. Flattening(f, 0, g)
    BY DEF Flattening
  <2>. QED  BY <2>1
<1>2. ASSUME NEW m \in Nat, m \in N
      PROVE  m + 1 \in N
  <2>1. PICK g : Flattening(f, m, g)
    BY <1>2
  <2>. DEFINE h == [i \in 1..(m + 1) |-> IF i = 1 THEN f[1] ELSE IF i = m + 1 THEN g[m] \o f[m + 1] ELSE g[i]]
  <2>2. ASSUME NEW i \in 1..(m + 1)
        PROVE  h[i] = IF i = 1 THEN f[i] ELSE h[i - 1] \o f[i]
    <3>1. CASE i = 1
      BY <3>1
    <3>2. CASE i # 1
      <4>. DEFINE k == i - 1
      <4>1. k \in 1..m /\ k \in 1..(m + 1) /\ k # m + 1 /\ i = k + 1
        BY <3>2
      <4>2. h[k] = g[k]
        <5>1. CASE k = 1
          <6>1. g[1] = f[1]
            BY <2>1, <4>1, <5>1 DEF Flattening
          <6>. QED  BY <4>1, <5>1, <6>1
        <5>2. CASE k # 1
          BY <4>1, <5>2
        <5>. QED  BY <5>1, <5>2
      <4>3. h[i] = g[k] \o f[i]
        <5>1. CASE i = m + 1
          <6>1. k = m
            BY <4>1, <5>1
          <6>. QED  BY <3>2, <5>1, <6>1
        <5>2. CASE i # m + 1
          <6>1. i \in 1..m
            BY <5>2
          <6>2. g[i] = g[i - 1] \o f[i]
            BY <2>1, <3>2, <6>1 DEF Flattening
          <6>. QED  BY <3>2, <5>2, <6>2
        <5>. QED  BY <5>1, <5>2
      <4>. QED  BY <3>2, <4>2, <4>3
    <3>. QED  BY <3>1, <3>2
  <2>3. h = [i \in 1..(m + 1) |-> h[i]]
    OBVIOUS
  <2>. HIDE DEF h
  <2>4. Flattening(f, m + 1, h)
    BY <2>2, <2>3 DEF Flattening
  <2>. QED  BY <2>4
<1>. HIDE DEF N
<1>3. Nat \subseteq N
  BY <1>1, <1>2, Induction
<1>. QED  BY <1>3 DEF N

LEMMA FlatteningUnique ==
    ASSUME NEW f, NEW n \in Nat, NEW m \in Nat, n <= m, NEW g, NEW h,
           Flattening(f, n, g), Flattening(f, m, h)
    PROVE  \A i \in 1..n : g[i] = h[i]
<1>. DEFINE N == {k \in Nat : k \in 1..n => g[k] = h[k]}
<1>1. 0 \in N
  OBVIOUS
<1>2. ASSUME NEW k \in Nat, k \in N
      PROVE  k + 1 \in N
  <2>. DEFINE i == k + 1
  <2>. SUFFICES ASSUME i \in 1..n PROVE g[i] = h[i]
    OBVIOUS
  <2>1. i \in 1..m /\ i - 1 = k
    OBVIOUS
  <2>2. g[i] = IF i = 1 THEN f[i] ELSE g[i - 1] \o f[i]
    BY DEF Flattening
  <2>3. h[i] = IF i = 1 THEN f[i] ELSE h[i - 1] \o f[i]
    BY <2>1 DEF Flattening
  <2>4. i # 1 => g[k] = h[k]
    <3>1. i # 1 => k \in 1..n
      OBVIOUS
    <3>. QED  BY <1>2, <3>1
  <2>. HIDE DEF i
  <2>. QED  BY <2>1, <2>2, <2>3, <2>4
<1>. HIDE DEF N
<1>3. Nat \subseteq N
  BY <1>1, <1>2, Induction
<1>. QED  BY <1>3 DEF N

LEMMA FlattenIs ==
    ASSUME NEW S, NEW n \in Nat \ {0}, NEW f \in [1..n -> S], NEW g, Flattening(f, n, g)
    PROVE  FlattenSeq(f) = g[n]
<1>1. Len(f) = n /\ n # 0
  OBVIOUS
<1>. DEFINE F == CHOOSE h : h = [i \in 1..Len(f) |-> IF i = 1 THEN f[i] ELSE h[i - 1] \o f[i]]
<1>2. FlattenSeq(f) = F[Len(f)]
  BY <1>1 DEF FlattenSeq
<1>3. Flattening(f, n, F)
  <2>1. g = [i \in 1..Len(f) |-> IF i = 1 THEN f[i] ELSE g[i - 1] \o f[i]]
    BY <1>1 DEF Flattening
  <2>2. F = [i \in 1..Len(f) |-> IF i = 1 THEN f[i] ELSE F[i - 1] \o f[i]]
    BY <2>1
  <2>. HIDE DEF F
  <2>. QED  BY <1>1, <2>2 DEF Flattening
<1>. HIDE DEF F
<1>4. F[n] = g[n]
  BY <1>3, FlatteningUnique
<1>. QED  BY <1>1, <1>2, <1>4

LEMMA FlattenEmpty == FlattenSeq(<<>>) = <<>>
  BY DEF FlattenSeq

LEMMA FlattenNone ==
    ASSUME NEW S, NEW f \in [1..0 -> S]
    PROVE  FlattenSeq(f) = <<>>
<1>1. f = <<>>
  OBVIOUS
<1>. QED  BY <1>1, FlattenEmpty

LEMMA FlattenGrows ==
    ASSUME NEW S, NEW n \in Nat, NEW f \in [1..n -> Seq(S)], NEW g \in [1..(n + 1) -> Seq(S)],
           \A i \in 1..n : g[i] = f[i]
    PROVE  FlattenSeq(g) = FlattenSeq(f) \o g[n + 1]
<1>. DEFINE m == n + 1
<1>1. m \in Nat \ {0} /\ n <= m /\ m \in 1..m /\ m - 1 = n /\ g[m] \in Seq(S)
  OBVIOUS
<1>. HIDE DEF m
<1>2. PICK h : Flattening(g, m, h)
  BY <1>1, FlatteningExists
<1>3. FlattenSeq(g) = h[m]
  BY <1>1, <1>2, FlattenIs DEF m
<1>4. h[m] = IF m = 1 THEN g[m] ELSE h[n] \o g[m]
  BY <1>1, <1>2 DEF Flattening
<1>5. CASE n = 0
  <2>1. FlattenSeq(f) = <<>>
    BY <1>5, FlattenNone
  <2>2. m = 1
    BY <1>5 DEF m
  <2>3. <<>> \o g[m] = g[m]
    BY <1>1, JoinEmpty
  <2>. QED  BY <1>3, <1>4, <2>1, <2>2, <2>3 DEF m
<1>6. CASE n # 0
  <2>1. PICK k : Flattening(f, n, k)
    BY FlatteningExists
  <2>2. FlattenSeq(f) = k[n]
    BY <1>6, <2>1, FlattenIs
  <2>3. \A i \in 1..n : k[i] = h[i]
    <3>1. Flattening(g, n, k)
      BY <2>1 DEF Flattening
    <3>. QED  BY <1>1, <1>2, <3>1, FlatteningUnique
  <2>4. n \in 1..n /\ m # 1
    BY <1>6 DEF m
  <2>. QED  BY <1>3, <1>4, <2>2, <2>3, <2>4 DEF m
<1>. QED  BY <1>5, <1>6

(* What holds of the empty sequence and is kept by joining.                *)
LEMMA FlattenClosed ==
    ASSUME NEW S, NEW B, B \subseteq Seq(S), <<>> \in B, \A a, b \in B : a \o b \in B,
           NEW n \in Nat, NEW f \in [1..n -> B]
    PROVE  FlattenSeq(f) \in B
<1>. DEFINE N == {m \in Nat : \A g \in [1..m -> B] : FlattenSeq(g) \in B}
<1>1. 0 \in N
  BY FlattenNone
<1>2. ASSUME NEW m \in Nat, m \in N
      PROVE  m + 1 \in N
  <2>. SUFFICES ASSUME NEW g \in [1..(m + 1) -> B] PROVE FlattenSeq(g) \in B
    OBVIOUS
  <2>. DEFINE e == [i \in 1..m |-> g[i]]
  <2>1. e \in [1..m -> B] /\ e \in [1..m -> Seq(S)] /\ g \in [1..(m + 1) -> Seq(S)]
        /\ \A i \in 1..m : g[i] = e[i]
    OBVIOUS
  <2>. HIDE DEF e
  <2>2. FlattenSeq(e) \in B
    BY <1>2, <2>1
  <2>3. FlattenSeq(g) = FlattenSeq(e) \o g[m + 1]
    BY <2>1, FlattenGrows
  <2>4. g[m + 1] \in B
    OBVIOUS
  <2>. QED  BY <2>2, <2>3, <2>4
<1>. HIDE DEF N
<1>3. Nat \subseteq N
  BY <1>1, <1>2, Induction
<1>. QED  BY <1>3 DEF N
-----------------------------------------------------------------------------
(* Texts, opaque to the provers: joined, and of one word.                  *)
Text == Seq(Tokens)
a ++ b == a \o b
Word(x) == <<x>>
Nil == <<>>
Lbrace == "{"
Rbrace == "}"
CommaToken == ","

(* What the parser has built and what it has read.  A text is what a block *)
(* says; "text" gives every block its own.                                 *)
Words == Tokens \ {Lbrace, Rbrace, CommaToken}
IsCommand(s) == s # <<>> /\ s[1] \in Commands /\ s \in Seq(Words)
IsNode(s, b, n) == \E k \in Nodes, p \in Seq((b + 1)..n) : s = <<k, p>>
WellFormed(made) ==
    /\ IsSeq(made)
    /\ \A b \in 1..Len(made) :
           /\ IsSeq(made[b])
           /\ \A i \in 1..Len(made[b]) : IsCommand(made[b][i]) \/ IsNode(made[b][i], b, Len(made))

(* Braces open before they close, and all are closed in the end.           *)
Closed(s) ==
    /\ s \in Text
    /\ \A k \in 1..Len(s) : Braces(Rbrace, s, k) <= Braces(Lbrace, s, k)
    /\ Braces(Rbrace, s, Len(s)) = Braces(Lbrace, s, Len(s))
Line(stmts, text) == FlattenSeq([i \in DOMAIN stmts |-> Spelled(stmts[i], text)])
Tells(text, made) ==
    /\ text = [b \in 1..Len(made) |-> text[b]]
    /\ \A b \in 1..Len(made) : text[b] = Line(made[b], text) /\ Closed(text[b])

(* A declaration keeps its block; its compiler has the text of it.         *)
NoClass(prog) == \A i \in 1..Len(prog) : prog[i].what # "class"
KeptOne(d, text) ==
    /\ d.what \in {"class", "init", "function"}
    /\ d.what = "init" => d.block \in DOMAIN text
    /\ d.what = "function" /\ d.block # 0 =>
           /\ d.block \in DOMAIN text /\ (~d.nojit => d.copy = text[d.block])
           /\ d.types \in Text /\ d.name \in Tokens
Kept(prog, text) ==
    /\ IsSeq(prog)
    /\ \A i \in 1..Len(prog) :
           KeptOne(prog[i], text) /\ (NoClass(prog) /\ prog[i].what = "function" => prog[i].block # 0)
Account(prog, text) == FlattenSeq([i \in DOMAIN prog |-> Written(prog[i], text)])
-----------------------------------------------------------------------------
(* A construct under way: its blocks that are complete, and the words      *)
(* before the next.                                                        *)
Final(c) ==
    IF c.part # "last" THEN 0
    ELSE IF Len(c.parts) % 2 = 1 THEN Len(c.parts) ELSE Len(c.parts) + 1
Lead(c, i) == IF c.kind \in Nodes THEN Before(c.kind, i, Final(c)) ELSE Nil
Done(c, text) == FlattenSeq([i \in DOMAIN c.parts |-> Lead(c, i) ++ Braced(text[c.parts[i]])])
Upto(c, text) == (Done(c, text) ++ Lead(c, Len(c.parts) + 1)) ++ Word(Lbrace)
Partly(c, text) == Upto(c, text) ++ text[c.block]
Under(o, text) == FlattenSeq([j \in 1..(Len(o) - 1) |-> Partly(o[j], text)])

(* How many blocks are complete while one is being filled, after one, and  *)
(* after an else.                                                          *)
Amid(c) ==
    LET n == Len(c.parts) IN
    IF c.kind \in Nodes
    THEN \/ c.part = "condition" /\ n % 2 = 0
         \/ c.part = "body" /\ n % 2 = 1
         \/ c.part = "last" /\ n % 2 = 0 /\ n > 0
    ELSE n = 0
After(c) ==
    LET n == Len(c.parts) IN
    IF c.kind \in Nodes
    THEN n > 1 /\ ((c.part = "body" /\ n % 2 = 0) \/ (c.part = "last" /\ n % 2 = 1))
    ELSE n = 1 /\ c.parts[1] = c.block
Otherwise(c) == c.kind = "if" /\ c.part = "else" /\ Len(c.parts) % 2 = 0 /\ Len(c.parts) > 0

(* What has been read, r, is what is there: p, the text of the constructs  *)
(* around the innermost, c, what c has got, and tokens that are still due. *)
DueBlock == <<"NewBlock">>
DueBrace == <<Lbrace, "NewBlock">>
DueThen == <<"then", Lbrace, "NewBlock">>
Tip(r, p, c, t, nm, text) ==
    \/ Amid(c) /\ t = DueBlock /\ r = p ++ Upto(c, text)
    \/ Amid(c) /\ t = DueBrace /\ r ++ Word(Lbrace) = p ++ Upto(c, text)
    \/ Amid(c) /\ t = DueThen /\ (r ++ Word("then")) ++ Word(Lbrace) = p ++ Upto(c, text)
    \/ Amid(c) /\ t = <<>> /\ r = p ++ Partly(c, text)
    \/ /\ Amid(c) /\ nm \in Seq(Words) /\ Len(nm) = 1 /\ nm[1] \in Commands
       /\ Operand[nm[1]] # "none" /\ t = <<Operand[nm[1]], "AddCommand">>
       /\ r = (p ++ Partly(c, text)) ++ nm
    \/ Amid(c) /\ t = <<"AddCommand">> /\ IsCommand(nm) /\ r = (p ++ Partly(c, text)) ++ Spelled(nm, text)
    \/ /\ After(c) /\ t \in {<<s>> : s \in {"Else", "AddNode", "AddFunction", "SetInitStatic"}}
       /\ (t = <<"Else">> => c.part = "body") /\ r = p ++ Done(c, text)
    \/ Otherwise(c) /\ t = <<>> /\ r = (p ++ Done(c, text)) ++ Word("else")
Told(r, x, o, t, nm, text) == Tip(r, x ++ Under(o, text), TopOf(o), t, nm, text)

(* The blocks being filled are the innermost one's and those around it, in *)
(* the order they were made; no one else has them.                         *)
Fills(o, t, j) == j < Len(o) \/ AtStatement(o, t)
Mentions(s, b) == s[1] \in Nodes /\ \E i \in DOMAIN s[2] : s[2][i] = b
Nobodys(b, made, prog) ==
    /\ b \in 1..Len(made)
    /\ \A c \in 1..Len(made) : \A i \in 1..Len(made[c]) : ~Mentions(made[c][i], b)
    /\ \A i \in 1..Len(prog) : prog[i].what \in {"init", "function"} => prog[i].block # b
OwnBlock(o, j, made, prog) ==
    /\ Nobodys(o[j].block, made, prog)
    /\ \A k \in 1..(j - 1) : o[k].block < o[j].block
    /\ \A k \in 1..Len(o) : \A i \in 1..Len(o[k].parts) : o[k].parts[i] # o[j].block
Tree(o, t, made, prog) ==
    \A j \in 1..Len(o) :
        /\ o[j].kind \in (IF j = 1 THEN {"init", "function"} ELSE Nodes)
        /\ \A i \in 1..Len(o[j].parts) :
               o[j].parts[i] \in 1..Len(made) /\ (j > 1 => o[j].parts[i] > o[j].parent)
        /\ j < Len(o) => Amid(o[j])
        /\ Fills(o, t, j) => OwnBlock(o, j, made, prog)
-----------------------------------------------------------------------------
(* Where the parser is: between declarations, in a class, in the types of  *)
(* a pure function, in the head of a function, or in a body.  d is the     *)
(* head of the function so far, nm the identifiers of the handler.         *)
HeadOk(d) == DOMAIN d = DOMAIN Nothing /\ d.types \in Seq(Idents) /\ (~d.pure => d.types = <<>>)
Story(p, prog, text) == p \in Text /\ (NoClass(prog) => p = Account(prog, text))
AtFile(r, t, o, d, prog, text) ==
    /\ o = <<>> /\ t = <<>> /\ HeadOk(d)
    /\ \E p : Story(p, prog, text) /\ WithoutCommas(r) = p ++ Heading(d)
AtClass(o) ==
    /\ o # <<>> /\ o[1].kind = "class"
    /\ \A j \in 2..Len(o) : o[j].kind \in Sections
TypeList(d) == (Word("pure") ++ Word("(")) ++ d.types
Typed(r, p, d, t, nm) ==
    \/ t = <<"(">> /\ d.types = <<>> /\ r = p ++ Word("pure")
    \/ t \in {Nil, <<"comma">>} /\ r = p ++ TypeList(d)
    \/ /\ t = <<"AddType", "comma">> /\ nm \in Seq(Idents) /\ Len(nm) = 1
       /\ r = (p ++ TypeList(d)) ++ Word(nm[1])
AtTypes(r, t, nm, o, d, prog, text) ==
    /\ Len(o) = 1 /\ o[1].kind = "types"
    /\ HeadOk(d) /\ d.pure /\ ~d.nojit
    /\ \E p : Story(p, prog, text) /\ Typed(WithoutCommas(r), p, d, t, nm)
FunctionPlace == "function id"
DueHead == <<":", "1", FunctionPlace, "NameIt", Lbrace, "NewBlock">>
DueName == <<"NameIt", Lbrace, "NewBlock">>
Headed(r, p, t, nm) ==
    \/ /\ t = DueHead /\ nm = <<>>
       /\ r = p ++ Word("function")
    \/ /\ t = Tail(DueHead) /\ nm = <<>>
       /\ r = (p ++ Word("function")) ++ Word(":")
    \/ /\ t = Tail(Tail(DueHead)) /\ nm = <<>>
       /\ r = ((p ++ Word("function")) ++ Word(":")) ++ Word("1")
    \/ /\ t = DueName /\ nm \in Seq(Idents) /\ Len(nm) = 1
       /\ r = (((p ++ Word("function")) ++ Word(":")) ++ Word("1")) ++ Word(nm[1])
AtHead(r, t, nm, o, d, prog, text) ==
    /\ Len(o) = 1 /\ o[1].kind = "function" /\ o[1].parts = <<>>
    /\ HeadOk(d)
    /\ \E p \in Text : Len(p) + 6 = d.from /\ Headed(r, p, t, nm)
    /\ \E p : Story(p, prog, text) /\ Headed(WithoutCommas(r), p ++ Heading(d), t, nm)
Preface(kind, d) ==
    IF kind = "init" THEN Word("init-static")
    ELSE (((Heading(d) ++ Word("function")) ++ Word(":")) ++ Word("1")) ++ Word(d.name)
AtBody(r, t, nm, o, made, d, prog, text) ==
    /\ o # <<>> /\ Tree(o, t, made, prog) /\ HeadOk(d)
    /\ o[1].kind = "init" => ~d.pure /\ ~d.nojit
    /\ o[1].kind = "function" => d.name \in Idents
    /\ \E x \in Text : (o[1].kind = "function" => Len(x) + 2 = d.from) /\ Told(r, x, o, t, nm, text)
    /\ \E p : /\ Story(p, prog, text)
              /\ Told(WithoutCommas(r), p ++ Preface(o[1].kind, d), o, t, nm, text)
Somewhere(r, t, nm, o, made, d, prog, text) ==
    \/ AtFile(r, t, o, d, prog, text)
    \/ AtClass(o)
    \/ AtTypes(r, t, nm, o, d, prog, text)
    \/ AtHead(r, t, nm, o, d, prog, text)
    \/ AtBody(r, t, nm, o, made, d, prog, text)

Reported(made, prog, text) == WellFormed(made) /\ Tells(text, made) /\ Kept(prog, text)
Truthful(text) ==
    /\ Reported(blocks, program, text)
    /\ read \in Text /\ DOMAIN decl = DOMAIN Nothing
    /\ mode = "reading" => Somewhere(read, todo, names, open, blocks, decl, program, text)
    /\ mode = "parsed" /\ NoClass(program) => WithoutCommas(read) = Account(program, text)
TextInv == \E text : Truthful(text)
-----------------------------------------------------------------------------
(* Words, and how braces are counted.                                      *)
LEMMA Single ==
    ASSUME NEW S, NEW x \in S
    PROVE  <<x>> \in Seq(S) /\ Len(<<x>>) = 1 /\ <<x>>[1] = x
  OBVIOUS

LEMMA WordText ==
    ASSUME NEW x \in Tokens
    PROVE  Word(x) \in Text /\ Len(Word(x)) = 1 /\ Word(x)[1] = x
  BY Single DEF Word, Text

LEMMA SeqWider ==
    ASSUME NEW S, NEW T, S \subseteq T, NEW s \in Seq(S)
    PROVE  s \in Seq(T) /\ Len(s) \in Nat /\ \A i \in 1..Len(s) : s[i] \in S
<1>1. Len(s) \in Nat /\ \A i \in 1..Len(s) : s[i] \in S
  OBVIOUS
<1>2. s = [i \in 1..Len(s) |-> s[i]]
  OBVIOUS
<1>3. \A i \in 1..Len(s) : s[i] \in T
  BY <1>1
<1>. DEFINE n == Len(s)
<1>4. n \in Nat /\ s \in [1..n -> T]
  BY <1>1, <1>2, <1>3
<1>. HIDE DEF n
<1>5. s \in Seq(T)
  BY <1>4
<1>. QED  BY <1>1, <1>5

LEMMA WordFacts ==
    /\ Words \subseteq Tokens /\ {Lbrace, Rbrace, CommaToken} \subseteq Tokens
    /\ Commands \subseteq Words /\ Idents \subseteq Words
    /\ {"1", ":", "(", ")", "if", "while", "then", "else"} \subseteq Words
    /\ {"function", "init-static", "pure", "no-jit"} \subseteq Words
<1>1. {"{", "}", ",", ":", "(", ")"} \subseteq Puncts
  BY Zenon DEF Puncts
<1>2. {"if", "while", "then", "else", "function", "init-static", "pure", "no-jit"} \subseteq Keywords
  BY Zenon DEF Keywords
<1>3. Commands \cap {"{", "}", ","} = {} /\ Idents \cap {"{", "}", ","} = {}
  BY <1>1, VocabularyAssumption, Zenon
<1>. QED  BY <1>1, <1>2, <1>3, Zenon DEF Words, Tokens, Lbrace, Rbrace, CommaToken

LEMMA BracesDiffer == Lbrace # Rbrace /\ CommaToken # Lbrace /\ CommaToken # Rbrace
  BY Zenon DEF Lbrace, Rbrace, CommaToken

LEMMA BracesFacts ==
    ASSUME NEW t, NEW s, NEW n \in Nat
    PROVE  /\ Braces(t, s, n) \in Nat
           /\ Braces(t, s, 0) = 0
           /\ Braces(t, s, n + 1) = Braces(t, s, n) + (IF s[n + 1] = t THEN 1 ELSE 0)
<1>. DEFINE A == {i \in 1..n : s[i] = t}
            B == {i \in 1..(n + 1) : s[i] = t}
            Z == {i \in 1..0 : s[i] = t}
<1>1. IsFiniteSet(A) /\ n + 1 \notin A
  <2>1. IsFiniteSet(1..n) /\ A \subseteq 1..n
    BY FS_Interval
  <2>. QED  BY <2>1, FS_Subset
<1>2. Z = {} /\ Cardinality(Z) = 0
  <2>1. Z = {}
    OBVIOUS
  <2>. QED  BY <2>1, FS_EmptySet
<1>3. B = IF s[n + 1] = t THEN A \cup {n + 1} ELSE A
  OBVIOUS
<1>4. Cardinality(A) \in Nat /\ Cardinality(A \cup {n + 1}) = Cardinality(A) + 1
  BY <1>1, FS_AddElement, FS_CardinalityType
<1>5. /\ Braces(t, s, n) = Cardinality(A) /\ Braces(t, s, 0) = Cardinality(Z)
      /\ Braces(t, s, n + 1) = Cardinality(B)
  BY DEF Braces
<1>. HIDE DEF A, B, Z
<1>. QED  BY <1>2, <1>3, <1>4, <1>5

LEMMA BracesNext ==
    ASSUME NEW t, NEW s, NEW n \in Nat, NEW m, m = n + 1
    PROVE  /\ s[m] = t => Braces(t, s, m) = Braces(t, s, n) + 1
           /\ s[m] # t => Braces(t, s, m) = Braces(t, s, n)
<1>1. Braces(t, s, n + 1) = Braces(t, s, n) + (IF s[n + 1] = t THEN 1 ELSE 0) /\ Braces(t, s, n) \in Nat
  BY BracesFacts
<1>. QED  BY <1>1

LEMMA BracesAgree ==
    ASSUME NEW t, NEW s, NEW u, NEW n, \A i \in 1..n : s[i] = u[i]
    PROVE  Braces(t, s, n) = Braces(t, u, n)
<1>1. {i \in 1..n : s[i] = t} = {i \in 1..n : u[i] = t}
  OBVIOUS
<1>. QED  BY <1>1 DEF Braces

BracesAdd(t, a, b, u) ==
    /\ \A k \in 0..Len(a) : Braces(t, u, k) = Braces(t, a, k)
    /\ \A k \in 0..Len(b) : Braces(t, u, Len(a) + k) = Braces(t, a, Len(a)) + Braces(t, b, k)

LEMMA BracesJoin ==
    ASSUME NEW a, NEW b, NEW u, NEW t, Len(a) \in Nat, Len(b) \in Nat,
           \A i \in 1..Len(a) : u[i] = a[i],
           \A i \in 1..Len(b) : u[Len(a) + i] = b[i]
    PROVE  BracesAdd(t, a, b, u)
<1>1. /\ Len(a) \in Nat /\ Len(b) \in Nat
      /\ \A i \in 1..Len(a) : u[i] = a[i]
      /\ \A i \in 1..Len(b) : u[Len(a) + i] = b[i]
  OBVIOUS
<1>2. ASSUME NEW k \in 0..Len(a) PROVE Braces(t, u, k) = Braces(t, a, k)
  <2>1. \A i \in 1..k : u[i] = a[i]
    BY <1>1
  <2>. QED  BY <2>1, BracesAgree
<1>. DEFINE h == Braces(t, a, Len(a))
            N == {k \in Nat : k \in 0..Len(b) => Braces(t, u, Len(a) + k) = h + Braces(t, b, k)}
<1>3. h \in Nat
  BY <1>1, BracesFacts
<1>4. 0 \in N
  <2>1. Len(a) + 0 = Len(a) /\ Len(a) \in 0..Len(a)
    BY <1>1
  <2>2. Braces(t, u, Len(a)) = h /\ Braces(t, b, 0) = 0
    BY <1>2, <2>1, BracesFacts
  <2>. QED  BY <1>3, <2>1, <2>2
<1>5. ASSUME NEW k \in Nat, k \in N
      PROVE  k + 1 \in N
  <2>. SUFFICES ASSUME k + 1 \in 0..Len(b)
                PROVE  Braces(t, u, Len(a) + (k + 1)) = h + Braces(t, b, k + 1)
    OBVIOUS
  <2>. DEFINE m == Len(a) + k
              o == m + 1
              c == k + 1
  <2>1. m \in Nat /\ Len(a) + c = o /\ c \in 1..Len(b) /\ k \in 0..Len(b) /\ c = k + 1 /\ o = m + 1
    BY <1>1
  <2>. HIDE DEF c, o
  <2>2. u[o] = b[c]
    BY <1>1, <2>1
  <2>3. Braces(t, u, m) = h + Braces(t, b, k)
    BY <1>5, <2>1
  <2>. HIDE DEF m, h, N
  <2>4. /\ u[o] = t => Braces(t, u, o) = Braces(t, u, m) + 1
        /\ u[o] # t => Braces(t, u, o) = Braces(t, u, m)
    BY <2>1, BracesNext
  <2>5. /\ b[c] = t => Braces(t, b, c) = Braces(t, b, k) + 1
        /\ b[c] # t => Braces(t, b, c) = Braces(t, b, k)
        /\ Braces(t, b, k) \in Nat
    BY <2>1, BracesNext, BracesFacts
  <2>6. (h + Braces(t, b, k)) + 1 = h + (Braces(t, b, k) + 1)
    BY <1>3, <2>5
  <2>7. Braces(t, u, o) = h + Braces(t, b, c)
    BY <2>2, <2>3, <2>4, <2>5, <2>6
  <2>. QED  BY <2>1, <2>7 DEF c
<1>. HIDE DEF N
<1>6. Nat \subseteq N
  BY <1>4, <1>5, Induction
<1>7. \A k \in 0..Len(b) : k \in Nat
  BY <1>1
<1>8. \A k \in 0..Len(b) : Braces(t, u, Len(a) + k) = h + Braces(t, b, k)
  BY <1>6, <1>7 DEF N
<1>. QED  BY <1>2, <1>8 DEF BracesAdd

LEMMA JoinedBraces ==
    ASSUME NEW a \in Text, NEW b \in Text
    PROVE  /\ a ++ b \in Text /\ Len(a ++ b) = Len(a) + Len(b) /\ Len(a) \in Nat /\ Len(b) \in Nat
           /\ \A i \in 1..Len(a) : (a ++ b)[i] = a[i]
           /\ \A t : BracesAdd(t, a, b, a ++ b)
<1>. DEFINE u == a ++ b
<1>1. /\ u \in Text /\ Len(u) = Len(a) + Len(b)
      /\ \A i \in 1..Len(a) : u[i] = a[i]
      /\ \A i \in 1..Len(b) : u[Len(a) + i] = b[i]
  <2>1. a \in Seq(Tokens) /\ b \in Seq(Tokens)
    BY DEF Text
  <2>. QED  BY <2>1, Joined DEF Text, ++
<1>2. Len(a) \in Nat /\ Len(b) \in Nat
  BY DEF Text
<1>. HIDE DEF u
<1>3. ASSUME NEW t
      PROVE  BracesAdd(t, a, b, u)
  BY <1>1, <1>2, BracesJoin
<1>4. /\ u \in Text /\ Len(u) = Len(a) + Len(b) /\ Len(a) \in Nat /\ Len(b) \in Nat
      /\ \A i \in 1..Len(a) : u[i] = a[i]
      /\ \A t : BracesAdd(t, a, b, u)
  BY <1>1, <1>2, <1>3
<1>. QED  BY <1>4 DEF u

LEMMA ClosedJoin ==
    ASSUME NEW a, NEW b, Closed(a), Closed(b)
    PROVE  Closed(a ++ b)
<1>. DEFINE u == a ++ b
            lo == Lbrace
            hi == Rbrace
<1>1. /\ a \in Text /\ b \in Text
      /\ \A k \in 1..Len(a) : Braces(hi, a, k) <= Braces(lo, a, k)
      /\ \A k \in 1..Len(b) : Braces(hi, b, k) <= Braces(lo, b, k)
      /\ Braces(hi, a, Len(a)) = Braces(lo, a, Len(a)) /\ Braces(hi, b, Len(b)) = Braces(lo, b, Len(b))
  BY DEF Closed
<1>. HIDE DEF lo, hi
<1>2. u \in Text /\ Len(u) = Len(a) + Len(b) /\ Len(a) \in Nat /\ Len(b) \in Nat
  BY <1>1, JoinedBraces
<1>b. a \in Text /\ b \in Text
  BY <1>1
<1>3. /\ \A t : BracesAdd(t, a, b, u)
  BY <1>b, JoinedBraces
<1>. HIDE DEF u
<1>4. ASSUME NEW k \in 1..Len(u) PROVE Braces(hi, u, k) <= Braces(lo, u, k)
  <2>1. CASE k \in 1..Len(a)
    <3>1. k \in 0..Len(a)
      BY <2>1, <1>2
    <3>. QED  BY <1>1, <1>3, <2>1, <3>1 DEF BracesAdd
  <2>2. CASE k \notin 1..Len(a)
    <3>. DEFINE j == k - Len(a)
    <3>1. j \in 1..Len(b) /\ j \in 0..Len(b) /\ k = Len(a) + j /\ j \in Nat
      BY <1>2, <2>2
    <3>. HIDE DEF j
    <3>2. /\ Braces(hi, u, k) = Braces(hi, a, Len(a)) + Braces(hi, b, j)
          /\ Braces(lo, u, k) = Braces(lo, a, Len(a)) + Braces(lo, b, j)
      BY <1>3, <3>1 DEF BracesAdd
    <3>3. /\ Braces(hi, b, j) <= Braces(lo, b, j) /\ Braces(hi, a, Len(a)) = Braces(lo, a, Len(a))
          /\ Braces(hi, b, j) \in Nat /\ Braces(lo, b, j) \in Nat /\ Braces(lo, a, Len(a)) \in Nat
      BY <1>1, <1>2, <3>1, BracesFacts
    <3>. QED  BY <3>2, <3>3
  <2>. QED  BY <2>1, <2>2
<1>5. Braces(hi, u, Len(u)) = Braces(lo, u, Len(u))
  <2>1. Len(b) \in 0..Len(b)
    BY <1>2
  <2>. QED  BY <1>1, <1>2, <1>3, <2>1 DEF BracesAdd
<1>. QED  BY <1>2, <1>4, <1>5 DEF Closed, u, lo, hi

LEMMA ClosedWords ==
    ASSUME NEW s \in Seq(Words)
    PROVE  Closed(s)
<1>0. Words \subseteq Tokens /\ Lbrace \notin Words /\ Rbrace \notin Words
  BY DEF Words
<1>1. s \in Seq(Tokens) /\ Len(s) \in Nat /\ \A i \in 1..Len(s) : s[i] \in Words
  BY ONLY <1>0, s \in Seq(Words), SeqWider
<1>2. ASSUME NEW t, t \notin Words, NEW k \in 0..Len(s)
      PROVE  Braces(t, s, k) = 0
  <2>1. ASSUME NEW i \in 1..k PROVE s[i] # t
    <3>1. i \in 1..Len(s)
      BY <1>1
    <3>. QED  BY <1>1, <1>2, <3>1
  <2>2. {i \in 1..k : s[i] = t} = {}
    BY <2>1
  <2>. QED  BY <2>2, FS_EmptySet DEF Braces
<1>. DEFINE lo == Lbrace
            hi == Rbrace
<1>3. \A k \in 0..Len(s) : Braces(hi, s, k) = 0 /\ Braces(lo, s, k) = 0
  BY <1>0, <1>2
<1>. HIDE DEF lo, hi
<1>4. Len(s) \in 0..Len(s) /\ \A k \in 1..Len(s) : k \in 0..Len(s)
  BY <1>1
<1>5. ASSUME NEW k \in 1..Len(s) PROVE Braces(hi, s, k) <= Braces(lo, s, k)
  BY <1>3, <1>4
<1>6. Braces(hi, s, Len(s)) = Braces(lo, s, Len(s))
  BY <1>3, <1>4
<1>. QED  BY <1>1, <1>5, <1>6 DEF Closed, Text, lo, hi

(* Up to the brace that is one too many.                                   *)
LEMMA BracesOfOne ==
    ASSUME NEW x, NEW t
    PROVE  Braces(t, Word(x), 1) = IF x = t THEN 1 ELSE 0
<1>. DEFINE s == Word(x)
<1>1. s[1] = x
  BY DEF Word
<1>. HIDE DEF s
<1>2. Braces(t, s, 0 + 1) = Braces(t, s, 0) + (IF s[0 + 1] = t THEN 1 ELSE 0) /\ Braces(t, s, 0) = 0
  BY BracesFacts
<1>3. Braces(t, s, 1) = IF s[1] = t THEN 1 ELSE 0
  BY <1>2
<1>. QED  BY <1>1, <1>3 DEF s

LEMMA ClosedBetween ==
    ASSUME NEW s, Closed(s), NEW a \in Text, NEW b \in Text, Len(a) = 1, Len(b) = 1,
           NEW lo, NEW hi, lo = Lbrace, hi = Rbrace,
           Braces(lo, a, 1) = 1, Braces(hi, a, 1) = 0, Braces(lo, b, 1) = 0, Braces(hi, b, 1) = 1,
           NEW v, v = a ++ s, NEW u, u = v ++ b
    PROVE  Closed(u)
<1>0. s \in Text
  BY DEF Closed
<1>1. /\ s \in Text /\ Braces(hi, s, Len(s)) = Braces(lo, s, Len(s)) /\ Len(s) \in Nat
      /\ \A k \in 1..Len(s) : Braces(hi, s, k) <= Braces(lo, s, k)
  BY DEF Closed, Text
<1>2. /\ v \in Text /\ Len(v) = 1 + Len(s)
      /\ \A t : \A k \in 0..1 : Braces(t, v, k) = Braces(t, a, k)
      /\ \A t : \A k \in 0..Len(s) : Braces(t, v, 1 + k) = Braces(t, a, 1) + Braces(t, s, k)
  <2>1. /\ v \in Text /\ Len(v) = Len(a) + Len(s)
        /\ \A t : BracesAdd(t, a, s, v)
    BY ONLY a \in Text, <1>0, v = a ++ s, JoinedBraces
  <2>. QED  BY <2>1 DEF BracesAdd
<1>a. v \in Text
  BY <1>2
<1>3. /\ u \in Text /\ Len(u) = Len(v) + 1
      /\ \A t : \A k \in 0..Len(v) : Braces(t, u, k) = Braces(t, v, k)
      /\ \A t : \A k \in 0..1 : Braces(t, u, Len(v) + k) = Braces(t, v, Len(v)) + Braces(t, b, k)
  <2>1. /\ u \in Text /\ Len(u) = Len(v) + Len(b)
        /\ \A t : BracesAdd(t, v, b, u)
    BY ONLY b \in Text, <1>a, u = v ++ b, JoinedBraces
  <2>. QED  BY <2>1 DEF BracesAdd
<1>4. ASSUME NEW t, NEW k \in 0..Len(s)
      PROVE  Braces(t, u, 1 + k) = Braces(t, a, 1) + Braces(t, s, k)
  <2>1. 1 + k \in 0..Len(v)
    BY <1>1, <1>2
  <2>. QED  BY <1>2, <1>3, <2>1
<1>5. ASSUME NEW k \in 0..Len(s)
      PROVE  Braces(hi, s, k) <= Braces(lo, s, k) /\ Braces(hi, s, k) \in Nat /\ Braces(lo, s, k) \in Nat
  <2>1. k \in Nat /\ (k = 0 \/ k \in 1..Len(s))
    BY <1>1
  <2>2. /\ Braces(hi, s, k) \in Nat /\ Braces(lo, s, k) \in Nat
        /\ Braces(hi, s, 0) = 0 /\ Braces(lo, s, 0) = 0
    BY <2>1, BracesFacts
  <2>. QED  BY <1>1, <2>1, <2>2
<1>6. Braces(hi, u, Len(u)) = Braces(lo, u, Len(u))
  <2>1. 1 \in 0..1 /\ Len(s) \in 0..Len(s)
    BY <1>1
  <2>2. ASSUME NEW t PROVE Braces(t, u, Len(u)) = (Braces(t, a, 1) + Braces(t, s, Len(s))) + Braces(t, b, 1)
    <3>1. Braces(t, v, Len(v)) = Braces(t, a, 1) + Braces(t, s, Len(s))
      BY <1>2, <2>1
    <3>. QED  BY <1>3, <2>1, <3>1
  <2>. QED  BY <1>1, <1>5, <2>1, <2>2
<1>7. ASSUME NEW k \in 1..Len(u) PROVE Braces(hi, u, k) <= Braces(lo, u, k)
  <2>1. CASE k = Len(u)
    <3>1. Len(u) \in Nat
      BY <1>3
    <3>2. Braces(lo, u, Len(u)) \in Nat
      BY <3>1, BracesFacts
    <3>. QED  BY <1>6, <2>1, <3>2
  <2>2. CASE k # Len(u)
    <3>. DEFINE j == k - 1
    <3>1. j \in 0..Len(s) /\ k = 1 + j
      BY <1>1, <1>2, <1>3, <2>2
    <3>. HIDE DEF j
    <3>2. /\ Braces(hi, u, k) = 0 + Braces(hi, s, j)
          /\ Braces(lo, u, k) = 1 + Braces(lo, s, j)
      BY <1>4, <3>1
    <3>. QED  BY <1>5, <3>1, <3>2
  <2>. QED  BY <2>1, <2>2
<1>. QED  BY <1>3, <1>6, <1>7 DEF Closed

LEMMA ClosedBraced ==
    ASSUME NEW s, Closed(s)
    PROVE  Closed(Braced(s))
<1>. DEFINE lo == Lbrace
            hi == Rbrace
            a == Word(lo)
            b == Word(hi)
<1>0. lo # hi /\ lo \in Tokens /\ hi \in Tokens
  BY WordFacts, BracesDiffer
<1>1. Braced(s) = (a ++ s) ++ b /\ lo = Lbrace /\ hi = Rbrace
  BY Zenon DEF Braced, Word, ++, Lbrace, Rbrace
<1>. HIDE DEF lo, hi
<1>2. a \in Text /\ b \in Text /\ Len(a) = 1 /\ Len(b) = 1
  BY <1>0, WordText
<1>3. /\ Braces(lo, a, 1) = 1 /\ Braces(hi, a, 1) = 0 /\ Braces(lo, b, 1) = 0 /\ Braces(hi, b, 1) = 1
  BY <1>0, BracesOfOne
<1>. HIDE DEF a, b
<1>. DEFINE v == a ++ s
            u == v ++ b
<1>4. v = a ++ s /\ u = v ++ b
  OBVIOUS
<1>. HIDE DEF v, u
<1>5. Closed(u)
  BY <1>1, <1>2, <1>3, <1>4, ClosedBetween
<1>. QED  BY <1>1, <1>4, <1>5

LEMMA CopyUpTo ==
    ASSUME NEW s, Closed(s), NEW b \in Text, Len(b) = 1,
           NEW lo, NEW hi, lo = Lbrace, hi = Rbrace, Braces(lo, b, 1) = 0, Braces(hi, b, 1) = 1,
           NEW u, u = s ++ b
    PROVE  Copied(u) = s
<1>0. s \in Text
  BY DEF Closed
<1>. DEFINE n == Len(s) + 1
            Ends1(m) == /\ Braces(hi, u, m) > Braces(lo, u, m)
                        /\ \A k \in 1..(m - 1) : Braces(hi, u, k) <= Braces(lo, u, k)
<1>1. /\ s \in Text /\ Braces(hi, s, Len(s)) = Braces(lo, s, Len(s)) /\ Len(s) \in Nat
      /\ \A k \in 1..Len(s) : Braces(hi, s, k) <= Braces(lo, s, k)
  BY DEF Closed, Text
<1>2. BlockEnd(u) = CHOOSE m \in DOMAIN u : Ends1(m)
  BY Zenon DEF BlockEnd, Lbrace, Rbrace
<1>. HIDE DEF Ends1
<1>3. /\ u \in Text /\ Len(u) = n /\ DOMAIN u = 1..n
      /\ \A i \in 1..Len(s) : u[i] = s[i]
      /\ \A t : \A k \in 0..Len(s) : Braces(t, u, k) = Braces(t, s, k)
      /\ \A t : \A k \in 0..1 : Braces(t, u, Len(s) + k) = Braces(t, s, Len(s)) + Braces(t, b, k)
  <2>1. /\ u \in Text /\ Len(u) = Len(s) + Len(b)
        /\ \A i \in 1..Len(s) : u[i] = s[i]
        /\ \A t : BracesAdd(t, s, b, u)
    BY ONLY b \in Text, <1>0, u = s ++ b, JoinedBraces
  <2>2. DOMAIN u = 1..Len(u)
    BY <2>1
  <2>. QED  BY <2>1, <2>2 DEF BracesAdd
<1>4. Braces(hi, s, Len(s)) \in Nat /\ Braces(lo, s, Len(s)) \in Nat
  BY <1>1, BracesFacts
<1>5. \A k \in 1..Len(s) : Braces(hi, u, k) <= Braces(lo, u, k)
  <2>1. \A k \in 1..Len(s) : k \in 0..Len(s)
    BY <1>1
  <2>. QED  BY <1>1, <1>3, <2>1
<1>6. Braces(hi, u, n) = Braces(hi, s, Len(s)) + 1 /\ Braces(lo, u, n) = Braces(lo, s, Len(s)) + 0
  <2>1. 1 \in 0..1 /\ n = Len(s) + 1
    OBVIOUS
  <2>. QED  BY <1>3, <2>1
<1>7. n - 1 = Len(s) /\ n \in 1..n
  BY <1>1
<1>. HIDE DEF n
<1>8. Ends1(n)
  BY <1>1, <1>4, <1>5, <1>6, <1>7 DEF Ends1
<1>9. ASSUME NEW m \in 1..n, Ends1(m) PROVE m = n
  <2>1. ASSUME m # n PROVE FALSE
    <3>1. m \in 1..Len(s) /\ m \in Nat
      BY <1>1, <1>7, <2>1
    <3>2. Braces(hi, u, m) <= Braces(lo, u, m) /\ Braces(hi, u, m) > Braces(lo, u, m)
      BY <1>5, <1>9, <3>1 DEF Ends1
    <3>3. Braces(hi, u, m) \in Nat /\ Braces(lo, u, m) \in Nat
      BY <3>1, BracesFacts
    <3>. QED  BY <3>2, <3>3
  <2>. QED  BY <2>1 DEF BracesAdd
<1>10. BlockEnd(u) = n
  <2>1. BlockEnd(u) \in 1..n /\ Ends1(BlockEnd(u))
    BY <1>2, <1>3, <1>7, <1>8
  <2>. QED  BY <2>1, <1>9
<1>11. Copied(u) = SubSeq(u, 1, Len(s))
  BY <1>7, <1>10 DEF Copied
<1>12. SubSeq(u, 1, Len(s)) = s
  <2>. DEFINE w == SubSeq(u, 1, Len(s))
  <2>1. w \in Text /\ Len(w) = Len(s) /\ \A i \in 1..Len(s) : w[i] = u[i]
    BY <1>1, <1>3, <1>7 DEF Text
  <2>. HIDE DEF w
  <2>2. w = s
    BY <1>1, <1>3, <2>1, SameSequence DEF Text
  <2>. QED  BY <2>2 DEF w
<1>. QED  BY <1>11, <1>12

LEMMA CopyIsBody ==
    ASSUME NEW s, Closed(s)
    PROVE  Copied(s ++ Word(Rbrace)) = s
<1>. DEFINE lo == Lbrace
            hi == Rbrace
            b == Word(hi)
            u == s ++ b
<1>0. lo # hi /\ hi \in Tokens /\ lo = Lbrace /\ hi = Rbrace
  BY WordFacts, BracesDiffer
<1>. HIDE DEF lo, hi
<1>1. b \in Text /\ Len(b) = 1 /\ Braces(lo, b, 1) = 0 /\ Braces(hi, b, 1) = 1
  BY <1>0, WordText, BracesOfOne
<1>2. u = s ++ b
  OBVIOUS
<1>. HIDE DEF b, u
<1>3. Copied(u) = s
  BY <1>0, <1>1, <1>2, CopyUpTo
<1>. QED  BY <1>3 DEF u, b, hi
-----------------------------------------------------------------------------
(* Texts: a monoid.                                                        *)
LEMMA CatText ==
    /\ Nil \in Text
    /\ \A a, b \in Text : a ++ b \in Text
    /\ \A a, b, c \in Text : (a ++ b) ++ c = a ++ (b ++ c)
    /\ \A a \in Text : a ++ Nil = a /\ Nil ++ a = a
<1>1. ASSUME NEW a \in Text, NEW b \in Text PROVE a ++ b \in Text
  BY JoinedBraces
<1>2. ASSUME NEW a \in Text, NEW b \in Text, NEW c \in Text PROVE (a ++ b) ++ c = a ++ (b ++ c)
  <2>1. a \in Seq(Tokens) /\ b \in Seq(Tokens) /\ c \in Seq(Tokens)
    BY DEF Text
  <2>. QED  BY <2>1, JoinAssoc DEF ++
<1>3. ASSUME NEW a \in Text PROVE a ++ Nil = a /\ Nil ++ a = a /\ Nil \in Text
  BY JoinEmpty DEF ++, Nil, Text
<1>4. Nil \in Text
  BY DEF Nil, Text
<1>. QED  BY <1>1, <1>2, <1>3, <1>4

LEMMA AppendText ==
    ASSUME NEW a \in Text, NEW x \in Tokens
    PROVE  Append(a, x) = a ++ Word(x) /\ Word(x) \in Text /\ a ++ Word(x) \in Text
<1>1. Append(a, x) = a ++ Word(x)
  BY AppendJoins DEF Text, ++, Word
<1>2. Word(x) \in Text
  BY WordText
<1>. QED  BY <1>1, <1>2, CatText

LEMMA FlattenText ==
    ASSUME NEW n \in Nat, NEW f \in [1..n -> Text]
    PROVE  FlattenSeq(f) \in Text
<1>1. Text \subseteq Seq(Tokens) /\ <<>> \in Text /\ \A a, b \in Text : a \o b \in Text
  BY CatText DEF Text, Nil, ++
<1>. QED  BY <1>1, FlattenClosed

LEMMA FlattenAdds ==
    ASSUME NEW n \in Nat, NEW f \in [1..n -> Text], NEW g \in [1..(n + 1) -> Text],
           \A i \in 1..n : g[i] = f[i]
    PROVE  FlattenSeq(g) = FlattenSeq(f) ++ g[n + 1]
  BY FlattenGrows DEF Text, ++

LEMMA FlattenNil ==
    ASSUME NEW f, f = <<>> \/ DOMAIN f = 1..0, f = [i \in DOMAIN f |-> f[i]]
    PROVE  FlattenSeq(f) = Nil
<1>1. f = <<>>
  OBVIOUS
<1>. QED  BY <1>1, FlattenEmpty DEF Nil

LEMMA BracedText ==
    ASSUME NEW s \in Text
    PROVE  /\ Braced(s) = (Word(Lbrace) ++ s) ++ Word(Rbrace) /\ Braced(s) \in Text
           /\ Word(Lbrace) \in Text /\ Word(Rbrace) \in Text
<1>1. Braced(s) = (Word(Lbrace) ++ s) ++ Word(Rbrace)
  BY Zenon DEF Braced, Word, ++, Lbrace, Rbrace
<1>2. Word(Lbrace) \in Text /\ Word(Rbrace) \in Text
  BY WordFacts, WordText
<1>. QED  BY <1>1, <1>2, CatText

(* The commas of what has been read.                                       *)
LEMMA CommasText ==
    ASSUME NEW r \in Text
    PROVE  WithoutCommas(r) \in Text
<1>. DEFINE f == [i \in DOMAIN r |-> IF r[i] = CommaToken THEN Nil ELSE Word(r[i])]
<1>1. WithoutCommas(r) = FlattenSeq(f)
  BY Zenon DEF WithoutCommas, CommaToken, Nil, Word
<1>2. Len(r) \in Nat /\ DOMAIN r = 1..Len(r) /\ \A i \in 1..Len(r) : r[i] \in Tokens
  BY DEF Text
<1>3. \A i \in 1..Len(r) : Nil \in Text /\ Word(r[i]) \in Text
  BY <1>2, CatText, WordText
<1>4. f \in [1..Len(r) -> Text]
  BY <1>2, <1>3
<1>. HIDE DEF f
<1>. QED  BY <1>1, <1>2, <1>4, FlattenText

LEMMA CommasAppend ==
    ASSUME NEW r \in Text, NEW x \in Tokens
    PROVE  WithoutCommas(Append(r, x)) = IF x = CommaToken THEN WithoutCommas(r) ELSE WithoutCommas(r) ++ Word(x)
<1>. DEFINE w(y) == IF y = CommaToken THEN Nil ELSE Word(y)
            s == Append(r, x)
            n == Len(r)
            f == [i \in DOMAIN r |-> w(r[i])]
            g == [i \in DOMAIN s |-> w(s[i])]
<1>1. WithoutCommas(r) = FlattenSeq(f) /\ WithoutCommas(s) = FlattenSeq(g)
  BY Zenon DEF WithoutCommas, CommaToken, Nil, Word
<1>2. /\ n \in Nat /\ DOMAIN r = 1..n /\ DOMAIN s = 1..(n + 1) /\ s[n + 1] = x
      /\ \A i \in 1..n : r[i] \in Tokens /\ s[i] = r[i]
  <2>1. r \in Seq(Tokens)
    BY DEF Text
  <2>2. s \in Seq(Tokens) /\ Len(s) = n + 1 /\ s[n + 1] = x /\ \A i \in 1..n : s[i] = r[i]
    BY <2>1, AppendFacts
  <2>. HIDE DEF s
  <2>3. \A i \in 1..n : r[i] \in Tokens
    BY <2>1
  <2>. QED  BY <2>1, <2>2, <2>3
<1>. HIDE DEF s, n
<1>3. \A y \in Tokens : w(y) \in Text
  BY CatText, WordText
<1>4. \A i \in 1..(n + 1) : s[i] \in Tokens
  <2>1. \A i \in 1..(n + 1) : i \in 1..n \/ i = n + 1
    BY <1>2
  <2>. QED  BY <1>2, <2>1
<1>. HIDE DEF w
<1>5. /\ f \in [1..n -> Text] /\ g \in [1..(n + 1) -> Text] /\ \A i \in 1..n : g[i] = f[i]
      /\ g[n + 1] = w(x)
  <2>1. \A i \in 1..n : i \in 1..(n + 1)
    BY <1>2
  <2>2. n + 1 \in 1..(n + 1)
    BY <1>2
  <2>. QED  BY <1>2, <1>3, <1>4, <2>1, <2>2
<1>. HIDE DEF f, g
<1>6. FlattenSeq(g) = FlattenSeq(f) ++ w(x) /\ FlattenSeq(f) \in Text
  BY <1>2, <1>5, FlattenAdds, FlattenText
<1>7. FlattenSeq(f) ++ Nil = FlattenSeq(f)
  BY <1>6, CatText
<1>. QED  BY <1>1, <1>6, <1>7 DEF w, s

LEMMA CommasNil == WithoutCommas(Nil) = Nil
<1>. DEFINE f == [i \in DOMAIN Nil |-> IF Nil[i] = CommaToken THEN Nil ELSE Word(Nil[i])]
<1>1. WithoutCommas(Nil) = FlattenSeq(f)
  BY Zenon DEF WithoutCommas, CommaToken, Nil, Word
<1>2. DOMAIN Nil = 1..0
  BY DEF Nil
<1>3. DOMAIN f = 1..0 /\ f = [i \in DOMAIN f |-> f[i]]
  BY <1>2
<1>. HIDE DEF f
<1>. QED  BY <1>1, <1>3, FlattenNil
-----------------------------------------------------------------------------
(* What a statement and a block say.                                       *)
LEMMA BeforeIs ==
    ASSUME NEW kind, NEW i, NEW n
    PROVE  /\ i = 1 => Before(kind, i, n) = Word(kind)
           /\ i # 1 /\ i % 2 = 0 => Before(kind, i, n) = Word("then")
           /\ i # 1 /\ i % 2 # 0 /\ i = n => Before(kind, i, n) = Word("else")
           /\ i # 1 /\ i % 2 # 0 /\ i # n => Before(kind, i, n) = Word("else") ++ Word("if")
<1>1. Word("else") ++ Word("if") = <<"else", "if">>
  BY TwoTokens DEF Word, ++
<1>. QED  BY <1>1 DEF Before, Word

LEMMA BeforeText ==
    ASSUME NEW kind \in Nodes, NEW i, NEW n
    PROVE  Before(kind, i, n) \in Seq(Words) /\ Before(kind, i, n) \in Text
<1>1. kind \in Words /\ "then" \in Words /\ "else" \in Words /\ "if" \in Words
  BY WordFacts DEF Nodes
<1>2. ASSUME NEW x \in Words PROVE Word(x) \in Seq(Words)
  BY Single DEF Word
<1>3. Word("else") ++ Word("if") \in Seq(Words)
  BY <1>1, <1>2, Joined DEF ++
<1>4. Before(kind, i, n) \in {Word(kind), Word("then"), Word("else"), Word("else") ++ Word("if")}
  BY BeforeIs
<1>5. Before(kind, i, n) \in Seq(Words)
  BY <1>1, <1>2, <1>3, <1>4
<1>. QED  BY <1>5, ClosedWords DEF Closed

LEMMA NotBoth == \A s \in Commands : s \notin Nodes
  BY VocabularyAssumption, Zenon DEF Nodes, Keywords

LEMMA SpelledIs ==
    ASSUME NEW s, NEW text
    PROVE  /\ s[1] \in Nodes => Spelled(s, text) = FlattenSeq([i \in DOMAIN s[2] |->
                                    Before(s[1], i, Len(s[2])) ++ Braced(text[s[2][i]])])
           /\ s[1] \notin Nodes => Spelled(s, text) = IF Operand[s[1]] = "1" THEN s ++ Word("1") ELSE s
  BY Zenon DEF Spelled, Nodes, ++, Word

LEMMA ClosedIn == \A s : Closed(s) => s \in Text
  BY DEF Closed

LEMMA FlattenClosedText ==
    ASSUME NEW n \in Nat, NEW f, f = [i \in 1..n |-> f[i]], \A i \in 1..n : Closed(f[i])
    PROVE  Closed(FlattenSeq(f))
<1>. DEFINE B == {s \in Text : Closed(s)}
<1>1. B \subseteq Seq(Tokens) /\ \A a, b \in B : a \o b \in B
  <2>1. ASSUME NEW a \in B, NEW b \in B PROVE a \o b \in B
    BY ClosedJoin, ClosedIn DEF ++
  <2>. QED  BY <2>1 DEF Text
<1>2. <<>> \in B
  <2>1. Nil \in Seq(Words)
    BY DEF Nil
  <2>2. Closed(Nil) /\ Nil \in Text
    BY <2>1, ClosedWords, ClosedIn
  <2>. QED  BY <2>2 DEF Nil
<1>3. f \in [1..n -> B]
  BY ClosedIn
<1>. HIDE DEF B
<1>4. FlattenSeq(f) \in B
  BY <1>1, <1>2, <1>3, FlattenClosed
<1>. QED  BY <1>4 DEF B

LEMMA CommandClosed ==
    ASSUME NEW s, IsCommand(s), NEW text
    PROVE  Closed(Spelled(s, text))
<1>1. s[1] \notin Nodes /\ s \in Seq(Words)
  BY NotBoth DEF IsCommand
<1>2. Closed(s)
  BY <1>1, ClosedWords
<1>3. Closed(Word("1"))
  <2>1. Word("1") \in Seq(Words)
    BY Single, WordFacts DEF Word
  <2>. QED  BY <2>1, ClosedWords
<1>4. Closed(s ++ Word("1"))
  BY <1>2, <1>3, ClosedJoin
<1>5. Spelled(s, text) = IF Operand[s[1]] = "1" THEN s ++ Word("1") ELSE s
  BY <1>1, SpelledIs
<1>. QED  BY <1>2, <1>4, <1>5

LEMMA NodeFacts ==
    ASSUME NEW s, NEW b \in Nat, NEW n \in Nat, IsNode(s, b, n)
    PROVE  /\ s[1] \in Nodes /\ Len(s[2]) \in Nat /\ DOMAIN s[2] = 1..Len(s[2])
           /\ \A i \in 1..Len(s[2]) : s[2][i] \in (b + 1)..n
<1>1. PICK k \in Nodes, p \in Seq((b + 1)..n) : s = <<k, p>>
  BY DEF IsNode
<1>2. s[1] = k /\ s[2] = p /\ Len(p) \in Nat /\ DOMAIN p = 1..Len(p) /\ \A i \in 1..Len(p) : p[i] \in (b + 1)..n
  BY <1>1
<1>. QED  BY <1>2

LEMMA NodeClosed ==
    ASSUME NEW s, NEW b \in Nat, NEW n \in Nat, IsNode(s, b, n), NEW text,
           \A c \in (b + 1)..n : Closed(text[c])
    PROVE  Closed(Spelled(s, text))
<1>. DEFINE k == s[1]
            p == s[2]
<1>2. k \in Nodes /\ Len(p) \in Nat /\ DOMAIN p = 1..Len(p) /\ \A i \in 1..Len(p) : p[i] \in (b + 1)..n
  BY NodeFacts
<1>. DEFINE f == [i \in DOMAIN p |-> Before(k, i, Len(p)) ++ Braced(text[p[i]])]
<1>3. Spelled(s, text) = FlattenSeq(f)
  BY <1>2, SpelledIs
<1>. HIDE DEF k, p
<1>4. ASSUME NEW i \in 1..Len(p) PROVE Closed(Before(k, i, Len(p)) ++ Braced(text[p[i]]))
  <2>1. Closed(Before(k, i, Len(p)))
    BY <1>2, BeforeText, ClosedWords
  <2>2. Closed(Braced(text[p[i]]))
    BY <1>2, ClosedBraced
  <2>. QED  BY <2>1, <2>2, ClosedJoin
<1>5. f = [i \in 1..Len(p) |-> f[i]] /\ \A i \in 1..Len(p) : Closed(f[i])
  BY <1>2, <1>4
<1>. HIDE DEF f
<1>. QED  BY <1>2, <1>3, <1>5, FlattenClosedText

(* Statements say the same when the blocks they hold do.                   *)
LEMMA SpelledAgrees ==
    ASSUME NEW s, NEW text, NEW other,
           s[1] \in Nodes => \A i \in DOMAIN s[2] : other[s[2][i]] = text[s[2][i]]
    PROVE  Spelled(s, other) = Spelled(s, text)
<1>1. CASE s[1] \in Nodes
  <2>. DEFINE f == [i \in DOMAIN s[2] |-> Before(s[1], i, Len(s[2])) ++ Braced(text[s[2][i]])]
              g == [i \in DOMAIN s[2] |-> Before(s[1], i, Len(s[2])) ++ Braced(other[s[2][i]])]
  <2>1. f = g
    BY <1>1
  <2>2. Spelled(s, text) = FlattenSeq(f) /\ Spelled(s, other) = FlattenSeq(g)
    BY <1>1, SpelledIs
  <2>. HIDE DEF f, g
  <2>. QED  BY <2>1, <2>2
<1>2. CASE s[1] \notin Nodes
  BY <1>2, SpelledIs
<1>. QED  BY <1>1, <1>2

LEMMA LineAgrees ==
    ASSUME NEW stmts, NEW text, NEW other,
           \A j \in DOMAIN stmts : Spelled(stmts[j], other) = Spelled(stmts[j], text)
    PROVE  Line(stmts, other) = Line(stmts, text)
<1>. DEFINE f == [i \in DOMAIN stmts |-> Spelled(stmts[i], text)]
            g == [i \in DOMAIN stmts |-> Spelled(stmts[i], other)]
<1>1. f = g
  OBVIOUS
<1>2. Line(stmts, text) = FlattenSeq(f) /\ Line(stmts, other) = FlattenSeq(g)
  BY DEF Line
<1>. HIDE DEF f, g
<1>. QED  BY <1>1, <1>2

LEMMA LineGrows ==
    ASSUME NEW stmts, IsSeq(stmts), NEW text, \A j \in 1..Len(stmts) : Closed(Spelled(stmts[j], text)),
           NEW s, Closed(Spelled(s, text))
    PROVE  Line(Append(stmts, s), text) = Line(stmts, text) ++ Spelled(s, text)
<1>. DEFINE longer == Append(stmts, s)
            n == Len(stmts)
            f == [i \in DOMAIN stmts |-> Spelled(stmts[i], text)]
            g == [i \in DOMAIN longer |-> Spelled(longer[i], text)]
<1>1. /\ n \in Nat /\ DOMAIN stmts = 1..n /\ DOMAIN longer = 1..(n + 1)
      /\ longer[n + 1] = s /\ \A i \in 1..n : longer[i] = stmts[i]
  <2>1. Len(longer) = n + 1 /\ IsSeq(longer)
    BY SequenceFacts
  <2>2. n \in Nat /\ longer[n + 1] = s /\ \A i \in 1..n : longer[i] = stmts[i]
    BY SequenceFacts
  <2>. HIDE DEF longer
  <2>. QED  BY <2>1, <2>2 DEF IsSeq
<1>2. Line(stmts, text) = FlattenSeq(f) /\ Line(longer, text) = FlattenSeq(g)
  BY DEF Line
<1>. HIDE DEF longer, n
<1>3. \A i \in 1..(n + 1) : i \in 1..n \/ i = n + 1
  BY <1>1
<1>4. \A i \in 1..(n + 1) : Closed(Spelled(longer[i], text))
  BY <1>1, <1>3 DEF n
<1>5. \A i \in 1..(n + 1) : Spelled(longer[i], text) \in Text
  BY <1>4, ClosedIn
<1>6. \A i \in 1..n : i \in 1..(n + 1)
  BY <1>1
<1>7. n + 1 \in 1..(n + 1)
  BY <1>1
<1>8. /\ f \in [1..n -> Text] /\ g \in [1..(n + 1) -> Text]
      /\ \A i \in 1..n : g[i] = f[i]
      /\ g[n + 1] = Spelled(s, text)
  BY <1>1, <1>5, <1>6, <1>7
<1>. HIDE DEF f, g
<1>9. FlattenSeq(g) = FlattenSeq(f) ++ g[n + 1]
  BY <1>1, <1>8, FlattenAdds
<1>. QED  BY <1>2, <1>8, <1>9 DEF longer
-----------------------------------------------------------------------------
(* What the open constructs have got.                                      *)
LEMMA Parity ==
    ASSUME NEW n \in Nat
    PROVE  /\ n % 2 = 0 \/ n % 2 = 1
           /\ n % 2 = 0 => (n + 1) % 2 = 1 /\ (n + 2) % 2 = 0 /\ n % 2 # 1 /\ (n + 1) % 2 # 0
           /\ n % 2 = 1 => (n + 1) % 2 = 0 /\ (n + 2) % 2 = 1 /\ n % 2 # 0 /\ n > 0 /\ n + 1 > 1
  OBVIOUS

LEMMA LeadText ==
    ASSUME NEW c, NEW i
    PROVE  Lead(c, i) \in Text
  BY BeforeText, CatText DEF Lead

LEMMA DoneIs ==
    ASSUME NEW c, c.parts \in Seq(Nat), NEW text, \A i \in 1..Len(c.parts) : text[c.parts[i]] \in Text,
           NEW f, f = [i \in DOMAIN c.parts |-> Lead(c, i) ++ Braced(text[c.parts[i]])]
    PROVE  /\ Done(c, text) = FlattenSeq(f) /\ Done(c, text) \in Text
           /\ f \in [1..Len(c.parts) -> Text]
<1>. DEFINE n == Len(c.parts)
<1>1. DOMAIN c.parts = 1..n /\ n \in Nat
  OBVIOUS
<1>2. Done(c, text) = FlattenSeq(f)
  BY DEF Done
<1>3. \A i \in 1..n : Lead(c, i) ++ Braced(text[c.parts[i]]) \in Text
  <2>1. ASSUME NEW i \in 1..n PROVE Lead(c, i) ++ Braced(text[c.parts[i]]) \in Text
    <3>1. Braced(text[c.parts[i]]) \in Text
      BY BracedText
    <3>. QED  BY <3>1, LeadText, CatText
  <2>. QED  BY <2>1
<1>. HIDE DEF n
<1>4. f \in [1..n -> Text]
  BY <1>1, <1>3
<1>. QED  BY <1>1, <1>2, <1>4, FlattenText DEF n

LEMMA DoneNone ==
    ASSUME NEW c, c.parts = <<>>, NEW text
    PROVE  Done(c, text) = Nil
<1>. DEFINE f == [i \in DOMAIN c.parts |-> Lead(c, i) ++ Braced(text[c.parts[i]])]
<1>1. Done(c, text) = FlattenSeq(f)
  BY DEF Done
<1>2. DOMAIN f = 1..0 /\ f = [i \in DOMAIN f |-> f[i]]
  OBVIOUS
<1>. HIDE DEF f
<1>. QED  BY <1>1, <1>2, FlattenNil

LEMMA DoneGrows ==
    ASSUME NEW c, c.parts \in Seq(Nat), NEW text, \A i \in 1..Len(c.parts) : text[c.parts[i]] \in Text,
           NEW b \in Nat, text[b] \in Text, NEW d, d.parts = Append(c.parts, b),
           \A i \in 1..Len(c.parts) : Lead(d, i) = Lead(c, i)
    PROVE  /\ Done(d, text) = Done(c, text) ++ (Lead(d, Len(c.parts) + 1) ++ Braced(text[b]))
           /\ d.parts \in Seq(Nat) /\ Len(d.parts) = Len(c.parts) + 1
           /\ \A i \in 1..Len(d.parts) : text[d.parts[i]] \in Text
<1>. DEFINE n == Len(c.parts)
            f == [i \in DOMAIN c.parts |-> Lead(c, i) ++ Braced(text[c.parts[i]])]
            g == [i \in DOMAIN d.parts |-> Lead(d, i) ++ Braced(text[d.parts[i]])]
<1>1. /\ d.parts \in Seq(Nat) /\ Len(d.parts) = n + 1 /\ d.parts[n + 1] = b
      /\ \A i \in 1..n : d.parts[i] = c.parts[i]
  BY AppendFacts
<1>2. n \in Nat /\ DOMAIN c.parts = 1..n /\ DOMAIN d.parts = 1..(n + 1)
  BY <1>1
<1>3. \A i \in 1..Len(d.parts) : text[d.parts[i]] \in Text
  <2>1. \A i \in 1..(n + 1) : i \in 1..n \/ i = n + 1
    BY <1>2
  <2>. QED  BY <1>1, <2>1
<1>4. /\ Done(c, text) = FlattenSeq(f) /\ f \in [1..n -> Text]
      /\ Done(d, text) = FlattenSeq(g) /\ g \in [1..(n + 1) -> Text]
  BY <1>1, <1>3, DoneIs
<1>. HIDE DEF n
<1>5. \A i \in 1..n : g[i] = f[i]
  <2>1. \A i \in 1..n : i \in 1..(n + 1)
    BY <1>2
  <2>. QED  BY <1>1, <1>2, <2>1 DEF n
<1>6. g[n + 1] = Lead(d, n + 1) ++ Braced(text[b])
  <2>1. n + 1 \in 1..(n + 1)
    BY <1>2
  <2>. QED  BY <1>1, <1>2, <2>1
<1>. HIDE DEF f, g
<1>7. FlattenSeq(g) = FlattenSeq(f) ++ g[n + 1]
  BY <1>2, <1>4, <1>5, FlattenAdds
<1>. QED  BY <1>1, <1>3, <1>4, <1>6, <1>7 DEF n

LEMMA DoneAgrees ==
    ASSUME NEW c, c.parts \in Seq(Nat), NEW d, d.parts = c.parts, NEW text, NEW other,
           \A i \in 1..Len(c.parts) : Lead(d, i) = Lead(c, i),
           \A i \in 1..Len(c.parts) : other[c.parts[i]] = text[c.parts[i]]
    PROVE  Done(d, other) = Done(c, text)
<1>. DEFINE f == [i \in DOMAIN c.parts |-> Lead(c, i) ++ Braced(text[c.parts[i]])]
            g == [i \in DOMAIN d.parts |-> Lead(d, i) ++ Braced(other[d.parts[i]])]
<1>1. DOMAIN c.parts = 1..Len(c.parts)
  OBVIOUS
<1>2. f = g
  BY <1>1
<1>3. Done(c, text) = FlattenSeq(f) /\ Done(d, other) = FlattenSeq(g)
  BY DEF Done
<1>. HIDE DEF f, g
<1>. QED  BY <1>2, <1>3

(* The same construct, whatever block it fills.                            *)
LEMMA LeadSame ==
    ASSUME NEW c, NEW d, d.kind = c.kind, d.part = c.part, d.parts = c.parts, NEW i
    PROVE  Lead(d, i) = Lead(c, i)
  BY DEF Lead, Final

LEMMA UptoAgrees ==
    ASSUME NEW c, c.parts \in Seq(Nat), NEW d, d.kind = c.kind, d.part = c.part, d.parts = c.parts,
           NEW text, NEW other, \A i \in 1..Len(c.parts) : other[c.parts[i]] = text[c.parts[i]]
    PROVE  Upto(d, other) = Upto(c, text)
<1>1. \A i : Lead(d, i) = Lead(c, i)
  BY LeadSame
<1>2. Done(d, other) = Done(c, text)
  BY <1>1, DoneAgrees
<1>. QED  BY <1>1, <1>2 DEF Upto

(* A construct of which all blocks have a text.                            *)
Texted(c, text) == c.parts \in Seq(Nat) /\ \A i \in 1..Len(c.parts) : text[c.parts[i]] \in Text

LEMMA PartText ==
    ASSUME NEW c, NEW text, Texted(c, text)
    PROVE  /\ Done(c, text) \in Text /\ Upto(c, text) \in Text
           /\ text[c.block] \in Text => Partly(c, text) \in Text
<1>1. Done(c, text) \in Text
  BY DoneIs DEF Texted
<1>2. Word(Lbrace) \in Text /\ Lead(c, Len(c.parts) + 1) \in Text
  BY WordFacts, WordText, LeadText
<1>3. Upto(c, text) \in Text
  BY <1>1, <1>2, CatText DEF Upto
<1>. QED  BY <1>1, <1>3, CatText DEF Partly

LEMMA UnderAgrees ==
    ASSUME NEW o, NEW q, Len(q) = Len(o), NEW text, NEW other,
           \A j \in 1..(Len(o) - 1) : Partly(q[j], other) = Partly(o[j], text)
    PROVE  Under(q, other) = Under(o, text)
<1>. DEFINE f == [j \in 1..(Len(o) - 1) |-> Partly(o[j], text)]
            g == [j \in 1..(Len(q) - 1) |-> Partly(q[j], other)]
<1>1. f = g
  OBVIOUS
<1>2. Under(o, text) = FlattenSeq(f) /\ Under(q, other) = FlattenSeq(g)
  BY DEF Under
<1>. HIDE DEF f, g
<1>. QED  BY <1>1, <1>2

LEMMA UnderText ==
    ASSUME NEW o, Len(o) \in Nat \ {0}, NEW text, \A j \in 1..(Len(o) - 1) : Partly(o[j], text) \in Text
    PROVE  Under(o, text) \in Text
<1>. DEFINE n == Len(o) - 1
            f == [j \in 1..n |-> Partly(o[j], text)]
<1>1. n \in Nat /\ f \in [1..n -> Text]
  OBVIOUS
<1>2. Under(o, text) = FlattenSeq(f)
  BY DEF Under
<1>. HIDE DEF f, n
<1>. QED  BY <1>1, <1>2, FlattenText

LEMMA UnderFirst ==
    ASSUME NEW o, Len(o) = 1, NEW text
    PROVE  Under(o, text) = Nil
<1>. DEFINE f == [j \in 1..(Len(o) - 1) |-> Partly(o[j], text)]
<1>1. DOMAIN f = 1..0 /\ f = [j \in DOMAIN f |-> f[j]]
  OBVIOUS
<1>2. Under(o, text) = FlattenSeq(f)
  BY DEF Under
<1>. HIDE DEF f
<1>. QED  BY <1>1, <1>2, FlattenNil

LEMMA UnderGrows ==
    ASSUME NEW o, NEW n \in Nat, Len(o) = n + 1, NEW q, Len(q) = n + 2,
           \A j \in 1..(n + 1) : q[j] = o[j],
           NEW text, \A j \in 1..(n + 1) : Partly(o[j], text) \in Text
    PROVE  Under(q, text) = Under(o, text) ++ Partly(o[n + 1], text)
<1>. DEFINE f == [j \in 1..n |-> Partly(o[j], text)]
            g == [j \in 1..(n + 1) |-> Partly(q[j], text)]
<1>1. \A j \in 1..n : j \in 1..(n + 1)
  OBVIOUS
<1>2. n + 1 \in 1..(n + 1) /\ Len(o) - 1 = n /\ Len(q) - 1 = n + 1
  OBVIOUS
<1>3. /\ f \in [1..n -> Text] /\ g \in [1..(n + 1) -> Text]
      /\ \A j \in 1..n : g[j] = f[j]
      /\ g[n + 1] = Partly(o[n + 1], text)
  BY <1>1, <1>2
<1>4. Under(o, text) = FlattenSeq(f) /\ Under(q, text) = FlattenSeq(g)
  BY <1>2 DEF Under
<1>. HIDE DEF f, g
<1>5. FlattenSeq(g) = FlattenSeq(f) ++ g[n + 1]
  BY <1>3, FlattenAdds
<1>. QED  BY <1>3, <1>4, <1>5
-----------------------------------------------------------------------------
(* There is one text, and it is Texts: a statement holds only blocks that  *)
(* were made after its own.                                                *)
Solves(g, made) == g = [b \in DOMAIN made |-> Line(made[b], g)]

LEMMA StatementAgrees ==
    ASSUME NEW s, NEW b \in Nat, NEW n \in Nat, IsCommand(s) \/ IsNode(s, b, n),
           NEW text, NEW other, \A c \in (b + 1)..n : other[c] = text[c]
    PROVE  Spelled(s, other) = Spelled(s, text)
<1>1. CASE IsCommand(s)
  <2>1. s[1] \notin Nodes
    BY <1>1, NotBoth DEF IsCommand
  <2>. QED  BY <2>1, SpelledAgrees
<1>2. CASE IsNode(s, b, n)
  <2>1. \A i \in DOMAIN s[2] : s[2][i] \in (b + 1)..n
    BY <1>2, NodeFacts
  <2>. QED  BY <2>1, SpelledAgrees
<1>. QED  BY <1>1, <1>2

LEMMA OneText ==
    ASSUME NEW made, WellFormed(made), NEW text, Solves(text, made), NEW g, Solves(g, made)
    PROVE  g = text
<1>. DEFINE n == Len(made)
            N == {k \in Nat : \A b \in 1..n : n - b < k => g[b] = text[b]}
<1>1. n \in Nat /\ DOMAIN made = 1..n
  BY DEF WellFormed, IsSeq
<1>2. /\ \A b \in 1..n : text[b] = Line(made[b], text) /\ g[b] = Line(made[b], g)
      /\ text = [b \in 1..n |-> text[b]] /\ g = [b \in 1..n |-> g[b]]
  BY <1>1 DEF Solves
<1>a. \A b \in 1..n : IsSeq(made[b]) /\ \A i \in 1..Len(made[b]) : IsCommand(made[b][i]) \/ IsNode(made[b][i], b, n)
  BY DEF WellFormed
<1>. HIDE DEF n
<1>3. 0 \in N
  BY <1>1
<1>4. ASSUME NEW k \in Nat, k \in N
      PROVE  k + 1 \in N
  <2>. SUFFICES ASSUME NEW b \in 1..n, n - b < k + 1
                PROVE  g[b] = text[b]
    OBVIOUS
  <2>1. \A c \in (b + 1)..n : c \in 1..n /\ n - c < k
    BY <1>1
  <2>2. \A c \in (b + 1)..n : g[c] = text[c]
    BY <1>4, <2>1
  <2>3. DOMAIN made[b] = 1..Len(made[b]) /\ b \in Nat
    BY <1>1, <1>a DEF IsSeq
  <2>4. \A i \in DOMAIN made[b] : Spelled(made[b][i], g) = Spelled(made[b][i], text)
    <3>1. ASSUME NEW i \in DOMAIN made[b] PROVE Spelled(made[b][i], g) = Spelled(made[b][i], text)
      <4>. DEFINE s == made[b][i]
      <4>1. IsCommand(s) \/ IsNode(s, b, n)
        BY <1>a, <2>3
      <4>. HIDE DEF s
      <4>2. n \in Nat /\ b \in Nat
        BY <1>1, <2>3
      <4>3. \A c \in (b + 1)..n : g[c] = text[c]
        BY <2>2
      <4>. HIDE DEF N
      <4>4. Spelled(s, g) = Spelled(s, text)
        BY ONLY <4>1, <4>2, <4>3, StatementAgrees
      <4>. QED  BY <4>4 DEF s
    <3>. QED  BY <3>1
  <2>5. Line(made[b], g) = Line(made[b], text)
    BY <2>4, LineAgrees
  <2>. QED  BY <1>2, <2>5
<1>. HIDE DEF N
<1>5. Nat \subseteq N
  BY <1>3, <1>4, Induction
<1>6. \A b \in 1..n : g[b] = text[b]
  <2>1. n \in N /\ \A b \in 1..n : n - b < n
    BY <1>1, <1>5
  <2>. QED  BY <2>1 DEF N
<1>. QED  BY <1>2, <1>6

LEMMA TextsAre ==
    ASSUME NEW text, WellFormed(blocks), Tells(text, blocks)
    PROVE  Texts = text
<1>1. Texts = CHOOSE g : Solves(g, blocks)
  BY DEF Texts, Solves, Line
<1>2. Solves(text, blocks)
  <2>1. DOMAIN blocks = 1..Len(blocks)
    BY DEF WellFormed, IsSeq
  <2>2. text = [b \in 1..Len(blocks) |-> text[b]] /\ \A b \in 1..Len(blocks) : text[b] = Line(blocks[b], text)
    BY DEF Tells
  <2>. QED  BY <2>1, <2>2 DEF Solves
<1>3. Solves(Texts, blocks)
  BY <1>1, <1>2
<1>. QED  BY <1>2, <1>3, OneText
-----------------------------------------------------------------------------
(* What the declarations say.                                              *)
LEMMA FourWords ==
    ASSUME NEW h \in Text, NEW a \in Tokens, NEW b \in Tokens, NEW c \in Tokens, NEW d \in Tokens
    PROVE  h \o <<a, b, c, d>> = (((h ++ Word(a)) ++ Word(b)) ++ Word(c)) ++ Word(d)
<1>. DEFINE s == <<a, b, c, d>>
            l == h \o s
            n == Len(h)
            u == Append(h, a)
            v == Append(u, b)
            w == Append(v, c)
            t == Append(w, d)
<1>1. s \in Seq(Tokens) /\ Len(s) = 4 /\ s[1] = a /\ s[2] = b /\ s[3] = c /\ s[4] = d
  OBVIOUS
<1>. HIDE DEF s
<1>2. n \in Nat /\ h \in Seq(Tokens)
  BY DEF Text
<1>3. s \in Seq(Tokens)
  BY <1>1
<1>4. h \in Seq(Tokens)
  BY <1>2
<1>5. /\ l \in Seq(Tokens) /\ Len(l) = Len(h) + Len(s)
      /\ \A i \in 1..Len(h) : l[i] = h[i]
      /\ \A i \in 1..Len(s) : l[Len(h) + i] = s[i]
  BY ONLY <1>3, <1>4, Joined
<1>. HIDE DEF l
<1>6. Len(l) = n + 4 /\ l[n + 1] = a /\ l[n + 2] = b /\ l[n + 3] = c /\ l[n + 4] = d
  BY <1>1, <1>5
<1>7. u \in Seq(Tokens) /\ Len(u) = n + 1 /\ u[n + 1] = a /\ \A i \in 1..n : u[i] = h[i]
  BY <1>2
<1>8. u = h ++ Word(a) /\ u \in Text
  BY AppendText
<1>. HIDE DEF u
<1>9. /\ v \in Seq(Tokens) /\ Len(v) = n + 2 /\ v[n + 1] = a /\ v[n + 2] = b /\ \A i \in 1..n : v[i] = h[i]
  BY <1>2, <1>7
<1>10. v = u ++ Word(b) /\ v \in Text
  BY <1>8, AppendText
<1>. HIDE DEF v
<1>11. /\ w \in Seq(Tokens) /\ Len(w) = n + 3 /\ w[n + 1] = a /\ w[n + 2] = b /\ w[n + 3] = c
       /\ \A i \in 1..n : w[i] = h[i]
  BY <1>2, <1>9
<1>12. w = v ++ Word(c) /\ w \in Text
  BY <1>10, AppendText
<1>. HIDE DEF w
<1>13. /\ t \in Seq(Tokens) /\ Len(t) = n + 4
       /\ t[n + 1] = a /\ t[n + 2] = b /\ t[n + 3] = c /\ t[n + 4] = d
       /\ \A i \in 1..n : t[i] = h[i]
  BY <1>2, <1>11
<1>14. t = w ++ Word(d)
  BY <1>12, AppendText
<1>. HIDE DEF t
<1>15. ASSUME NEW i \in 1..Len(l) PROVE l[i] = t[i]
  <2>1. i \in 1..n \/ i = n + 1 \/ i = n + 2 \/ i = n + 3 \/ i = n + 4
    BY <1>2, <1>6
  <2>. QED  BY <1>5, <1>6, <1>13, <2>1
<1>16. l = t
  BY <1>5, <1>6, <1>13, <1>15, SameSequence
<1>. QED  BY <1>8, <1>10, <1>12, <1>14, <1>16 DEF l, s

LEMMA HeadingIs ==
    ASSUME NEW d, d.types \in Text
    PROVE  /\ Heading(d) = (IF d.pure THEN TypeList(d) ++ Word(")") ELSE Nil)
                             ++ (IF d.nojit THEN Word("no-jit") ELSE Nil)
           /\ TypeList(d) \in Text /\ TypeList(d) ++ Word(")") \in Text /\ Heading(d) \in Text
<1>1. <<"pure", "(">> = Word("pure") ++ Word("(")
  BY TwoTokens DEF Word, ++
<1>2. Heading(d) = (IF d.pure THEN TypeList(d) ++ Word(")") ELSE Nil)
                     ++ (IF d.nojit THEN Word("no-jit") ELSE Nil)
  BY <1>1, Zenon DEF Heading, TypeList, Word, ++, Nil
<1>3. Word("pure") \in Text /\ Word("(") \in Text /\ Word(")") \in Text /\ Word("no-jit") \in Text
  BY WordFacts, WordText
<1>4. TypeList(d) \in Text /\ TypeList(d) ++ Word(")") \in Text
  BY <1>3, CatText DEF TypeList
<1>. DEFINE x == IF d.pure THEN TypeList(d) ++ Word(")") ELSE Nil
            y == IF d.nojit THEN Word("no-jit") ELSE Nil
<1>5. x \in Text
  BY <1>4, CatText
<1>6. y \in Text
  BY <1>3, CatText
<1>7. Heading(d) = x ++ y
  BY <1>2
<1>. HIDE DEF x, y
<1>8. Heading(d) \in Text
  BY <1>5, <1>6, <1>7, CatText
<1>. QED  BY <1>2, <1>4, <1>8

LEMMA PrefaceText ==
    ASSUME NEW kind, NEW d, kind # "init" => d.types \in Text /\ d.name \in Tokens
    PROVE  Preface(kind, d) \in Text
<1>1. Word("function") \in Text /\ Word(":") \in Text /\ Word("1") \in Text /\ Word("init-static") \in Text
  BY WordFacts, WordText
<1>2. CASE kind = "init"
  BY <1>1, <1>2 DEF Preface
<1>3. CASE kind # "init"
  <2>1. Heading(d) \in Text /\ Word(d.name) \in Text
    BY <1>3, HeadingIs, WordText
  <2>. QED  BY <1>1, <1>3, <2>1, CatText DEF Preface
<1>. QED  BY <1>2, <1>3

LEMMA WrittenIs ==
    ASSUME NEW d, d.what # "init" => d.types \in Text /\ d.name \in Tokens, NEW text
    PROVE  Written(d, text) = Preface(d.what, d) ++ Braced(text[d.block])
<1>1. CASE d.what = "init"
  BY <1>1 DEF Written, Preface, Word, ++
<1>2. CASE d.what # "init"
  <2>. DEFINE l == Heading(d) \o <<"function", ":", "1", d.name>>
  <2>1. "function" \in Tokens /\ ":" \in Tokens /\ "1" \in Tokens /\ d.name \in Tokens /\ Heading(d) \in Text
    BY <1>2, WordFacts, HeadingIs
  <2>2. l = Preface(d.what, d)
    BY <1>2, <2>1, FourWords DEF Preface
  <2>3. Written(d, text) = l ++ Braced(text[d.block])
    BY <1>2 DEF Written, ++
  <2>. HIDE DEF l
  <2>. QED  BY <2>2, <2>3
<1>. QED  BY <1>1, <1>2

LEMMA AccountAgrees ==
    ASSUME NEW prog, NEW text, NEW other,
           \A i \in DOMAIN prog : Written(prog[i], other) = Written(prog[i], text)
    PROVE  Account(prog, other) = Account(prog, text)
<1>. DEFINE f == [i \in DOMAIN prog |-> Written(prog[i], text)]
            g == [i \in DOMAIN prog |-> Written(prog[i], other)]
<1>1. f = g
  OBVIOUS
<1>2. Account(prog, text) = FlattenSeq(f) /\ Account(prog, other) = FlattenSeq(g)
  BY DEF Account
<1>. HIDE DEF f, g
<1>. QED  BY <1>1, <1>2

LEMMA AccountGrows ==
    ASSUME NEW prog, IsSeq(prog), NEW text, \A i \in 1..Len(prog) : Written(prog[i], text) \in Text,
           NEW d, Written(d, text) \in Text
    PROVE  Account(Append(prog, d), text) = Account(prog, text) ++ Written(d, text)
<1>. DEFINE longer == Append(prog, d)
            n == Len(prog)
            f == [i \in DOMAIN prog |-> Written(prog[i], text)]
            g == [i \in DOMAIN longer |-> Written(longer[i], text)]
<1>1. /\ n \in Nat /\ DOMAIN prog = 1..n /\ DOMAIN longer = 1..(n + 1)
      /\ longer[n + 1] = d /\ \A i \in 1..n : longer[i] = prog[i]
  <2>1. Len(longer) = n + 1 /\ IsSeq(longer)
    BY SequenceFacts
  <2>2. n \in Nat /\ longer[n + 1] = d /\ \A i \in 1..n : longer[i] = prog[i]
    BY SequenceFacts
  <2>. HIDE DEF longer
  <2>. QED  BY <2>1, <2>2 DEF IsSeq
<1>2. Account(prog, text) = FlattenSeq(f) /\ Account(longer, text) = FlattenSeq(g)
  BY DEF Account
<1>a. \A i \in 1..n : Written(prog[i], text) \in Text
  OBVIOUS
<1>. HIDE DEF longer, n
<1>3. \A i \in 1..(n + 1) : i \in 1..n \/ i = n + 1
  BY <1>1
<1>5. \A i \in 1..(n + 1) : Written(longer[i], text) \in Text
  BY <1>1, <1>a, <1>3
<1>6. \A i \in 1..n : i \in 1..(n + 1)
  BY <1>1
<1>7. n + 1 \in 1..(n + 1)
  BY <1>1
<1>8. /\ f \in [1..n -> Text] /\ g \in [1..(n + 1) -> Text]
      /\ \A i \in 1..n : g[i] = f[i]
      /\ g[n + 1] = Written(d, text)
  BY <1>1, <1>a, <1>5, <1>6, <1>7
<1>. HIDE DEF f, g
<1>9. FlattenSeq(g) = FlattenSeq(f) ++ g[n + 1]
  BY <1>1, <1>8, FlattenAdds
<1>. QED  BY <1>2, <1>8, <1>9 DEF longer
-----------------------------------------------------------------------------
(* The statements: what the open constructs have, and how they move.       *)
LEMMA TextOf ==
    ASSUME NEW text, NEW made, Tells(text, made), NEW b \in 1..Len(made)
    PROVE  text[b] \in Text /\ Closed(text[b]) /\ DOMAIN text = 1..Len(made)
  BY ClosedIn DEF Tells

LEMMA TreeText ==
    ASSUME NEW o \in Seq(Construct), o # <<>>, NEW t, NEW made, NEW prog, Tree(o, t, made, prog),
           NEW text, Tells(text, made)
    PROVE  /\ \A j \in 1..Len(o) : Texted(o[j], text) /\ o[j] \in Construct
           /\ \A j \in 1..(Len(o) - 1) : text[o[j].block] \in Text /\ Partly(o[j], text) \in Text
           /\ Under(o, text) \in Text /\ Len(o) \in 1..Len(o) /\ Len(o) \in Nat
           /\ Done(TopOf(o), text) \in Text /\ Upto(TopOf(o), text) \in Text
           /\ AtStatement(o, t) => text[TopOf(o).block] \in Text /\ Partly(TopOf(o), text) \in Text
<1>1. Len(o) \in 1..Len(o) /\ Len(o) \in Nat /\ Len(o) \in Nat \ {0}
  BY LongerThanEmpty
<1>2. ASSUME NEW j \in 1..Len(o)
      PROVE  Texted(o[j], text) /\ o[j] \in Construct
  <2>1. o[j] \in Construct
    OBVIOUS
  <2>2. o[j].parts \in Seq(Nat)
    BY <2>1 DEF Construct
  <2>3. \A i \in 1..Len(o[j].parts) : o[j].parts[i] \in 1..Len(made)
    BY DEF Tree
  <2>4. \A i \in 1..Len(o[j].parts) : text[o[j].parts[i]] \in Text
    BY <2>3, TextOf
  <2>. QED  BY <2>1, <2>2, <2>4 DEF Texted
<1>3. ASSUME NEW j \in 1..Len(o), Fills(o, t, j)
      PROVE  text[o[j].block] \in Text /\ Partly(o[j], text) \in Text
  <2>1. o[j].block \in 1..Len(made)
    BY <1>3 DEF Tree, OwnBlock, Nobodys
  <2>2. text[o[j].block] \in Text
    BY <2>1, TextOf
  <2>. QED  BY <1>2, <2>2, PartText
<1>4. ASSUME NEW j \in 1..(Len(o) - 1)
      PROVE  text[o[j].block] \in Text /\ Partly(o[j], text) \in Text
  <2>1. j \in 1..Len(o) /\ j < Len(o)
    BY <1>1
  <2>. QED  BY <1>3, <2>1 DEF Fills
<1>5. Under(o, text) \in Text
  BY <1>1, <1>4, UnderText
<1>6. Done(TopOf(o), text) \in Text /\ Upto(TopOf(o), text) \in Text
  BY <1>1, <1>2, PartText DEF TopOf
<1>7. AtStatement(o, t) => text[TopOf(o).block] \in Text /\ Partly(TopOf(o), text) \in Text
  BY <1>1, <1>3 DEF Fills, TopOf
<1>. QED  BY <1>1, <1>2, <1>4, <1>5, <1>6, <1>7

(* The words x are read, and what is told remains true.                    *)
Moves(x, o, t, nm, text, p, u, nn, other) ==
    \A r, q \in Text : Told(r, q, o, t, nm, text) => Told(r ++ x, q, p, u, nn, other)
SameStory(prog, text, other) == \A y : Story(y, prog, text) => Story(y, prog, other)
Plain(x) == x = Nil \/ \E w \in Tokens \ {CommaToken} : x = Word(w)

LEMMA PlainText ==
    ASSUME NEW x, Plain(x), NEW r \in Text
    PROVE  x \in Text /\ r ++ x \in Text /\ WithoutCommas(r) \in Text
           /\ WithoutCommas(r ++ x) = WithoutCommas(r) ++ x
<1>1. WithoutCommas(r) \in Text
  BY CommasText
<1>2. CASE x = Nil
  BY <1>1, <1>2, CatText
<1>3. CASE \E w \in Tokens \ {CommaToken} : x = Word(w)
  <2>1. PICK w \in Tokens \ {CommaToken} : x = Word(w)
    BY <1>3
  <2>2. Append(r, w) = r ++ Word(w) /\ Word(w) \in Text /\ r ++ Word(w) \in Text
    BY AppendText
  <2>3. WithoutCommas(Append(r, w)) = WithoutCommas(r) ++ Word(w)
    BY <2>1, CommasAppend
  <2>. QED  BY <1>1, <2>1, <2>2, <2>3
<1>. QED  BY <1>2, <1>3 DEF Plain

LEMMA BodyMoves ==
    ASSUME NEW r \in Text, NEW t, NEW nm, NEW o \in Seq(Construct), NEW made, NEW d, NEW prog, NEW text,
           AtBody(r, t, nm, o, made, d, prog, text),
           NEW x, Plain(x), NEW u, NEW nn, NEW p, NEW more, NEW other,
           Moves(x, o, t, nm, text, p, u, nn, other),
           Tree(p, u, more, prog), p # <<>>, p[1].kind = o[1].kind,
           SameStory(prog, text, other)
    PROVE  AtBody(r ++ x, u, nn, p, more, d, prog, other)
<1>1. HeadOk(d) /\ (o[1].kind = "init" => ~d.pure /\ ~d.nojit) /\ (o[1].kind = "function" => d.name \in Idents)
      /\ Tree(o, t, made, prog) /\ o # <<>>
  BY DEF AtBody
<1>2. PICK y \in Text : (o[1].kind = "function" => Len(y) + 2 = d.from) /\ Told(r, y, o, t, nm, text)
  BY DEF AtBody
<1>3. PICK s : Story(s, prog, text) /\ Told(WithoutCommas(r), s ++ Preface(o[1].kind, d), o, t, nm, text)
  BY DEF AtBody
<1>. DEFINE f == Preface(o[1].kind, d)
<1>4. f \in Text
  <2>1. d.types \in Text
    <3>1. d.types \in Seq(Idents)
      BY <1>1 DEF HeadOk
    <3>2. Idents \subseteq Tokens
      BY WordFacts
    <3>. QED  BY <3>1, <3>2, SeqWider DEF Text
  <2>2. o[1].kind # "init" => d.name \in Tokens
    <3>1. 1 \in 1..Len(o)
      BY <1>1, LongerThanEmpty
    <3>2. o[1].kind \in {"init", "function"}
      BY <1>1, <3>1 DEF Tree
    <3>. QED  BY <1>1, <3>2, WordFacts
  <2>. QED  BY <2>1, <2>2, PrefaceText
<1>. HIDE DEF f
<1>5. s \in Text /\ s ++ f \in Text
  BY <1>3, <1>4, CatText DEF Story
<1>6. r ++ x \in Text /\ WithoutCommas(r) \in Text /\ WithoutCommas(r ++ x) = WithoutCommas(r) ++ x
  BY PlainText
<1>7. Told(r ++ x, y, p, u, nn, other)
  BY <1>2 DEF Moves
<1>8. Told(WithoutCommas(r) ++ x, s ++ f, p, u, nn, other)
  BY <1>3, <1>5, <1>6 DEF Moves, f
<1>9. Story(s, prog, other)
  BY <1>3 DEF SameStory
<1>. QED  BY <1>1, <1>2, <1>6, <1>7, <1>8, <1>9 DEF AtBody, f
-----------------------------------------------------------------------------
(* What is reported stays true when a block is made, and when a block gets *)
(* a statement.                                                            *)
Mentioned(stmts, b) == \E i \in 1..Len(stmts) : Mentions(stmts[i], b)
SameFor(stmts, n, text, other) == \A b \in 1..n : Mentioned(stmts, b) => other[b] = text[b]
LEMMA LineSame ==
    ASSUME NEW made, WellFormed(made), NEW c \in 1..Len(made), NEW text, NEW other,
           SameFor(made[c], Len(made), text, other)
    PROVE  Line(made[c], other) = Line(made[c], text)
<1>. DEFINE n == Len(made)
            l == made[c]
<1>1. n \in Nat /\ c \in Nat /\ IsSeq(l) /\ \A i \in 1..Len(l) : IsCommand(l[i]) \/ IsNode(l[i], c, n)
  BY SequenceFacts DEF WellFormed
<1>2. DOMAIN l = 1..Len(l)
  BY <1>1 DEF IsSeq
<1>. HIDE DEF n, l
<1>3. ASSUME NEW i \in 1..Len(l) PROVE Spelled(l[i], other) = Spelled(l[i], text)
  <2>. DEFINE s == l[i]
  <2>1. IsCommand(s) \/ IsNode(s, c, n)
    BY <1>1
  <2>2. \A k \in 1..n : Mentions(s, k) => other[k] = text[k]
    BY DEF l, n, SameFor, Mentioned
  <2>. HIDE DEF s
  <2>3. s[1] \in Nodes => \A m \in DOMAIN s[2] : other[s[2][m]] = text[s[2][m]]
    <3>1. SUFFICES ASSUME s[1] \in Nodes, NEW m \in DOMAIN s[2] PROVE other[s[2][m]] = text[s[2][m]]
      OBVIOUS
    <3>2. IsNode(s, c, n)
      BY <2>1, <3>1, NotBoth DEF IsCommand
    <3>3. s[2][m] \in (c + 1)..n
      BY <1>1, <3>2, NodeFacts
    <3>4. s[2][m] \in 1..n
      BY <1>1, <3>3
    <3>5. Mentions(s, s[2][m])
      BY <3>1 DEF Mentions
    <3>. QED  BY <2>2, <3>4, <3>5
  <2>4. Spelled(s, other) = Spelled(s, text)
    BY <2>3, SpelledAgrees
  <2>. QED  BY <2>4 DEF s
<1>4. Line(l, other) = Line(l, text)
  BY <1>2, <1>3, LineAgrees
<1>. QED  BY <1>4 DEF l

LEMMA WrittenAgrees ==
    ASSUME NEW d, NEW text, NEW other, other[d.block] = text[d.block]
    PROVE  Written(d, other) = Written(d, text)
  BY Zenon DEF Written

SameBodies(prog, text, other) ==
    /\ DOMAIN text \subseteq DOMAIN other
    /\ \A i \in 1..Len(prog) : prog[i].what \in {"init", "function"} /\ prog[i].block \in DOMAIN text
                                 => other[prog[i].block] = text[prog[i].block]
LEMMA KeptAgrees ==
    ASSUME NEW prog, NEW text, Kept(prog, text), NEW other, SameBodies(prog, text, other)
    PROVE  Kept(prog, other) /\ SameStory(prog, text, other)
<1>1. ASSUME NEW i \in 1..Len(prog)
      PROVE  KeptOne(prog[i], other)
  BY DEF Kept, KeptOne, SameBodies
<1>2. IsSeq(prog) /\ DOMAIN prog = 1..Len(prog)
  BY DEF Kept, IsSeq
<1>3. ASSUME NoClass(prog)
      PROVE  Account(prog, other) = Account(prog, text)
  <2>1. ASSUME NEW i \in DOMAIN prog PROVE Written(prog[i], other) = Written(prog[i], text)
    <3>1. i \in 1..Len(prog)
      BY <1>2
    <3>2. prog[i].what \in {"init", "function"} /\ prog[i].block \in DOMAIN text
      BY <1>3, <3>1 DEF Kept, KeptOne, NoClass
    <3>3. other[prog[i].block] = text[prog[i].block]
      BY <3>1, <3>2 DEF SameBodies
    <3>. QED  BY <3>3, WrittenAgrees
  <2>. QED  BY <2>1, AccountAgrees
<1>4. \A i \in 1..Len(prog) : NoClass(prog) /\ prog[i].what = "function" => prog[i].block # 0
  BY DEF Kept
<1>. QED  BY <1>1, <1>2, <1>3, <1>4 DEF Kept, Story, SameStory

LEMMA LineNil ==
    ASSUME NEW text
    PROVE  Line(<<>>, text) = Nil /\ Closed(Nil)
<1>. DEFINE f == [i \in DOMAIN <<>> |-> Spelled(<<>>[i], text)]
<1>1. Line(<<>>, text) = FlattenSeq(f)
  BY DEF Line
<1>2. DOMAIN f = 1..0 /\ f = [i \in DOMAIN f |-> f[i]]
  OBVIOUS
<1>. HIDE DEF f
<1>3. Line(<<>>, text) = Nil
  BY <1>1, <1>2, FlattenNil
<1>4. Nil \in Seq(Words)
  BY DEF Nil
<1>. QED  BY <1>3, <1>4, ClosedWords

SameBut(text, other, n, b) == \A c \in 1..n : c # b => other[c] = text[c]
BlockAdded(made, more, text, other, n, m) ==
    /\ n = Len(made) /\ m = n + 1 /\ more = Append(made, <<>>)
    /\ other = [b \in 1..m |-> IF b = m THEN Nil ELSE text[b]]
BlockTold(made, more, prog, text, other, n, m) ==
    /\ Reported(more, prog, other) /\ SameStory(prog, text, other)
    /\ Len(more) = m /\ \A b \in 1..n : more[b] = made[b] /\ other[b] = text[b]
    /\ more[m] = <<>> /\ other[m] = Nil

LEMMA ReportsNewBlock ==
    ASSUME NEW made, NEW prog, NEW text, Reported(made, prog, text),
           NEW n, NEW m, NEW more, NEW other, BlockAdded(made, more, text, other, n, m)
    PROVE  BlockTold(made, more, prog, text, other, n, m)
<1>0. /\ n = Len(made) /\ m = n + 1 /\ more = Append(made, <<>>)
      /\ other = [b \in 1..m |-> IF b = m THEN Nil ELSE text[b]]
  BY DEF BlockAdded
<1>. USE <1>0
<1>1. /\ IsSeq(more) /\ Len(more) = m /\ n \in Nat /\ m \in Nat
      /\ more[m] = <<>> /\ \A b \in 1..n : more[b] = made[b]
  BY SequenceFacts DEF Reported, WellFormed
<1>2. DOMAIN text = 1..n /\ \A b \in 1..n : text[b] = Line(made[b], text) /\ Closed(text[b])
  BY DEF Reported, Tells
<1>3. \A b \in 1..n : b \in 1..m /\ b # m /\ other[b] = text[b]
  BY <1>1
<1>4. m \in 1..m /\ other[m] = Nil /\ other = [b \in 1..m |-> other[b]]
  BY <1>1
<1>5. \A b \in 1..m : b \in 1..n \/ b = m
  BY <1>1
<1>6. WellFormed(more)
  <2>1. IsSeq(<<>>) /\ Len(<<>>) = 0
    <3>1. <<>> \in Seq({}) /\ Len(<<>>) = 0
      OBVIOUS
    <3>. QED  BY <3>1 DEF IsSeq
  <2>2. ASSUME NEW b \in 1..n, NEW s, IsNode(s, b, n) PROVE IsNode(s, b, m)
    <3>1. PICK k \in Nodes, p \in Seq((b + 1)..n) : s = <<k, p>>
      BY <2>2 DEF IsNode
    <3>2. (b + 1)..n \subseteq (b + 1)..m
      BY <1>1
    <3>3. p \in Seq((b + 1)..m)
      BY <3>2, SeqWider
    <3>. QED  BY <3>1, <3>3 DEF IsNode
  <2>3. ASSUME NEW b \in 1..n
        PROVE  IsSeq(more[b]) /\ \A i \in 1..Len(more[b]) : IsCommand(more[b][i]) \/ IsNode(more[b][i], b, m)
    <3>1. IsSeq(made[b]) /\ \A i \in 1..Len(made[b]) : IsCommand(made[b][i]) \/ IsNode(made[b][i], b, n)
      BY DEF Reported, WellFormed
    <3>. QED  BY <1>1, <2>2, <3>1
  <2>4. ASSUME NEW b, b = m
        PROVE  IsSeq(more[b]) /\ \A i \in 1..Len(more[b]) : IsCommand(more[b][i]) \/ IsNode(more[b][i], b, m)
    BY <1>1, <2>1, <2>4
  <2>. QED  BY <1>1, <1>5, <2>3, <2>4 DEF WellFormed
<1>7. Tells(other, more)
  <2>1. ASSUME NEW b \in 1..n PROVE other[b] = Line(more[b], other) /\ Closed(other[b])
    <3>1. SameFor(made[b], Len(made), text, other)
      BY <1>3 DEF SameFor
    <3>2. WellFormed(made) /\ b \in 1..Len(made)
      BY DEF Reported
    <3>3. WellFormed(made)
      BY <3>2
    <3>4. b \in 1..Len(made)
      BY <3>2
    <3>5. Line(made[b], other) = Line(made[b], text)
      BY ONLY <3>1, <3>3, <3>4, LineSame
    <3>. QED  BY <1>1, <1>2, <1>3, <3>5
  <2>2. other[m] = Line(more[m], other) /\ Closed(other[m])
    BY <1>1, <1>4, LineNil
  <2>. QED  BY <1>1, <1>4, <1>5, <2>1, <2>2 DEF Tells
<1>8. DOMAIN text \subseteq DOMAIN other
  BY <1>2, <1>3, <1>4
<1>9. Kept(prog, other) /\ SameStory(prog, text, other)
  <2>1. Kept(prog, text)
    BY DEF Reported
  <2>2. SameBodies(prog, text, other)
    BY <1>2, <1>3, <1>8 DEF SameBodies
  <2>. QED  BY ONLY <2>1, <2>2, KeptAgrees
<1>. QED  BY <1>1, <1>3, <1>4, <1>6, <1>7, <1>9 DEF Reported, BlockTold

(* The block b belongs to nobody yet, and gets the statement s.            *)
StatementAdded(made, more, text, other, b, s) ==
    /\ IsCommand(s) \/ IsNode(s, b, Len(made))
    /\ more = [made EXCEPT ![b] = Append(@, s)]
    /\ other = [text EXCEPT ![b] = @ ++ Spelled(s, text)]
StatementTold(made, more, prog, text, other, b, s) ==
    /\ Reported(more, prog, other) /\ SameStory(prog, text, other)
    /\ Len(more) = Len(made) /\ Spelled(s, text) \in Text
    /\ SameBut(text, other, Len(made), b) /\ other[b] = text[b] ++ Spelled(s, text)

LEMMA ReportsStatement ==
    ASSUME NEW made, NEW prog, NEW text, Reported(made, prog, text),
           NEW b, Nobodys(b, made, prog), NEW s, NEW more, NEW other, StatementAdded(made, more, text, other, b, s)
    PROVE  StatementTold(made, more, prog, text, other, b, s)
<1>0. /\ IsCommand(s) \/ IsNode(s, b, Len(made))
      /\ more = [made EXCEPT ![b] = Append(@, s)]
      /\ other = [text EXCEPT ![b] = @ ++ Spelled(s, text)]
  BY DEF StatementAdded
<1>. USE <1>0
<1>. DEFINE n == Len(made)
<1>1. /\ n \in Nat /\ b \in 1..n /\ IsSeq(made) /\ DOMAIN made = 1..n
      /\ \A c \in 1..n : /\ IsSeq(made[c])
                         /\ \A i \in 1..Len(made[c]) : IsCommand(made[c][i]) \/ IsNode(made[c][i], c, n)
  BY SequenceFacts DEF Reported, WellFormed, Nobodys, IsSeq
<1>2. DOMAIN text = 1..n /\ \A c \in 1..n : text[c] = Line(made[c], text) /\ Closed(text[c])
  BY DEF Reported, Tells
<1>3. IsSeq(more) /\ Len(more) = n
  <2>. DEFINE v == Append(made[b], s)
  <2>1. more = [made EXCEPT ![b] = v]
    OBVIOUS
  <2>. HIDE DEF v
  <2>2. IsSeq(made)
    BY <1>1
  <2>3. IsSeq([made EXCEPT ![b] = v]) /\ Len([made EXCEPT ![b] = v]) = Len(made)
    BY ONLY <2>2, UpdateFacts
  <2>. QED  BY <2>1, <2>3
<1>4. /\ more[b] = Append(made[b], s) /\ \A c \in 1..n : c # b => more[c] = made[c]
      /\ other[b] = text[b] ++ Spelled(s, text) /\ \A c \in 1..n : c # b => other[c] = text[c]
      /\ other = [c \in 1..n |-> other[c]]
  BY <1>1, <1>2
<1>5. /\ IsSeq(more[b]) /\ Len(more[b]) = Len(made[b]) + 1
      /\ \A i \in 1..Len(made[b]) : more[b][i] = made[b][i]
      /\ more[b][Len(made[b]) + 1] = s
  BY <1>1, <1>4, SequenceFacts
<1>6. \A c \in 1..n : \A i \in 1..Len(made[c]) : ~Mentions(made[c][i], b)
  BY DEF Nobodys
<1>. HIDE DEF n
<1>7. Closed(Spelled(s, text))
  <2>1. b \in Nat /\ \A c \in (b + 1)..n : c \in 1..n
    BY <1>1
  <2>2. \A c \in (b + 1)..n : Closed(text[c])
    BY <1>2, <2>1
  <2>3. IsCommand(s) \/ IsNode(s, b, n)
    BY DEF n
  <2>. QED  BY <1>1, <2>1, <2>2, <2>3, CommandClosed, NodeClosed
<1>8. WellFormed(more)
  <2>1. ASSUME NEW i \in 1..Len(more[b]) PROVE IsCommand(more[b][i]) \/ IsNode(more[b][i], b, n)
    <3>1. Len(made[b]) \in Nat
      BY <1>1, SequenceFacts
    <3>2. i \in 1..Len(made[b]) \/ i = Len(made[b]) + 1
      BY <1>5, <3>1
    <3>3. IsCommand(s) \/ IsNode(s, b, n)
      BY DEF n
    <3>. QED  BY <1>1, <1>5, <3>2, <3>3
  <2>2. ASSUME NEW c \in 1..n
        PROVE  IsSeq(more[c]) /\ \A i \in 1..Len(more[c]) : IsCommand(more[c][i]) \/ IsNode(more[c][i], c, n)
    <3>1. CASE c = b
      BY <1>5, <2>1, <3>1
    <3>2. CASE c # b
      BY <1>1, <1>4, <3>2
    <3>. QED  BY <3>1, <3>2
  <2>. QED  BY <1>3, <2>2 DEF WellFormed
<1>9. ASSUME NEW c \in 1..n PROVE Line(made[c], other) = Line(made[c], text)
  <2>1. SameFor(made[c], Len(made), text, other)
    BY <1>4, <1>6 DEF n, SameFor, Mentioned
  <2>2. WellFormed(made)
    BY DEF Reported
  <2>3. c \in 1..Len(made)
    BY DEF n
  <2>. QED  BY ONLY <2>1, <2>2, <2>3, LineSame
<1>10. Spelled(s, other) = Spelled(s, text)
  <2>1. b \in Nat /\ \A c \in (b + 1)..n : c \in 1..n /\ c # b
    BY <1>1
  <2>2. \A c \in (b + 1)..n : other[c] = text[c]
    BY <1>4, <2>1
  <2>3. IsCommand(s) \/ IsNode(s, b, n)
    BY DEF n
  <2>4. b \in Nat
    BY <2>1
  <2>5. n \in Nat
    BY <1>1
  <2>. QED  BY ONLY <2>2, <2>3, <2>4, <2>5, StatementAgrees
<1>11. Line(more[b], other) = Line(made[b], other) ++ Spelled(s, other)
  <2>1. ASSUME NEW j \in 1..Len(made[b]) PROVE Closed(Spelled(made[b][j], other))
    <3>. DEFINE z == made[b][j]
    <3>1. IsCommand(z) \/ IsNode(z, b, n)
      BY <1>1
    <3>2. b \in Nat /\ \A c \in (b + 1)..n : c \in 1..n /\ c # b
      BY <1>1
    <3>3. \A c \in (b + 1)..n : Closed(other[c])
      BY <1>2, <1>4, <3>2
    <3>. HIDE DEF z
    <3>4. Closed(Spelled(z, other))
      BY <1>1, <3>1, <3>2, <3>3, CommandClosed, NodeClosed
    <3>. QED  BY <3>4 DEF z
  <2>2. IsSeq(made[b])
    BY <1>1
  <2>3. Closed(Spelled(s, other))
    BY <1>7, <1>10
  <2>. DEFINE l == made[b]
  <2>4. \A j \in 1..Len(l) : Closed(Spelled(l[j], other))
    BY <2>1
  <2>5. IsSeq(l)
    BY <2>2
  <2>6. more[b] = Append(l, s)
    BY <1>4
  <2>. HIDE DEF l
  <2>7. Line(Append(l, s), other) = Line(l, other) ++ Spelled(s, other)
    BY ONLY <2>3, <2>4, <2>5, LineGrows
  <2>. QED  BY <2>6, <2>7 DEF l
<1>12. Tells(other, more)
  <2>1. other[b] = Line(more[b], other) /\ Closed(other[b])
    <3>1. other[b] = Line(more[b], other)
      BY <1>1, <1>2, <1>4, <1>9, <1>10, <1>11
    <3>2. Closed(text[b] ++ Spelled(s, text))
      BY <1>1, <1>2, <1>7, ClosedJoin
    <3>. QED  BY <1>4, <3>1, <3>2
  <2>2. ASSUME NEW c \in 1..n, c # b PROVE other[c] = Line(more[c], other) /\ Closed(other[c])
    BY <1>2, <1>4, <1>9, <2>2
  <2>. QED  BY <1>3, <1>4, <2>1, <2>2 DEF Tells
<1>13. Kept(prog, other) /\ SameStory(prog, text, other)
  <2>1. \A i \in 1..Len(prog) : prog[i].what \in {"init", "function"} => prog[i].block # b
    BY DEF Nobodys
  <2>2. DOMAIN text \subseteq DOMAIN other
    BY <1>2, <1>4
  <2>3. SameBodies(prog, text, other)
    BY <1>2, <1>4, <2>1, <2>2 DEF SameBodies
  <2>4. Kept(prog, text)
    BY DEF Reported
  <2>. QED  BY ONLY <2>3, <2>4, KeptAgrees
<1>. QED  BY <1>3, <1>4, <1>7, <1>8, <1>12, <1>13, ClosedIn DEF Reported, n, StatementTold, SameBut
===============================================================================
