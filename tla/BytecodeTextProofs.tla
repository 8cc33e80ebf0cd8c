-------------------------- MODULE BytecodeTextProofs --------------------------
(***************************************************************************)
(* Every step of the parser keeps what it has built true to what it has    *)
(* read.  The texts of the blocks are a witness that each step carries on: *)
(* a new block has the empty text, and a statement that is added to a      *)
(* block is added to the text of that block alone, since a block that is   *)
(* being filled is nobody else's.                                          *)
(***************************************************************************)
EXTENDS BytecodeParserProofs

(* What is due, and what has been told when it is.                         *)
LEMMA DueLists ==
    /\ DueBlock # <<>> /\ Head(DueBlock) = "NewBlock" /\ Tail(DueBlock) = <<>>
    /\ DueBrace # <<>> /\ Head(DueBrace) = Lbrace /\ Tail(DueBrace) = DueBlock
    /\ DueThen # <<>> /\ Head(DueThen) = "then" /\ Tail(DueThen) = DueBrace
    /\ \A e : <<e, "AddCommand">> # <<>> /\ Head(<<e, "AddCommand">>) = e
                /\ Tail(<<e, "AddCommand">>) = <<"AddCommand">>
    /\ \A e : <<e>> # <<>> /\ Head(<<e>>) = e /\ Tail(<<e>>) = <<>>
<1>1. /\ DueBlock # <<>> /\ Head(DueBlock) = "NewBlock" /\ Tail(DueBlock) = <<>>
  BY DEF DueBlock
<1>2. ASSUME NEW a, NEW b
      PROVE  <<a, b>> # <<>> /\ Head(<<a, b>>) = a /\ Tail(<<a, b>>) = <<b>>
  <2>1. <<a, b>> \in Seq({a, b}) /\ Len(<<a, b>>) = 2
    OBVIOUS
  <2>. DEFINE s == <<a, b>>
  <2>2. s # <<>> /\ Head(s) = a
    BY <2>1, LongerThanEmpty
  <2>3. Tail(s) = <<b>>
    OBVIOUS
  <2>. QED  BY <2>2, <2>3
<1>3. ASSUME NEW a, NEW b, NEW c
      PROVE  <<a, b, c>> # <<>> /\ Head(<<a, b, c>>) = a /\ Tail(<<a, b, c>>) = <<b, c>>
  <2>1. <<a, b, c>> \in Seq({a, b, c}) /\ Len(<<a, b, c>>) = 3
    OBVIOUS
  <2>. DEFINE s == <<a, b, c>>
  <2>2. s # <<>> /\ Head(s) = a
    BY <2>1, LongerThanEmpty
  <2>3. Tail(s) = <<b, c>>
    OBVIOUS
  <2>. QED  BY <2>2, <2>3
<1>4. DueBrace # <<>> /\ Head(DueBrace) = Lbrace /\ Tail(DueBrace) = DueBlock
  BY <1>2 DEF DueBrace, DueBlock
<1>5. DueThen # <<>> /\ Head(DueThen) = "then" /\ Tail(DueThen) = DueBrace
  BY <1>3 DEF DueThen, DueBrace
<1>6. ASSUME NEW e PROVE <<e>> # <<>> /\ Head(<<e>>) = e /\ Tail(<<e>>) = <<>>
  OBVIOUS
<1>. QED  BY <1>1, <1>2, <1>4, <1>5, <1>6

LEMMA LbraceIsNoStep == Lbrace \notin Steps /\ Lbrace # "then" /\ Lbrace # "1" /\ Lbrace \notin DOMAIN Names
<1>1. Lbrace \notin Steps /\ Lbrace # "then" /\ Lbrace # "1"
  BY Zenon DEF Lbrace, Steps
<1>2. Lbrace \in Puncts
  BY Zenon DEF Lbrace, Puncts
<1>. QED  BY <1>1, <1>2, VocabularyAssumption

(* The place of an operand is no step of a handler, no keyword and no      *)
(* punctuation.                                                            *)
LEMMA OperandFacts ==
    ASSUME NEW k \in Commands, Operand[k] # "none"
    PROVE  /\ Operand[k] \in DOMAIN Names \cup {"1"}
           /\ Operand[k] \notin Steps /\ Operand[k] # Lbrace /\ Operand[k] # "then"
<1>1. Operand[k] \in DOMAIN Names \cup {"1"}
  BY PlacesAssumption DEF Commands
<1>2. "1" \notin Steps /\ "then" \in Keywords
  BY DEF Steps, Keywords
<1>. QED  BY <1>1, <1>2, LbraceIsNoStep, PlacesAssumption, VocabularyAssumption

LEMMA TipAt ==
    ASSUME NEW r, NEW p, NEW c, NEW t, NEW nm, NEW text, Tip(r, p, c, t, nm, text)
    PROVE  /\ t # <<>> /\ Head(t) = "NewBlock" => t = DueBlock /\ Amid(c) /\ r = p ++ Upto(c, text)
           /\ t # <<>> /\ Head(t) = Lbrace =>
                  t = DueBrace /\ Amid(c) /\ r ++ Word(Lbrace) = p ++ Upto(c, text)
           /\ t # <<>> /\ Head(t) = "then" =>
                  t = DueThen /\ Amid(c) /\ (r ++ Word("then")) ++ Word(Lbrace) = p ++ Upto(c, text)
           /\ t = <<>> /\ c.part # "else" => Amid(c) /\ r = p ++ Partly(c, text)
           /\ t = <<>> /\ c.kind = "if" /\ c.part = "else" =>
                  Otherwise(c) /\ r = (p ++ Done(c, text)) ++ Word("else")
           /\ t # <<>> /\ Head(t) \in DOMAIN Names \cup {"1"} =>
                  /\ Amid(c) /\ nm \in Seq(Words) /\ Len(nm) = 1 /\ nm[1] \in Commands
                  /\ Operand[nm[1]] # "none" /\ t = <<Operand[nm[1]], "AddCommand">>
                  /\ r = (p ++ Partly(c, text)) ++ nm
           /\ t # <<>> /\ Head(t) = "AddCommand" =>
                  /\ t = <<"AddCommand">> /\ Amid(c) /\ IsCommand(nm)
                  /\ r = (p ++ Partly(c, text)) ++ Spelled(nm, text)
           /\ t # <<>> /\ Head(t) \in {"Else", "AddNode", "AddFunction", "SetInitStatic"} =>
                  /\ t = <<Head(t)>> /\ After(c) /\ r = p ++ Done(c, text)
                  /\ Head(t) = "Else" => c.part = "body"
<1>1. "NewBlock" \in Steps /\ "AddCommand" \in Steps /\ {"Else", "AddNode", "AddFunction", "SetInitStatic"} \subseteq Steps
      /\ "then" \notin Steps /\ "then" # "1" /\ "1" \notin Steps
  BY DEF Steps
<1>2. "then" \notin DOMAIN Names
  <2>1. "then" \in Keywords
    BY DEF Keywords
  <2>. QED  BY <2>1, VocabularyAssumption
<1>3. \A e \in DOMAIN Names \cup {"1"} : e \notin Steps
  BY <1>1, PlacesAssumption
<1>4. CASE Amid(c) /\ t = DueBlock /\ r = p ++ Upto(c, text)
  BY <1>1, <1>3, <1>4, DueLists, LbraceIsNoStep
<1>5. CASE Amid(c) /\ t = DueBrace /\ r ++ Word(Lbrace) = p ++ Upto(c, text)
  BY <1>1, <1>3, <1>5, DueLists, LbraceIsNoStep
<1>6. CASE Amid(c) /\ t = DueThen /\ (r ++ Word("then")) ++ Word(Lbrace) = p ++ Upto(c, text)
  BY <1>1, <1>2, <1>3, <1>6, DueLists, LbraceIsNoStep
<1>7. CASE Amid(c) /\ t = <<>> /\ r = p ++ Partly(c, text)
  <2>1. c.kind = "if" => c.part # "else"
    BY <1>7 DEF Amid, Nodes
  <2>. QED  BY <1>7, <2>1
<1>8. CASE /\ Amid(c) /\ nm \in Seq(Words) /\ Len(nm) = 1 /\ nm[1] \in Commands
           /\ Operand[nm[1]] # "none" /\ t = <<Operand[nm[1]], "AddCommand">>
           /\ r = (p ++ Partly(c, text)) ++ nm
  <2>1. t # <<>> /\ Head(t) = Operand[nm[1]]
    BY <1>8, DueLists
  <2>2. Head(t) \notin Steps /\ Head(t) # Lbrace /\ Head(t) # "then"
    BY <1>8, <2>1, OperandFacts
  <2>. QED  BY <1>1, <1>8, <2>1, <2>2
<1>9. CASE Amid(c) /\ t = <<"AddCommand">> /\ IsCommand(nm) /\ r = (p ++ Partly(c, text)) ++ Spelled(nm, text)
  BY <1>1, <1>3, <1>9, DueLists, LbraceIsNoStep
<1>10. CASE /\ After(c) /\ t \in {<<s>> : s \in {"Else", "AddNode", "AddFunction", "SetInitStatic"}}
            /\ (t = <<"Else">> => c.part = "body") /\ r = p ++ Done(c, text)
  <2>1. PICK s \in {"Else", "AddNode", "AddFunction", "SetInitStatic"} : t = <<s>>
    BY <1>10
  <2>2. t # <<>> /\ Head(t) = s
    BY <2>1, DueLists
  <2>3. s # "NewBlock" /\ s # "AddCommand"
    OBVIOUS
  <2>. QED  BY <1>1, <1>3, <1>10, <2>1, <2>2, <2>3, LbraceIsNoStep
<1>11. CASE Otherwise(c) /\ t = <<>> /\ r = (p ++ Done(c, text)) ++ Word("else")
  BY <1>11 DEF Otherwise
<1>. QED  BY <1>4, <1>5, <1>6, <1>7, <1>8, <1>9, <1>10, <1>11, Zenon DEF Tip
-----------------------------------------------------------------------------
(* The innermost construct goes on.                                        *)
TipMoves(x, c, t, nm, text, d, u, nn, other) ==
    \A r, q \in Text : Tip(r, q, c, t, nm, text) => Tip(r ++ x, q, d, u, nn, other)

LEMMA MovesTop ==
    ASSUME NEW o, NEW text, Under(o, text) \in Text, NEW p, NEW other, Under(p, other) = Under(o, text),
           NEW x, NEW t, NEW nm, NEW u, NEW nn,
           TipMoves(x, TopOf(o), t, nm, text, TopOf(p), u, nn, other)
    PROVE  Moves(x, o, t, nm, text, p, u, nn, other)
<1>1. ASSUME NEW r \in Text, NEW q \in Text, Told(r, q, o, t, nm, text)
      PROVE  Told(r ++ x, q, p, u, nn, other)
  <2>1. q ++ Under(o, text) \in Text
    BY CatText
  <2>. QED  BY <1>1, <2>1 DEF Told, TipMoves
<1>. QED  BY <1>1 DEF Moves

LEMMA AmidSame ==
    ASSUME NEW c, NEW d, d.kind = c.kind, d.part = c.part, d.parts = c.parts
    PROVE  Amid(d) = Amid(c)
  BY DEF Amid

LEMMA WordsNeeded ==
    /\ Word(Lbrace) \in Text /\ Word(Rbrace) \in Text /\ Word("then") \in Text /\ Word("else") \in Text
    /\ Word("if") \in Text /\ Word("1") \in Text /\ \A k \in Commands \cup Idents \cup Nodes : Word(k) \in Text
<1>1. {Lbrace, Rbrace, "then", "else", "if", "1"} \cup Commands \cup Idents \cup Nodes \subseteq Tokens
  BY WordFacts DEF Nodes
<1>. QED  BY <1>1, WordText

LEMMA TipNewBlock ==
    ASSUME NEW c, NEW text, Texted(c, text), NEW d, d.kind = c.kind, d.part = c.part, d.parts = c.parts,
           NEW other, \A i \in 1..Len(c.parts) : other[c.parts[i]] = text[c.parts[i]],
           other[d.block] = Nil, NEW nm
    PROVE  TipMoves(Nil, c, DueBlock, nm, text, d, <<>>, nm, other)
<1>1. Upto(d, other) = Upto(c, text) /\ Upto(c, text) \in Text /\ Amid(d) = Amid(c)
  BY UptoAgrees, PartText, AmidSame DEF Texted
<1>2. Partly(d, other) = Upto(c, text)
  BY <1>1, CatText DEF Partly
<1>3. ASSUME NEW r \in Text, NEW q \in Text, Tip(r, q, c, DueBlock, nm, text)
      PROVE  Tip(r ++ Nil, q, d, <<>>, nm, other)
  <2>1. Amid(c) /\ r = q ++ Upto(c, text)
    BY <1>3, TipAt, DueLists
  <2>2. Amid(d) /\ r ++ Nil = q ++ Partly(d, other)
    BY <1>1, <1>2, <2>1, CatText
  <2>. QED  BY <2>2 DEF Tip
<1>. QED  BY <1>3 DEF TipMoves

LEMMA TipBrace ==
    ASSUME NEW c, NEW text, NEW nm
    PROVE  TipMoves(Word(Lbrace), c, DueBrace, nm, text, c, DueBlock, nm, text)
<1>1. ASSUME NEW r \in Text, NEW q \in Text, Tip(r, q, c, DueBrace, nm, text)
      PROVE  Tip(r ++ Word(Lbrace), q, c, DueBlock, nm, text)
  <2>1. Amid(c) /\ r ++ Word(Lbrace) = q ++ Upto(c, text)
    BY <1>1, TipAt, DueLists
  <2>. QED  BY <2>1 DEF Tip
<1>. QED  BY <1>1 DEF TipMoves

LEMMA TipThen ==
    ASSUME NEW c, NEW text, NEW nm
    PROVE  TipMoves(Word("then"), c, DueThen, nm, text, c, DueBrace, nm, text)
<1>1. ASSUME NEW r \in Text, NEW q \in Text, Tip(r, q, c, DueThen, nm, text)
      PROVE  Tip(r ++ Word("then"), q, c, DueBrace, nm, text)
  <2>1. Amid(c) /\ (r ++ Word("then")) ++ Word(Lbrace) = q ++ Upto(c, text)
    BY <1>1, TipAt, DueLists
  <2>. QED  BY <2>1 DEF Tip
<1>. QED  BY <1>1 DEF TipMoves

LEMMA OneWord ==
    ASSUME NEW nm \in Seq(Words), Len(nm) = 1, nm[1] \in Commands
    PROVE  /\ IsCommand(nm) /\ nm \in Text
           /\ \A x \in Words : IsCommand(Append(nm, x)) /\ Append(nm, x)[1] = nm[1] /\ Append(nm, x) = nm ++ Word(x)
<1>1. nm \in Text
  BY WordFacts, SeqWider DEF Text
<1>2. nm # <<>>
  BY LongerThanEmpty
<1>3. ASSUME NEW x \in Words
      PROVE  IsCommand(Append(nm, x)) /\ Append(nm, x)[1] = nm[1] /\ Append(nm, x) = nm ++ Word(x)
  <2>1. Append(nm, x) \in Seq(Words) /\ Len(Append(nm, x)) = 2 /\ Append(nm, x)[1] = nm[1]
    <3>1. 1 \in 1..Len(nm) /\ Len(nm) + 1 = 2
      OBVIOUS
    <3>2. /\ Append(nm, x) \in Seq(Words) /\ Len(Append(nm, x)) = Len(nm) + 1
          /\ \A i \in 1..Len(nm) : Append(nm, x)[i] = nm[i]
      BY ONLY nm \in Seq(Words), x \in Words, AppendFacts
    <3>. QED  BY <3>1, <3>2
  <2>2. Append(nm, x) # <<>>
    BY <2>1, LongerThanEmpty
  <2>3. Append(nm, x) = nm ++ Word(x)
    BY <1>1, WordFacts, AppendText
  <2>. QED  BY <2>1, <2>2, <2>3 DEF IsCommand
<1>. QED  BY <1>1, <1>2, <1>3 DEF IsCommand

LEMMA TipOperand ==
    ASSUME NEW c, NEW text, Partly(c, text) \in Text, NEW nm, NEW e \in DOMAIN Names \cup {"1"},
           NEW w \in Tokens, Matches(w, e), NEW nn, nn = (IF w \in Idents THEN Append(nm, w) ELSE nm)
    PROVE  TipMoves(Word(w), c, <<e, "AddCommand">>, nm, text, c, <<"AddCommand">>, nn, text)
<1>1. ASSUME NEW r \in Text, NEW q \in Text, Tip(r, q, c, <<e, "AddCommand">>, nm, text)
      PROVE  Tip(r ++ Word(w), q, c, <<"AddCommand">>, nn, text)
  <2>1. /\ Amid(c) /\ nm \in Seq(Words) /\ Len(nm) = 1 /\ nm[1] \in Commands
        /\ <<e, "AddCommand">> = <<Operand[nm[1]], "AddCommand">>
        /\ r = (q ++ Partly(c, text)) ++ nm
    <3>. DEFINE t == <<e, "AddCommand">>
    <3>1. t # <<>> /\ Head(t) \in DOMAIN Names \cup {"1"}
      BY DueLists
    <3>2. Tip(r, q, c, t, nm, text)
      BY <1>1
    <3>. HIDE DEF t
    <3>3. /\ Amid(c) /\ nm \in Seq(Words) /\ Len(nm) = 1 /\ nm[1] \in Commands
          /\ t = <<Operand[nm[1]], "AddCommand">>
          /\ r = (q ++ Partly(c, text)) ++ nm
      BY <3>1, <3>2, TipAt
    <3>. QED  BY <3>3 DEF t
  <2>2. e = Operand[nm[1]]
    BY <2>1, DueLists
  <2>3. /\ IsCommand(nm) /\ nm \in Text
        /\ \A x \in Words : IsCommand(Append(nm, x)) /\ Append(nm, x)[1] = nm[1] /\ Append(nm, x) = nm ++ Word(x)
    BY <2>1, OneWord
  <2>4. IsCommand(nn) /\ Spelled(nn, text) = nm ++ Word(w)
    <3>1. CASE e \in DOMAIN Names
      <4>1. w \in Idents /\ e # "1"
        <5>1. e # "1"
          BY <3>1, VocabularyAssumption
        <5>2. w \in Names[e]
          BY <3>1 DEF Matches
        <5>. QED  BY <3>1, <5>1, <5>2 DEF Idents
      <4>2. nn = Append(nm, w) /\ w \in Words
        BY <4>1, WordFacts
      <4>3. IsCommand(nn) /\ nn[1] = nm[1] /\ nn = nm ++ Word(w)
        BY <2>3, <4>2
      <4>4. nn[1] \notin Nodes
        BY <4>3, NotBoth DEF IsCommand
      <4>. QED  BY <2>2, <4>1, <4>3, <4>4, SpelledIs
    <3>2. CASE e \notin DOMAIN Names
      <4>1. e = "1" /\ w = "1"
        BY <3>2 DEF Matches
      <4>2. nn = nm
        BY <4>1, VocabularyAssumption
      <4>3. nm[1] \notin Nodes
        BY <2>3, NotBoth DEF IsCommand
      <4>. QED  BY <2>2, <2>3, <4>1, <4>2, <4>3, SpelledIs
    <3>. QED  BY <3>1, <3>2
  <2>5. r ++ Word(w) = (q ++ Partly(c, text)) ++ Spelled(nn, text)
    <3>1. Word(w) \in Text
      BY WordText
    <3>. QED  BY <2>1, <2>3, <2>4, <3>1, CatText
  <2>. QED  BY <2>1, <2>4, <2>5 DEF Tip
<1>. QED  BY <1>1 DEF TipMoves

LEMMA TipCommand ==
    ASSUME NEW c, NEW text, c.part # "else", NEW nm, NEW w \in Commands,
           NEW l, l = (IF Operand[w] = "none" THEN <<>> ELSE <<Operand[w]>>) \o <<"AddCommand">>
    PROVE  TipMoves(Word(w), c, <<>>, nm, text, c, l, <<w>>, text)
<1>1. Word(w) = <<w>> /\ Word(w) \in Seq(Words) /\ Len(Word(w)) = 1 /\ Word(w)[1] = w
  BY WordFacts, Single DEF Word
<1>2. IsCommand(Word(w))
  BY <1>1, OneWord
<1>3. ASSUME NEW r \in Text, NEW q \in Text, Tip(r, q, c, <<>>, nm, text)
      PROVE  Tip(r ++ Word(w), q, c, l, Word(w), text)
  <2>. DEFINE z == <<>>
  <2>1. Amid(c) /\ r = q ++ Partly(c, text)
    BY <1>3, TipAt
  <2>2. CASE Operand[w] = "none"
    <3>1. l = <<"AddCommand">>
      BY <2>2
    <3>2. Spelled(Word(w), text) = Word(w)
      BY <1>1, <2>2, NotBoth, SpelledIs
    <3>3. r ++ Word(w) = (q ++ Partly(c, text)) ++ Spelled(Word(w), text)
      BY <2>1, <3>2
    <3>. QED  BY <1>2, <2>1, <3>1, <3>3 DEF Tip
  <2>3. CASE Operand[w] # "none"
    <3>1. l = <<Operand[w], "AddCommand">>
      BY <2>3, TwoTokens
    <3>2. r ++ Word(w) = (q ++ Partly(c, text)) ++ Word(w)
      BY <2>1
    <3>. QED  BY <1>1, <2>1, <2>3, <3>1, <3>2 DEF Tip
  <2>. QED  BY <2>2, <2>3
<1>. QED  BY <1>1, <1>3 DEF TipMoves

LEMMA TipStatement ==
    ASSUME NEW c, NEW text, Texted(c, text), text[c.block] \in Text, NEW nm, NEW nn,
           NEW other, \A i \in 1..Len(c.parts) : other[c.parts[i]] = text[c.parts[i]],
           other[c.block] = text[c.block] ++ Spelled(nm, text), Spelled(nm, text) \in Text
    PROVE  TipMoves(Nil, c, <<"AddCommand">>, nm, text, c, <<>>, nn, other)
<1>1. Upto(c, other) = Upto(c, text) /\ Upto(c, text) \in Text
  BY UptoAgrees, PartText DEF Texted
<1>2. Partly(c, other) = Partly(c, text) ++ Spelled(nm, text) /\ Partly(c, text) \in Text
  <2>1. Partly(c, text) = Upto(c, text) ++ text[c.block] /\ Partly(c, other) = Upto(c, text) ++ other[c.block]
    BY <1>1 DEF Partly
  <2>2. Partly(c, other) = Upto(c, text) ++ (text[c.block] ++ Spelled(nm, text))
    BY <2>1
  <2>3. Upto(c, text) \in Text
    BY <1>1
  <2>4. (Upto(c, text) ++ text[c.block]) ++ Spelled(nm, text) = Upto(c, text) ++ (text[c.block] ++ Spelled(nm, text))
    BY <2>3, CatText
  <2>5. Upto(c, text) ++ text[c.block] \in Text
    BY <2>3, CatText
  <2>. QED  BY <2>1, <2>2, <2>4, <2>5
<1>3. ASSUME NEW r \in Text, NEW q \in Text, Tip(r, q, c, <<"AddCommand">>, nm, text)
      PROVE  Tip(r ++ Nil, q, c, <<>>, nn, other)
  <2>1. Amid(c) /\ r = (q ++ Partly(c, text)) ++ Spelled(nm, text)
    BY <1>3, TipAt, DueLists
  <2>2. r ++ Nil = q ++ Partly(c, other)
    BY <1>2, <2>1, CatText
  <2>. QED  BY <2>1, <2>2 DEF Tip
<1>. QED  BY <1>3 DEF TipMoves
-----------------------------------------------------------------------------
(* A block of the innermost construct ends, and what comes after it.       *)
LEMMA Regroup ==
    ASSUME NEW a \in Text, NEW l \in Text, NEW x \in Text, NEW s \in Text, NEW y \in Text
    PROVE  (((a ++ l) ++ x) ++ s) ++ y = a ++ (l ++ ((x ++ s) ++ y))
<1>1. a ++ l \in Text /\ x ++ s \in Text /\ (x ++ s) ++ y \in Text
  BY CatText
<1>2. ((a ++ l) ++ x) ++ s = (a ++ l) ++ (x ++ s)
  BY <1>1, CatText
<1>3. ((a ++ l) ++ (x ++ s)) ++ y = (a ++ l) ++ ((x ++ s) ++ y)
  BY <1>1, CatText
<1>4. (a ++ l) ++ ((x ++ s) ++ y) = a ++ (l ++ ((x ++ s) ++ y))
  BY <1>1, CatText
<1>. QED  BY <1>2, <1>3, <1>4

EndsBlock(c, d) ==
    /\ c.parts \in Seq(Nat) /\ c.block \in Nat
    /\ d.kind = c.kind /\ d.block = c.block /\ d.parts = Append(c.parts, c.block)
    /\ d.part = IF c.part = "condition" THEN "body" ELSE c.part

LEMMA EndOfBlockLeads ==
    ASSUME NEW c, Amid(c), NEW d, EndsBlock(c, d), c.part \in Parts(c.kind)
    PROVE  Final(d) = Final(c) /\ Len(d.parts) = Len(c.parts) + 1 /\ Len(c.parts) \in Nat
           /\ \A i : Lead(d, i) = Lead(c, i)
<1>1. Len(d.parts) = Len(c.parts) + 1 /\ Len(c.parts) \in Nat
  BY DEF EndsBlock
<1>2. Final(d) = Final(c)
  <2>1. CASE c.part # "last"
    BY <2>1 DEF Final, EndsBlock
  <2>2. CASE c.part = "last"
    <3>1. d.part = "last" /\ c.kind \in Nodes
      BY <2>2 DEF EndsBlock, Parts, Nodes
    <3>2. Len(c.parts) % 2 = 0
      BY <2>2, <3>1 DEF Amid
    <3>3. Len(d.parts) % 2 = 1 /\ Len(c.parts) % 2 # 1
      <4>. DEFINE n == Len(c.parts)
      <4>1. n \in Nat /\ n % 2 = 0 /\ Len(d.parts) = n + 1
        BY <1>1, <3>2
      <4>. HIDE DEF n
      <4>2. Len(d.parts) % 2 = 1 /\ n % 2 # 1
        BY <4>1, Parity
      <4>. QED  BY <4>2 DEF n
    <3>. QED  BY <1>1, <2>2, <3>1, <3>3 DEF Final
  <2>. QED  BY <2>1, <2>2
<1>3. \A i : Lead(d, i) = Lead(c, i)
  BY <1>2 DEF Lead, EndsBlock
<1>. QED  BY <1>1, <1>2, <1>3

LEMMA EndOfBlockDone ==
    ASSUME NEW c, Amid(c), NEW d, EndsBlock(c, d), c.part \in Parts(c.kind),
           NEW text, Texted(c, text), text[c.block] \in Text
    PROVE  Partly(c, text) ++ Word(Rbrace) = Done(d, text) /\ Texted(d, text)
<1>. DEFINE n == Len(c.parts)
            s == text[c.block]
            l == Lead(c, n + 1)
<1>1. n \in Nat /\ \A i : Lead(d, i) = Lead(c, i)
  BY EndOfBlockLeads
<1>2. /\ Done(d, text) = Done(c, text) ++ (Lead(d, Len(c.parts) + 1) ++ Braced(text[c.block]))
      /\ d.parts \in Seq(Nat) /\ \A i \in 1..Len(d.parts) : text[d.parts[i]] \in Text
  <2>1. c.block \in Nat /\ c.parts \in Seq(Nat) /\ d.parts = Append(c.parts, c.block)
    BY DEF EndsBlock
  <2>2. \A i \in 1..Len(c.parts) : text[c.parts[i]] \in Text
    BY DEF Texted
  <2>3. \A i \in 1..Len(c.parts) : Lead(d, i) = Lead(c, i)
    BY <1>1
  <2>4. text[c.block] \in Text
    OBVIOUS
  <2>5. c.block \in Nat
    BY <2>1
  <2>6. c.parts \in Seq(Nat)
    BY <2>1
  <2>7. d.parts = Append(c.parts, c.block)
    BY <2>1
  <2>. QED  BY ONLY <2>2, <2>3, <2>4, <2>5, <2>6, <2>7, DoneGrows
<1>3. Done(d, text) = Done(c, text) ++ (l ++ Braced(s))
  BY <1>1, <1>2
<1>4. Partly(c, text) = ((Done(c, text) ++ l) ++ Word(Lbrace)) ++ s
  BY DEF Partly, Upto
<1>5. Done(c, text) \in Text /\ l \in Text /\ s \in Text /\ Word(Lbrace) \in Text /\ Word(Rbrace) \in Text
  BY PartText, LeadText, WordsNeeded
<1>6. Braced(s) = (Word(Lbrace) ++ s) ++ Word(Rbrace)
  BY <1>5, BracedText
<1>. HIDE DEF s, l
<1>7. (((Done(c, text) ++ l) ++ Word(Lbrace)) ++ s) ++ Word(Rbrace) = Done(c, text) ++ (l ++ ((Word(Lbrace) ++ s) ++ Word(Rbrace)))
  BY <1>5, Regroup
<1>. QED  BY <1>2, <1>3, <1>4, <1>6, <1>7 DEF Texted

LEMMA TipEndOfBlock ==
    ASSUME NEW c, c.kind \in Bodies, c.part \in Parts(c.kind), c.part # "else",
           NEW d, EndsBlock(c, d), NEW text, Texted(c, text), text[c.block] \in Text, NEW nm
    PROVE  TipMoves(Word(Rbrace), c, <<>>, nm, text, d, AfterBlock(c), nm, text)
<1>1. ASSUME NEW r \in Text, NEW q \in Text, Tip(r, q, c, <<>>, nm, text)
      PROVE  Tip(r ++ Word(Rbrace), q, d, AfterBlock(c), nm, text)
  <2>. DEFINE n == Len(c.parts)
              rr == r ++ Word(Rbrace)
  <2>1. Amid(c) /\ r = q ++ Partly(c, text)
    BY <1>1, TipAt
  <2>2. Final(d) = Final(c) /\ Len(d.parts) = n + 1 /\ n \in Nat /\ \A i : Lead(d, i) = Lead(c, i)
    BY <2>1, EndOfBlockLeads
  <2>3. Partly(c, text) ++ Word(Rbrace) = Done(d, text) /\ Texted(d, text)
    BY <2>1, EndOfBlockDone
  <2>4. rr = q ++ Done(d, text) /\ Done(d, text) \in Text
    <3>1. Partly(c, text) \in Text /\ Word(Rbrace) \in Text /\ Done(d, text) \in Text
      BY <2>3, PartText, WordsNeeded
    <3>2. (q ++ Partly(c, text)) ++ Word(Rbrace) = q ++ (Partly(c, text) ++ Word(Rbrace))
      BY <3>1, CatText
    <3>. QED  BY <2>1, <2>3, <3>1, <3>2
  <2>. HIDE DEF rr
  <2>5. CASE c.kind \notin Nodes
    <3>1. n = 0 /\ c.part = "body"
      BY <2>1, <2>5 DEF Amid, Parts, Nodes
    <3>2. After(d)
      <4>1. d.parts[n + 1] = c.block
        BY DEF EndsBlock
      <4>. QED  BY <2>2, <2>5, <3>1, <4>1 DEF After, EndsBlock
    <3>3. AfterBlock(c) \in {<<"SetInitStatic">>, <<"AddFunction">>} /\ AfterBlock(c) # <<"Else">>
      <4>1. c.kind = "init" \/ c.kind = "function"
        BY <2>5 DEF Bodies, Nodes
      <4>2. c.kind = "init" => AfterBlock(c) = <<"SetInitStatic">>
        BY <3>1, Zenon DEF AfterBlock
      <4>3. c.kind = "function" => AfterBlock(c) = <<"AddFunction">>
        BY <3>1, Zenon DEF AfterBlock
      <4>4. <<"SetInitStatic">> # <<"Else">> /\ <<"AddFunction">> # <<"Else">>
        BY DueLists
      <4>. QED  BY <4>1, <4>2, <4>3, <4>4
    <3>. QED  BY <2>4, <3>2, <3>3 DEF Tip, rr
  <2>6. CASE c.kind \in Nodes /\ c.part = "condition"
    <3>1. AfterBlock(c) = DueThen
      <4>1. c.kind # "init" /\ c.kind # "function"
        BY <2>6 DEF Nodes
      <4>. QED  BY <2>6, <4>1, Zenon DEF AfterBlock, DueThen, Lbrace
    <3>2. n % 2 = 0
      BY <2>1, <2>6 DEF Amid
    <3>3. d.part = "body" /\ d.kind \in Nodes /\ (n + 1) % 2 = 1 /\ (n + 2) % 2 = 0 /\ n + 2 # 1
      <4>1. d.part = "body" /\ d.kind \in Nodes
        BY <2>6 DEF EndsBlock
      <4>2. n + 2 # 1
        BY <2>2
      <4>. HIDE DEF n
      <4>. QED  BY <2>2, <3>2, <4>1, <4>2, Parity
    <3>4. Amid(d)
      BY <2>2, <3>3 DEF Amid
    <3>5. Lead(d, n + 2) = Word("then")
      BY <3>3, BeforeIs DEF Lead
    <3>6. Upto(d, text) = (Done(d, text) ++ Word("then")) ++ Word(Lbrace)
      <4>1. Len(d.parts) + 1 = n + 2
        BY <2>2
      <4>. QED  BY <3>5, <4>1 DEF Upto
    <3>7. (rr ++ Word("then")) ++ Word(Lbrace) = q ++ Upto(d, text)
      <4>1. Word("then") \in Text /\ Word(Lbrace) \in Text
        BY WordsNeeded
      <4>2. Done(d, text) ++ Word("then") \in Text
        BY <2>4, <4>1, CatText
      <4>3. rr ++ Word("then") = q ++ (Done(d, text) ++ Word("then"))
        BY <2>4, <4>1, CatText
      <4>4. (q ++ (Done(d, text) ++ Word("then"))) ++ Word(Lbrace) = q ++ ((Done(d, text) ++ Word("then")) ++ Word(Lbrace))
        BY <4>1, <4>2, CatText
      <4>. QED  BY <3>6, <4>3, <4>4
    <3>. QED  BY <3>1, <3>4, <3>7 DEF Tip, rr
  <2>7. CASE c.kind \in Nodes /\ c.part # "condition"
    <3>1. \/ c.part = "body" /\ n % 2 = 1
          \/ c.part = "last" /\ n % 2 = 0 /\ n > 0 /\ c.kind = "if"
      <4>1. (c.part = "body" /\ n % 2 = 1) \/ (c.part = "last" /\ n % 2 = 0 /\ n > 0)
        BY <2>1, <2>7 DEF Amid
      <4>2. c.part = "last" => c.kind = "if"
        BY <2>7 DEF Parts, Nodes
      <4>. QED  BY <4>1, <4>2
    <3>2. After(d)
      <4>1. d.part = c.part /\ d.kind \in Nodes
        BY <2>7 DEF EndsBlock
      <4>. HIDE DEF n
      <4>2. c.part = "body" => (n + 1) % 2 = 0 /\ n + 1 > 1
        BY <2>2, <3>1, Parity
      <4>3. c.part = "last" => (n + 1) % 2 = 1 /\ n + 1 > 1
        BY <2>2, <3>1, Parity
      <4>. QED  BY <2>2, <3>1, <4>1, <4>2, <4>3 DEF After
    <3>3. AfterBlock(c) \in {<<"AddNode">>, <<"Else">>} /\ (AfterBlock(c) = <<"Else">> => d.part = "body")
      <4>1. c.kind = "while" => c.part = "body"
        BY <2>7, <3>1
      <4>2. c.kind = "while" => AfterBlock(c) = <<"AddNode">>
        BY <4>1, Zenon DEF AfterBlock
      <4>3. c.kind = "if" /\ c.part = "body" => AfterBlock(c) = <<"Else">>
        BY Zenon DEF AfterBlock
      <4>4. c.kind = "if" /\ c.part = "last" => AfterBlock(c) = <<"AddNode">>
        BY Zenon DEF AfterBlock
      <4>5. <<"AddNode">> # <<"Else">>
        BY DueLists
      <4>. QED  BY <2>7, <3>1, <4>1, <4>2, <4>3, <4>4, <4>5 DEF Nodes, EndsBlock
    <3>. QED  BY <2>4, <3>2, <3>3 DEF Tip, rr
  <2>. QED  BY <2>5, <2>6, <2>7 DEF rr
<1>. QED  BY <1>1 DEF TipMoves

SameLeads(c, d) ==
    c.parts \in Seq(Nat) /\ d.parts = c.parts /\ \A i \in 1..Len(c.parts) : Lead(d, i) = Lead(c, i)
LEMMA DoneSame ==
    ASSUME NEW c, NEW d, SameLeads(c, d), NEW text
    PROVE  Done(d, text) = Done(c, text)
<1>. DEFINE f == [i \in DOMAIN c.parts |-> Lead(c, i) ++ Braced(text[c.parts[i]])]
            g == [i \in DOMAIN d.parts |-> Lead(d, i) ++ Braced(text[d.parts[i]])]
<1>1. c.parts \in Seq(Nat) /\ d.parts = c.parts /\ \A i \in 1..Len(c.parts) : Lead(d, i) = Lead(c, i)
  BY DEF SameLeads
<1>2. DOMAIN c.parts = 1..Len(c.parts)
  BY <1>1
<1>3. g = f
  BY <1>1, <1>2
<1>4. Done(c, text) = FlattenSeq(f) /\ Done(d, text) = FlattenSeq(g)
  BY DEF Done
<1>. HIDE DEF f, g
<1>. QED  BY <1>3, <1>4

LEMMA TipElse ==
    ASSUME NEW c, c.kind = "if", NEW text, Texted(c, text), NEW nm,
           NEW d, d.kind = c.kind, d.part = "else", d.parts = c.parts
    PROVE  TipMoves(Word("else"), c, <<"Else">>, nm, text, d, <<>>, nm, text)
           /\ TipMoves(Nil, c, <<"Else">>, nm, text, c, <<"AddNode">>, nm, text)
<1>1. ASSUME NEW r \in Text, NEW q \in Text, Tip(r, q, c, <<"Else">>, nm, text)
      PROVE  Tip(r ++ Word("else"), q, d, <<>>, nm, text) /\ Tip(r ++ Nil, q, c, <<"AddNode">>, nm, text)
  <2>1. After(c) /\ r = q ++ Done(c, text) /\ c.part = "body"
    BY <1>1, TipAt, DueLists
  <2>2. Otherwise(d)
    <3>1. c.kind \in Nodes /\ c.part # "last"
      BY <2>1 DEF Nodes
    <3>2. Len(c.parts) > 1 /\ Len(c.parts) % 2 = 0
      BY <2>1, <3>1 DEF After
    <3>3. Len(c.parts) \in Nat
      BY DEF Texted
    <3>4. Len(c.parts) > 0
      BY <3>2, <3>3
    <3>. QED  BY <3>2, <3>4 DEF Otherwise
  <2>3. Done(d, text) = Done(c, text)
    <3>1. Final(d) = Final(c)
      BY <2>1 DEF Final
    <3>2. \A i \in 1..Len(c.parts) : Lead(d, i) = Lead(c, i)
      BY <3>1 DEF Lead
    <3>3. SameLeads(c, d)
      BY <3>2 DEF Texted, SameLeads
    <3>. QED  BY <3>3, DoneSame
  <2>4. r ++ Word("else") = (q ++ Done(d, text)) ++ Word("else")
    BY <2>1, <2>3
  <2>5. r ++ Nil = q ++ Done(c, text)
    BY <2>1, CatText
  <2>6. <<"AddNode">> # <<"Else">>
    BY DueLists
  <2>7. Tip(r ++ Word("else"), q, d, <<>>, nm, text)
    BY <2>2, <2>4 DEF Tip
  <2>8. Tip(r ++ Nil, q, c, <<"AddNode">>, nm, text)
    BY <2>1, <2>5, <2>6 DEF Tip
  <2>. QED  BY <2>7, <2>8
<1>. QED  BY <1>1 DEF TipMoves

LEMMA TipElseBranch ==
    ASSUME NEW c, c.kind = "if", c.part = "else", NEW text, Texted(c, text), NEW nm,
           NEW d, d.kind = c.kind, d.parts = c.parts
    PROVE  /\ d.part = "condition" => TipMoves(Word("if"), c, <<>>, nm, text, d, DueBrace, nm, text)
           /\ d.part = "last" => TipMoves(Word(Lbrace), c, <<>>, nm, text, d, DueBlock, nm, text)
<1>. DEFINE n == Len(c.parts)
<1>1. n \in Nat /\ c.parts \in Seq(Nat)
  BY DEF Texted
<1>2. Done(c, text) \in Text /\ {Word("else"), Word("if"), Word(Lbrace)} \subseteq Text
  BY PartText, WordsNeeded
<1>3. ASSUME NEW r \in Text, NEW q \in Text, Tip(r, q, c, <<>>, nm, text)
      PROVE  /\ n % 2 = 0 /\ n > 0 /\ r = (q ++ Done(c, text)) ++ Word("else")
             /\ (n + 1) % 2 # 0 /\ n + 1 # 1
  <2>1. Otherwise(c) /\ r = (q ++ Done(c, text)) ++ Word("else")
    BY <1>3, TipAt
  <2>2. n % 2 = 0 /\ n > 0
    BY <2>1 DEF Otherwise
  <2>. HIDE DEF n
  <2>3. (n + 1) % 2 # 0 /\ n + 1 # 1
    BY <1>1, <2>2, Parity
  <2>. QED  BY <2>1, <2>2, <2>3
<1>4. ASSUME d.part = "condition", NEW r \in Text, NEW q \in Text, Tip(r, q, c, <<>>, nm, text)
      PROVE  Tip(r ++ Word("if"), q, d, DueBrace, nm, text)
  <2>1. /\ n % 2 = 0 /\ n > 0 /\ r = (q ++ Done(c, text)) ++ Word("else")
        /\ (n + 1) % 2 # 0 /\ n + 1 # 1
    BY <1>3, <1>4
  <2>2. Amid(d) /\ Final(d) = 0 /\ Final(c) = 0
    BY <1>4, <2>1 DEF Amid, Nodes, Final
  <2>3. Lead(d, n + 1) = Word("else") ++ Word("if")
    <3>1. n + 1 # 0
      BY <1>1
    <3>. QED  BY <2>1, <2>2, <3>1, BeforeIs DEF Lead, Nodes
  <2>4. Done(d, text) = Done(c, text)
    <3>1. \A i \in 1..Len(c.parts) : Lead(d, i) = Lead(c, i)
      BY <2>2 DEF Lead
    <3>2. SameLeads(c, d)
      BY <1>1, <3>1 DEF SameLeads
    <3>. QED  BY <3>2, DoneSame
  <2>5. Upto(d, text) = (Done(c, text) ++ (Word("else") ++ Word("if"))) ++ Word(Lbrace)
    BY <2>3, <2>4 DEF Upto
  <2>6. (r ++ Word("if")) ++ Word(Lbrace) = q ++ Upto(d, text)
    <3>. DEFINE a == Done(c, text)
                x == Word("else")
                y == Word("if")
                z == Word(Lbrace)
    <3>1. a \in Text /\ x \in Text /\ y \in Text /\ z \in Text
      BY <1>2
    <3>2. r = (q ++ a) ++ x /\ Upto(d, text) = (a ++ (x ++ y)) ++ z
      BY <2>1, <2>5
    <3>. HIDE DEF a, x, y, z
    <3>3. q ++ a \in Text /\ x ++ y \in Text /\ a ++ (x ++ y) \in Text
      BY <3>1, CatText
    <3>4. r ++ y = (q ++ a) ++ (x ++ y)
      BY <3>1, <3>2, <3>3, CatText
    <3>5. (q ++ a) ++ (x ++ y) = q ++ (a ++ (x ++ y))
      BY <3>1, <3>3, CatText
    <3>6. (q ++ (a ++ (x ++ y))) ++ z = q ++ ((a ++ (x ++ y)) ++ z)
      BY <3>1, <3>3, CatText
    <3>7. (r ++ y) ++ z = q ++ Upto(d, text)
      BY <3>2, <3>4, <3>5, <3>6
    <3>. QED  BY <3>7 DEF y, z
  <2>. QED  BY <2>2, <2>6 DEF Tip
<1>5. ASSUME d.part = "last", NEW r \in Text, NEW q \in Text, Tip(r, q, c, <<>>, nm, text)
      PROVE  Tip(r ++ Word(Lbrace), q, d, DueBlock, nm, text)
  <2>1. /\ n % 2 = 0 /\ n > 0 /\ r = (q ++ Done(c, text)) ++ Word("else")
        /\ (n + 1) % 2 # 0 /\ n + 1 # 1
    BY <1>3, <1>5
  <2>2. Amid(d) /\ Final(d) = n + 1 /\ Final(c) = 0
    <3>1. Len(d.parts) % 2 = 0 /\ Len(d.parts) > 0 /\ d.kind \in Nodes
      BY <2>1 DEF Nodes
    <3>2. Amid(d)
      BY <1>5, <3>1 DEF Amid
    <3>3. Len(d.parts) % 2 # 1
      <4>1. Len(d.parts) \in Nat
        BY <1>1
      <4>. QED  BY <3>1, <4>1, Parity
    <3>4. Final(d) = Len(d.parts) + 1 /\ Final(c) = 0
      BY <1>5, <3>3 DEF Final
    <3>. QED  BY <3>2, <3>4
  <2>3. Lead(d, n + 1) = Word("else")
    BY <2>1, <2>2, BeforeIs DEF Lead, Nodes
  <2>4. Done(d, text) = Done(c, text)
    <3>1. ASSUME NEW i \in 1..Len(c.parts) PROVE Lead(d, i) = Lead(c, i)
      <4>1. i # n + 1 /\ i # 0
        BY <1>1
      <4>2. Before(c.kind, i, n + 1) = Before(c.kind, i, 0)
        BY <4>1, BeforeIs
      <4>. QED  BY <2>2, <4>2 DEF Lead
    <3>2. SameLeads(c, d)
      BY <1>1, <3>1 DEF SameLeads
    <3>. QED  BY <3>2, DoneSame
  <2>5. Upto(d, text) = (Done(c, text) ++ Word("else")) ++ Word(Lbrace)
    BY <2>3, <2>4 DEF Upto
  <2>6. r ++ Word(Lbrace) = q ++ Upto(d, text)
    <3>. DEFINE a == Done(c, text)
                x == Word("else")
                z == Word(Lbrace)
    <3>1. a \in Text /\ x \in Text /\ z \in Text
      BY <1>2
    <3>2. r = (q ++ a) ++ x /\ Upto(d, text) = (a ++ x) ++ z
      BY <2>1, <2>5
    <3>. HIDE DEF a, x, z
    <3>3. a ++ x \in Text
      BY <3>1, CatText
    <3>4. r = q ++ (a ++ x)
      BY <3>1, <3>2, CatText
    <3>5. (q ++ (a ++ x)) ++ z = q ++ ((a ++ x) ++ z)
      BY <3>1, <3>3, CatText
    <3>6. r ++ z = q ++ Upto(d, text)
      BY <3>2, <3>4, <3>5
    <3>. QED  BY <3>6 DEF z
  <2>. QED  BY <2>2, <2>6 DEF Tip
<1>6. d.part = "condition" => TipMoves(Word("if"), c, <<>>, nm, text, d, DueBrace, nm, text)
  BY <1>4 DEF TipMoves
<1>7. d.part = "last" => TipMoves(Word(Lbrace), c, <<>>, nm, text, d, DueBlock, nm, text)
  BY <1>5 DEF TipMoves
<1>. QED  BY <1>6, <1>7
-----------------------------------------------------------------------------
(* Whose the blocks are.                                                   *)
LEMMA NobodysStatement ==
    ASSUME NEW made, WellFormed(made), NEW prog, NEW b, Nobodys(b, made, prog), NEW s, ~Mentions(s, b),
           NEW c \in 1..Len(made), NEW more, more = [made EXCEPT ![c] = Append(@, s)]
    PROVE  Nobodys(b, more, prog)
<1>. DEFINE n == Len(made)
            v == Append(made[c], s)
<1>1. IsSeq(made) /\ IsSeq(made[c]) /\ DOMAIN made = 1..n
  BY DEF WellFormed, IsSeq
<1>2. /\ Len(v) = Len(made[c]) + 1 /\ Len(made[c]) \in Nat /\ v[Len(made[c]) + 1] = s
      /\ \A i \in 1..Len(made[c]) : v[i] = made[c][i]
  BY <1>1, SequenceFacts
<1>3. more = [made EXCEPT ![c] = v]
  OBVIOUS
<1>. HIDE DEF v, n
<1>4. Len(more) = n
  BY <1>1, <1>3, UpdateFacts DEF n
<1>5. more[c] = v /\ \A k \in 1..n : k # c => more[k] = made[k]
  BY <1>1, <1>3 DEF n
<1>6. \A k \in 1..n : \A i \in 1..Len(made[k]) : ~Mentions(made[k][i], b)
  BY DEF Nobodys, n
<1>7. ASSUME NEW i \in 1..Len(v) PROVE ~Mentions(v[i], b)
  <2>1. i \in 1..Len(made[c]) \/ i = Len(made[c]) + 1
    BY <1>2
  <2>. QED  BY <1>2, <1>6, <2>1 DEF n
<1>8. \A k \in 1..n : \A i \in 1..Len(more[k]) : ~Mentions(more[k][i], b)
  BY <1>5, <1>6, <1>7
<1>. QED  BY <1>4, <1>8 DEF Nobodys, n

LEMMA NobodysNewBlock ==
    ASSUME NEW made, NEW prog, NEW text, Reported(made, prog, text),
           NEW n, n = Len(made), NEW m, m = n + 1, NEW more, more = Append(made, <<>>)
    PROVE  /\ \A b : Nobodys(b, made, prog) => Nobodys(b, more, prog)
           /\ Nobodys(m, more, prog)
<1>1. /\ Len(more) = m /\ n \in Nat /\ m \in Nat
      /\ more[m] = <<>> /\ Len(more[m]) = 0 /\ \A b \in 1..n : more[b] = made[b]
  <2>1. Len(<<>>) = 0
    OBVIOUS
  <2>. QED  BY <2>1, SequenceFacts DEF Reported, WellFormed
<1>2. \A c \in 1..m : c \in 1..n \/ c = m
  BY <1>1
<1>3. ASSUME NEW b, Nobodys(b, made, prog) PROVE Nobodys(b, more, prog)
  <2>1. \A c \in 1..n : \A i \in 1..Len(made[c]) : ~Mentions(made[c][i], b)
    BY <1>3 DEF Nobodys
  <2>2. \A c \in 1..m : \A i \in 1..Len(more[c]) : ~Mentions(more[c][i], b)
    BY <1>1, <1>2, <2>1
  <2>3. b \in 1..m
    BY <1>1, <1>3 DEF Nobodys
  <2>. QED  BY <1>1, <1>3, <2>2, <2>3 DEF Nobodys
<1>4. Nobodys(m, more, prog)
  <2>1. ASSUME NEW c \in 1..n, NEW i \in 1..Len(made[c]) PROVE ~Mentions(made[c][i], m)
    <3>. DEFINE s == made[c][i]
    <3>1. IsCommand(s) \/ IsNode(s, c, n)
      BY DEF Reported, WellFormed
    <3>2. c \in Nat /\ n \in Nat
      BY <1>1
    <3>. HIDE DEF s
    <3>3. ASSUME Mentions(s, m) PROVE FALSE
      <4>1. s[1] \in Nodes /\ \E j \in DOMAIN s[2] : s[2][j] = m
        BY <3>3 DEF Mentions
      <4>2. IsNode(s, c, n)
        BY <3>1, <4>1, NotBoth DEF IsCommand
      <4>3. \A j \in DOMAIN s[2] : s[2][j] \in (c + 1)..n
        BY <3>2, <4>2, NodeFacts
      <4>. QED  BY <1>1, <3>2, <4>1, <4>3
    <3>. QED  BY <3>3 DEF s
  <2>2. \A c \in 1..m : \A i \in 1..Len(more[c]) : ~Mentions(more[c][i], m)
    BY <1>1, <1>2, <2>1
  <2>3. ASSUME NEW i \in 1..Len(prog), prog[i].what \in {"init", "function"} PROVE prog[i].block # m
    <3>1. KeptOne(prog[i], text)
      BY DEF Reported, Kept
    <3>2. DOMAIN text = 1..n
      BY DEF Reported, Tells
    <3>3. prog[i].block = 0 \/ prog[i].block \in 1..n
      BY <2>3, <3>1, <3>2 DEF KeptOne
    <3>. QED  BY <1>1, <3>3
  <2>. QED  BY <1>1, <2>2, <2>3 DEF Nobodys
<1>. QED  BY <1>3, <1>4

KeepsNobodys(made, more, prog) ==
    Len(more) \in Nat /\ Len(made) <= Len(more) /\ \A b : Nobodys(b, made, prog) => Nobodys(b, more, prog)
TopParts(o, d, n) ==
    \A i \in 1..Len(d.parts) :
        /\ d.parts[i] \in 1..n /\ (Len(o) > 1 => d.parts[i] > d.parent)
        /\ \A j \in 1..(Len(o) - 1) : d.parts[i] # o[j].block
TopOwns(o, d, made, prog) ==
    /\ Nobodys(d.block, made, prog)
    /\ \A k \in 1..(Len(o) - 1) : o[k].block < d.block
    /\ \A k \in 1..(Len(o) - 1) : \A i \in 1..Len(o[k].parts) : o[k].parts[i] # d.block
    /\ \A i \in 1..Len(d.parts) : d.parts[i] # d.block

LEMMA TreeTop ==
    ASSUME NEW o \in Seq(Construct), o # <<>>, NEW t, NEW made, Len(made) \in Nat, NEW prog, Tree(o, t, made, prog),
           NEW d \in Construct, d.kind = TopOf(o).kind, d.parent = TopOf(o).parent,
           NEW p, p = [o EXCEPT ![Len(o)] = d],
           NEW more, KeepsNobodys(made, more, prog), TopParts(o, d, Len(more)),
           NEW u, AtStatement(p, u) => TopOwns(o, d, more, prog)
    PROVE  Tree(p, u, more, prog)
<1>. DEFINE n == Len(o)
<1>1. n \in 1..n /\ n \in Nat /\ o[n].kind = d.kind /\ o[n].parent = d.parent
  BY LongerThanEmpty DEF TopOf
<1>2. Len(p) = n /\ p[n] = d /\ \A j \in 1..(n - 1) : p[j] = o[j]
  BY <1>1
<1>a. \A i \in 1..Len(d.parts) : \A j \in 1..(n - 1) : d.parts[i] # o[j].block
  BY DEF TopParts
<1>b. AtStatement(p, u) =>
        /\ Nobodys(d.block, more, prog) /\ \A k \in 1..(n - 1) : o[k].block < d.block
        /\ \A k \in 1..(n - 1) : \A i \in 1..Len(o[k].parts) : o[k].parts[i] # d.block
        /\ \A i \in 1..Len(d.parts) : d.parts[i] # d.block
  BY DEF TopOwns
<1>. HIDE DEF n
<1>3. \A j \in 1..n : j \in 1..(n - 1) \/ j = n
  BY <1>1
<1>4. ASSUME NEW j \in 1..(n - 1), OwnBlock(o, j, made, prog)
      PROVE  OwnBlock(p, j, more, prog)
  <2>1. Nobodys(p[j].block, more, prog)
    BY <1>2, <1>4 DEF OwnBlock, KeepsNobodys
  <2>2. \A k \in 1..(j - 1) : p[k].block < p[j].block
    <3>1. \A k \in 1..(j - 1) : k \in 1..(n - 1)
      BY <1>1
    <3>. QED  BY <1>2, <1>4, <3>1 DEF OwnBlock
  <2>3. ASSUME NEW k \in 1..n, NEW i \in 1..Len(p[k].parts) PROVE p[k].parts[i] # p[j].block
    <3>1. CASE k = n
      <4>1. p[k].parts = d.parts /\ p[j].block = o[j].block
        BY <1>2, <3>1
      <4>. QED  BY <1>a, <2>3, <4>1
    <3>2. CASE k \in 1..(n - 1)
      <4>1. k \in 1..Len(o)
        BY DEF n
      <4>. QED  BY <1>2, <1>4, <2>3, <3>2, <4>1 DEF OwnBlock
    <3>. QED  BY <1>3, <3>1, <3>2
  <2>. QED  BY <1>2, <2>1, <2>2, <2>3 DEF OwnBlock
<1>5. ASSUME NEW j \in 1..(n - 1)
      PROVE  /\ p[j].kind \in (IF j = 1 THEN {"init", "function"} ELSE Nodes)
             /\ \A i \in 1..Len(p[j].parts) :
                    p[j].parts[i] \in 1..Len(more) /\ (j > 1 => p[j].parts[i] > p[j].parent)
             /\ Amid(p[j]) /\ OwnBlock(p, j, more, prog)
  <2>1. j \in 1..Len(o) /\ j < Len(o)
    BY <1>1 DEF n
  <2>2. /\ o[j].kind \in (IF j = 1 THEN {"init", "function"} ELSE Nodes)
        /\ \A i \in 1..Len(o[j].parts) :
               o[j].parts[i] \in 1..Len(made) /\ (j > 1 => o[j].parts[i] > o[j].parent)
        /\ Amid(o[j]) /\ OwnBlock(o, j, made, prog)
    BY <2>1 DEF Tree, Fills
  <2>3. \A b \in 1..Len(made) : b \in 1..Len(more)
    BY DEF KeepsNobodys
  <2>. QED  BY <1>2, <1>4, <2>2, <2>3
<1>6. /\ p[n].kind \in (IF n = 1 THEN {"init", "function"} ELSE Nodes)
      /\ \A i \in 1..Len(p[n].parts) : p[n].parts[i] \in 1..Len(more) /\ (n > 1 => p[n].parts[i] > p[n].parent)
  <2>1. o[n].kind \in (IF n = 1 THEN {"init", "function"} ELSE Nodes)
    BY <1>1 DEF Tree, n
  <2>. QED  BY <1>1, <1>2, <2>1 DEF TopParts, n
<1>7. ASSUME AtStatement(p, u)
      PROVE  OwnBlock(p, n, more, prog)
  <2>1. /\ Nobodys(d.block, more, prog) /\ \A k \in 1..(n - 1) : o[k].block < d.block
        /\ \A k \in 1..(n - 1) : \A i \in 1..Len(o[k].parts) : o[k].parts[i] # d.block
        /\ \A i \in 1..Len(d.parts) : d.parts[i] # d.block
    BY <1>7, <1>b
  <2>2. ASSUME NEW k \in 1..n, NEW i \in 1..Len(p[k].parts) PROVE p[k].parts[i] # d.block
    <3>1. CASE k = n
      <4>1. p[k].parts = d.parts
        BY <1>2, <3>1
      <4>. QED  BY <2>1, <2>2, <4>1
    <3>2. CASE k \in 1..(n - 1)
      <4>1. p[k] = o[k]
        BY <1>2, <3>2
      <4>. QED  BY <2>1, <2>2, <3>2, <4>1
    <3>. QED  BY <1>3, <3>1, <3>2
  <2>3. \A k \in 1..Len(p) : \A i \in 1..Len(p[k].parts) : p[k].parts[i] # d.block
    BY <1>2, <2>2
  <2>4. \A k \in 1..(n - 1) : p[k].block < d.block
    BY <1>2, <2>1
  <2>5. p[n].block = d.block
    BY <1>2
  <2>. QED  BY <2>1, <2>3, <2>4, <2>5 DEF OwnBlock
<1>8. ASSUME NEW j \in 1..Len(p)
      PROVE  /\ p[j].kind \in (IF j = 1 THEN {"init", "function"} ELSE Nodes)
             /\ \A i \in 1..Len(p[j].parts) :
                    p[j].parts[i] \in 1..Len(more) /\ (j > 1 => p[j].parts[i] > p[j].parent)
             /\ j < Len(p) => Amid(p[j])
             /\ Fills(p, u, j) => OwnBlock(p, j, more, prog)
  <2>1. CASE j \in 1..(n - 1)
    BY <1>5, <2>1
  <2>2. CASE j = n
    <3>1. ~(j < Len(p))
      BY <1>1, <1>2, <2>2
    <3>. QED  BY <1>6, <1>7, <2>2, <3>1 DEF Fills
  <2>. QED  BY <1>2, <1>3, <2>1, <2>2
<1>. QED  BY <1>8 DEF Tree

(* The innermost construct has parts that no one fills.                    *)
LEMMA TreeTopParts ==
    ASSUME NEW o \in Seq(Construct), o # <<>>, NEW t, NEW made, NEW prog, Tree(o, t, made, prog)
    PROVE  /\ TopParts(o, TopOf(o), Len(made))
           /\ AtStatement(o, t) => TopOwns(o, TopOf(o), made, prog)
<1>. DEFINE n == Len(o)
<1>1. n \in 1..n /\ n \in Nat /\ TopOf(o) = o[n] /\ n = Len(o)
  BY LongerThanEmpty DEF TopOf
<1>. HIDE DEF n
<1>2. \A i \in 1..Len(o[n].parts) : o[n].parts[i] \in 1..Len(made) /\ (n > 1 => o[n].parts[i] > o[n].parent)
  BY <1>1 DEF Tree
<1>3. ASSUME NEW j \in 1..(n - 1) PROVE j \in 1..n /\ OwnBlock(o, j, made, prog)
  <2>1. j \in 1..Len(o) /\ j < Len(o)
    BY <1>1
  <2>. QED  BY <1>1, <2>1 DEF Tree, Fills
<1>4. \A i \in 1..Len(o[n].parts) : \A j \in 1..(n - 1) : o[n].parts[i] # o[j].block
  BY <1>1, <1>3 DEF OwnBlock
<1>5. ASSUME AtStatement(o, t) PROVE TopOwns(o, TopOf(o), made, prog)
  <2>1. OwnBlock(o, n, made, prog)
    BY <1>1, <1>5 DEF Tree, Fills
  <2>. QED  BY <1>1, <1>3, <2>1 DEF OwnBlock, TopOwns
<1>. QED  BY <1>1, <1>2, <1>4, <1>5 DEF TopParts

LEMMA DueEnds ==
    ASSUME NEW o
    PROVE  /\ \A t \in {DueBlock, DueBrace, DueThen} : ~AtStatement(o, t)
           /\ \A s \in Finals \ {"AddCommand"} : ~AtStatement(o, <<s>>)
           /\ \A t, last : Ends(t, last) /\ last # "AddCommand" => ~AtStatement(o, t)
<1>1. ASSUME NEW t, NEW last, Ends(t, last), last # "AddCommand" PROVE ~AtStatement(o, t)
  BY <1>1 DEF Ends, AtStatement
<1>2. /\ Ends(DueBlock, "NewBlock") /\ Ends(DueBrace, "NewBlock") /\ Ends(DueThen, "NewBlock")
  BY Lists, Zenon DEF DueBlock, DueBrace, DueThen, Lbrace
<1>3. \A s \in Finals : Ends(<<s>>, s)
  BY Lists, Zenon
<1>. QED  BY <1>1, <1>2, <1>3
-----------------------------------------------------------------------------
(* What is around a block does not change when the block does.             *)
Within(c, n) == c.parts \in Seq(Nat) /\ c.block \in 1..n /\ \A i \in 1..Len(c.parts) : c.parts[i] \in 1..n
Apart(c, b) == c.block # b /\ \A i \in 1..Len(c.parts) : c.parts[i] # b

LEMMA PartlySame ==
    ASSUME NEW c, NEW n, Within(c, n), NEW b, Apart(c, b), NEW text, NEW other, SameBut(text, other, n, b)
    PROVE  Partly(c, other) = Partly(c, text) /\ Upto(c, other) = Upto(c, text)
<1>1. /\ \A i \in 1..Len(c.parts) : other[c.parts[i]] = text[c.parts[i]]
      /\ other[c.block] = text[c.block] /\ c.parts \in Seq(Nat)
  BY DEF Within, Apart, SameBut
<1>2. Upto(c, other) = Upto(c, text)
  BY <1>1, UptoAgrees
<1>. QED  BY <1>1, <1>2 DEF Partly

LEMMA AroundSame ==
    ASSUME NEW o, NEW n, \A j \in 1..(Len(o) - 1) : Within(o[j], n),
           NEW b, \A j \in 1..(Len(o) - 1) : Apart(o[j], b),
           NEW text, NEW other, SameBut(text, other, n, b)
    PROVE  Under(o, other) = Under(o, text)
<1>1. \A j \in 1..(Len(o) - 1) : Partly(o[j], other) = Partly(o[j], text)
  BY PartlySame
<1>2. Len(o) = Len(o)
  OBVIOUS
<1>. QED  BY ONLY <1>1, <1>2, UnderAgrees

(* The constructs around the innermost have blocks of their own.           *)
LEMMA TreeAround ==
    ASSUME NEW o \in Seq(Construct), o # <<>>, NEW t, NEW made, NEW prog, Tree(o, t, made, prog),
           NEW j \in 1..(Len(o) - 1)
    PROVE  Within(o[j], Len(made)) /\ Amid(o[j]) /\ OwnBlock(o, j, made, prog) /\ j \in 1..Len(o)
<1>1. j \in 1..Len(o) /\ j < Len(o) /\ o[j] \in Construct
  BY LongerThanEmpty
<1>2. OwnBlock(o, j, made, prog) /\ Amid(o[j])
  BY <1>1 DEF Tree, Fills
<1>3. o[j].block \in 1..Len(made)
  BY <1>2 DEF OwnBlock, Nobodys
<1>4. \A i \in 1..Len(o[j].parts) : o[j].parts[i] \in 1..Len(made)
  BY <1>1 DEF Tree
<1>5. o[j].parts \in Seq(Nat)
  BY <1>1 DEF Construct
<1>. QED  BY <1>1, <1>2, <1>3, <1>4, <1>5 DEF Within

LEMMA TopApart ==
    ASSUME NEW o \in Seq(Construct), o # <<>>, NEW made, NEW prog, OwnBlock(o, Len(o), made, prog),
           Len(made) \in Nat, NEW t, Tree(o, t, made, prog)
    PROVE  \A j \in 1..(Len(o) - 1) : Apart(o[j], TopOf(o).block)
<1>. DEFINE n == Len(o)
<1>1. ASSUME NEW j \in 1..(Len(o) - 1) PROVE Apart(o[j], o[n].block)
  <2>1. j \in 1..Len(o) /\ Within(o[j], Len(made))
    BY TreeAround
  <2>2. o[j].block < o[n].block
    BY DEF OwnBlock
  <2>3. o[n].block \in 1..Len(made) /\ o[j].block \in 1..Len(made)
    BY <2>1 DEF OwnBlock, Nobodys, Within
  <2>4. o[j].block # o[n].block
    BY <2>2, <2>3
  <2>5. \A i \in 1..Len(o[j].parts) : o[j].parts[i] # o[n].block
    BY <2>1 DEF OwnBlock
  <2>. QED  BY <2>4, <2>5 DEF Apart
<1>. QED  BY <1>1 DEF TopOf

LEMMA SpelledIsDone ==
    ASSUME NEW c, c.kind \in Nodes, c.parts \in Seq(Nat), After(c), NEW s, s = <<c.kind, c.parts>>, NEW text
    PROVE  Spelled(s, text) = Done(c, text)
<1>. DEFINE n == Len(c.parts)
<1>1. n \in Nat /\ n > 1
  BY DEF After
<1>2. s[1] = c.kind /\ s[2] = c.parts /\ DOMAIN c.parts = 1..n
  OBVIOUS
<1>3. \/ c.part = "body" /\ n % 2 = 0 /\ Final(c) = 0
      \/ c.part = "last" /\ n % 2 = 1 /\ Final(c) = n
  BY DEF After, Final
<1>. HIDE DEF n
<1>4. ASSUME NEW i \in 1..n PROVE Before(c.kind, i, n) = Before(c.kind, i, Final(c))
  <2>1. CASE Final(c) = n
    BY <2>1
  <2>2. CASE Final(c) = 0 /\ n % 2 = 0
    <3>1. i # 0 /\ i \in Nat
      BY <1>1
    <3>2. CASE i % 2 = 0
      BY <3>2, BeforeIs
    <3>3. CASE i % 2 # 0
      <4>1. i # n
        BY <2>2, <3>3
      <4>2. CASE i = 1
        BY <4>2, BeforeIs
      <4>3. CASE i # 1
        <5>1. Before(c.kind, i, n) = Word("else") ++ Word("if")
          BY <3>3, <4>1, <4>3, BeforeIs
        <5>2. Before(c.kind, i, Final(c)) = Word("else") ++ Word("if")
          BY <2>2, <3>1, <3>3, <4>3, BeforeIs
        <5>. QED  BY <5>1, <5>2
      <4>. QED  BY <4>2, <4>3
    <3>. QED  BY <3>2, <3>3
  <2>. QED  BY <1>3, <2>1, <2>2
<1>5. \A i \in 1..n : Before(c.kind, i, n) = Lead(c, i)
  BY <1>4 DEF Lead
<1>6. Spelled(s, text) = FlattenSeq([i \in DOMAIN s[2] |-> Before(s[1], i, Len(s[2])) ++ Braced(text[s[2][i]])])
  BY <1>2, SpelledIs
<1>7. [i \in DOMAIN s[2] |-> Before(s[1], i, Len(s[2])) ++ Braced(text[s[2][i]])]
        = [i \in DOMAIN c.parts |-> Lead(c, i) ++ Braced(text[c.parts[i]])]
  BY <1>2, <1>5 DEF n
<1>. QED  BY <1>6, <1>7 DEF Done
-----------------------------------------------------------------------------
(* A construct begins in the innermost block.                              *)
NodeOn(o, d) ==
    /\ d \in Construct /\ d.kind \in Nodes /\ d.part = "condition" /\ d.parts = <<>>
    /\ o # <<>> /\ TopOf(o).kind \in Bodies /\ TopOf(o).part # "else" /\ Amid(TopOf(o))

LEMMA TreeNode ==
    ASSUME NEW o \in Seq(Construct), NEW d, NodeOn(o, d), NEW made, NEW prog, Tree(o, <<>>, made, prog),
           NEW p, p = Append(o, d)
    PROVE  Tree(p, DueBrace, made, prog)
<1>. DEFINE n == Len(o)
<1>1. /\ Len(p) = n + 1 /\ p[n + 1] = d /\ \A j \in 1..n : p[j] = o[j]
      /\ n \in Nat /\ n > 0 /\ n = Len(o)
  BY LongerThanEmpty, AppendFacts DEF NodeOn
<1>2. AtStatement(o, <<>>)
  BY DEF NodeOn, AtStatement
<1>3. ~AtStatement(p, DueBrace)
  BY DueEnds
<1>. HIDE DEF n
<1>4. d.parts = <<>> /\ Len(d.parts) = 0 /\ d.kind \in Nodes
  <2>1. Len(<<>>) = 0
    OBVIOUS
  <2>. QED  BY <2>1 DEF NodeOn
<1>5. ASSUME NEW j \in 1..n
      PROVE  /\ o[j].kind \in (IF j = 1 THEN {"init", "function"} ELSE Nodes)
             /\ \A i \in 1..Len(o[j].parts) :
                    o[j].parts[i] \in 1..Len(made) /\ (j > 1 => o[j].parts[i] > o[j].parent)
             /\ Amid(o[j]) /\ OwnBlock(o, j, made, prog)
  <2>1. Amid(o[j])
    <3>1. j < n \/ j = n
      BY <1>1
    <3>. QED  BY <1>1, <3>1 DEF Tree, NodeOn, TopOf
  <2>2. Fills(o, <<>>, j)
    BY <1>2 DEF Fills
  <2>. QED  BY <1>1, <2>1, <2>2 DEF Tree
<1>6. \A j \in 1..(n + 1) : j \in 1..n \/ j = n + 1
  BY <1>1
<1>7. ASSUME NEW j \in 1..n PROVE OwnBlock(p, j, made, prog)
  <2>1. OwnBlock(o, j, made, prog)
    BY <1>5
  <2>2. \A k \in 1..(j - 1) : k \in 1..n
    BY <1>1
  <2>3. \A k \in 1..(n + 1) : \A i \in 1..Len(p[k].parts) : p[k].parts[i] # p[j].block
    <3>1. ASSUME NEW k \in 1..n, NEW i \in 1..Len(p[k].parts) PROVE p[k].parts[i] # p[j].block
      BY <1>1, <2>1, <3>1 DEF OwnBlock
    <3>2. \A i \in 1..Len(p[n + 1].parts) : FALSE
      BY <1>1, <1>4
    <3>. QED  BY <1>6, <3>1, <3>2
  <2>. QED  BY <1>1, <2>1, <2>2, <2>3 DEF OwnBlock
<1>8. ASSUME NEW j \in 1..(n + 1)
      PROVE  /\ p[j].kind \in (IF j = 1 THEN {"init", "function"} ELSE Nodes)
             /\ \A i \in 1..Len(p[j].parts) :
                    p[j].parts[i] \in 1..Len(made) /\ (j > 1 => p[j].parts[i] > p[j].parent)
             /\ j < n + 1 => Amid(p[j])
             /\ Fills(p, DueBrace, j) => OwnBlock(p, j, made, prog)
  <2>1. CASE j \in 1..n
    BY <1>1, <1>5, <1>7, <2>1
  <2>2. CASE j = n + 1
    <3>1. ~Fills(p, DueBrace, j) /\ ~(j < n + 1) /\ j # 1
      BY <1>1, <1>3, <2>2 DEF Fills
    <3>2. p[j] = d
      BY <1>1, <2>2
    <3>. QED  BY <1>4, <3>1, <3>2
  <2>. QED  BY <1>6, <2>1, <2>2
<1>. QED  BY <1>1, <1>8 DEF Tree

LEMMA MovesNode ==
    ASSUME NEW o \in Seq(Construct), NEW d, NodeOn(o, d), NEW made, NEW prog, Tree(o, <<>>, made, prog),
           NEW p, p = Append(o, d), NEW text, Tells(text, made), NEW nm, NEW nn
    PROVE  Moves(Word(d.kind), o, <<>>, nm, text, p, DueBrace, nn, text)
<1>. DEFINE n == Len(o) - 1
            c == TopOf(o)
<1>1. /\ o # <<>> /\ Len(o) = n + 1 /\ n \in Nat /\ Len(p) = n + 2 /\ c = o[n + 1] /\ TopOf(p) = d
      /\ \A j \in 1..(n + 1) : p[j] = o[j]
  <2>1. o # <<>> /\ Len(o) \in Nat /\ Len(o) # 0
    BY LongerThanEmpty DEF NodeOn
  <2>2. Len(p) = Len(o) + 1 /\ p[Len(o) + 1] = d /\ \A j \in 1..Len(o) : p[j] = o[j]
    BY AppendFacts DEF NodeOn
  <2>. QED  BY <2>1, <2>2 DEF TopOf
<1>2. AtStatement(o, <<>>)
  BY DEF NodeOn, AtStatement
<1>3. /\ \A j \in 1..(n + 1) : Partly(o[j], text) \in Text
      /\ Under(o, text) \in Text /\ Partly(c, text) \in Text
  <2>1. /\ \A j \in 1..n : Partly(o[j], text) \in Text
        /\ Under(o, text) \in Text /\ Partly(c, text) \in Text
    BY <1>1, <1>2, TreeText
  <2>. HIDE DEF n
  <2>2. \A j \in 1..(n + 1) : j \in 1..n \/ j = n + 1
    BY <1>1
  <2>. QED  BY <1>1, <2>1, <2>2
<1>. HIDE DEF n, c
<1>4. Under(p, text) = Under(o, text) ++ Partly(c, text)
  <2>1. Under(p, text) = Under(o, text) ++ Partly(o[n + 1], text)
    BY ONLY <1>1, <1>3, UnderGrows
  <2>. QED  BY <1>1, <2>1
<1>5. d.kind \in Nodes /\ d.part = "condition" /\ d.parts = <<>> /\ Len(d.parts) = 0
  <2>1. Len(<<>>) = 0
    OBVIOUS
  <2>. QED  BY <2>1 DEF NodeOn
<1>6. Upto(d, text) = Word(d.kind) ++ Word(Lbrace) /\ Word(d.kind) \in Text /\ Word(Lbrace) \in Text
  <2>1. Done(d, text) = Nil
    BY <1>5, DoneNone
  <2>2. Lead(d, 1) = Word(d.kind)
    BY <1>5, BeforeIs DEF Lead
  <2>3. Word(d.kind) \in Text /\ Word(Lbrace) \in Text
    BY <1>5, WordsNeeded
  <2>4. Nil ++ Word(d.kind) = Word(d.kind)
    BY <2>3, CatText
  <2>5. Len(d.parts) + 1 = 1
    BY <1>5
  <2>. QED  BY <2>1, <2>2, <2>3, <2>4, <2>5 DEF Upto
<1>7. Amid(d)
  <2>1. 0 % 2 = 0
    OBVIOUS
  <2>. QED  BY <1>5, <2>1 DEF Amid
<1>8. c.kind \in Bodies /\ c.part # "else"
  BY DEF NodeOn, c
<1>9. ASSUME NEW r \in Text, NEW q \in Text, Told(r, q, o, <<>>, nm, text)
      PROVE  Told(r ++ Word(d.kind), q, p, DueBrace, nn, text)
  <2>. DEFINE w == Word(d.kind)
              l == Word(Lbrace)
              u == Under(o, text)
              y == Partly(c, text)
  <2>1. w \in Text /\ l \in Text /\ u \in Text /\ y \in Text
    BY <1>3, <1>6
  <2>2. Tip(r, q ++ u, c, <<>>, nm, text)
    BY <1>9 DEF Told, c
  <2>3. r = (q ++ u) ++ y
    BY <1>8, <2>2, TipAt
  <2>4. q ++ Under(p, text) = q ++ (u ++ y) /\ Upto(d, text) = w ++ l
    BY <1>4, <1>6
  <2>. HIDE DEF w, l, u, y
  <2>5. r = q ++ (u ++ y) /\ q ++ (u ++ y) \in Text
    BY <2>1, <2>3, CatText
  <2>6. (r ++ w) ++ l = r ++ (w ++ l)
    BY <2>1, CatText
  <2>7. (r ++ w) ++ l = (q ++ Under(p, text)) ++ Upto(d, text)
    BY <2>4, <2>5, <2>6
  <2>. QED  BY <1>1, <1>7, <2>7 DEF Told, Tip, w, l
<1>. QED  BY <1>9 DEF Moves
-----------------------------------------------------------------------------
(* An if or a while is complete, and a statement of the block around it.   *)
NodeOff(o) ==
    /\ Len(o) \in Nat /\ Len(o) > 1 /\ TopOf(o).kind \in Nodes /\ After(TopOf(o))
    /\ TopOf(o).parent = o[Len(o) - 1].block
Whole(c) == <<c.kind, c.parts>>

LEMMA NarrowSeq ==
    ASSUME NEW S, NEW s \in Seq(S), NEW T, \A i \in 1..Len(s) : s[i] \in T
    PROVE  s \in Seq(T)
  OBVIOUS

LEMMA UptoSame ==
    ASSUME NEW c, c.parts \in Seq(Nat), NEW text, NEW other,
           \A i \in 1..Len(c.parts) : other[c.parts[i]] = text[c.parts[i]]
    PROVE  Upto(c, other) = Upto(c, text)
  BY UptoAgrees

LEMMA NodeStatement ==
    ASSUME NEW o \in Seq(Construct), NodeOff(o), NEW t, NEW made, WellFormed(made), NEW prog,
           Tree(o, t, made, prog)
    PROVE  /\ Nobodys(TopOf(o).parent, made, prog)
           /\ IsNode(Whole(TopOf(o)), TopOf(o).parent, Len(made))
           /\ \A j \in 1..(Len(o) - 1) : ~Mentions(Whole(TopOf(o)), o[j].block)
<1>. DEFINE n == Len(o)
            c == TopOf(o)
            b == c.parent
            s == Whole(c)
<1>1. o # <<>> /\ n \in Nat /\ n > 1 /\ n = Len(o) /\ c = o[n] /\ n \in 1..n /\ n - 1 \in 1..(n - 1) /\ b = o[n - 1].block
  BY LongerThanEmpty DEF NodeOff, TopOf
<1>2. c \in Construct /\ c.kind \in Nodes /\ s[1] = c.kind /\ s[2] = c.parts /\ s = <<c.kind, c.parts>>
  BY <1>1 DEF NodeOff, Whole
<1>3. Len(made) \in Nat
  BY SequenceFacts DEF WellFormed
<1>. HIDE DEF n, c, b, s
<1>4. OwnBlock(o, n - 1, made, prog)
  BY <1>1, TreeAround
<1>5. Nobodys(b, made, prog) /\ b \in 1..Len(made)
  BY <1>1, <1>4 DEF OwnBlock, Nobodys
<1>6. c.parts \in Seq(Nat)
  BY <1>2 DEF Construct
<1>7. \A i \in 1..Len(c.parts) : c.parts[i] \in 1..Len(made) /\ c.parts[i] > b
  BY <1>1 DEF Tree, b
<1>8. IsNode(s, b, Len(made))
  <2>1. \A i \in 1..Len(c.parts) : c.parts[i] \in (b + 1)..Len(made)
    BY <1>3, <1>5, <1>7
  <2>2. c.parts \in Seq((b + 1)..Len(made))
    BY ONLY <1>6, <2>1, NarrowSeq
  <2>. QED  BY <1>2, <2>2 DEF IsNode
<1>9. ASSUME NEW j \in 1..(n - 1) PROVE ~Mentions(s, o[j].block)
  <2>1. OwnBlock(o, j, made, prog)
    BY <1>1, TreeAround
  <2>2. \A i \in 1..Len(c.parts) : c.parts[i] # o[j].block
    BY <1>1, <2>1 DEF OwnBlock
  <2>3. DOMAIN s[2] = 1..Len(c.parts)
    BY <1>2, <1>6
  <2>. QED  BY <1>2, <2>2, <2>3 DEF Mentions
<1>. QED  BY <1>1, <1>5, <1>8, <1>9 DEF c, b, s

LEMMA TreeNodeEnds ==
    ASSUME NEW o \in Seq(Construct), NodeOff(o), NEW t, NEW made, WellFormed(made), NEW prog,
           Tree(o, t, made, prog), NEW p, p = Front(o),
           NEW more, more = [made EXCEPT ![TopOf(o).parent] = Append(@, Whole(TopOf(o)))]
    PROVE  Tree(p, <<>>, more, prog) /\ p # <<>> /\ p \in Seq(Construct)
<1>. DEFINE n == Len(o) - 1
            b == TopOf(o).parent
            s == Whole(TopOf(o))
<1>1. /\ o # <<>> /\ Len(o) = n + 1 /\ n \in Nat /\ n > 0 /\ Len(p) = n /\ p \in Seq(Construct) /\ p # <<>>
      /\ \A j \in 1..n : p[j] = o[j]
  <2>1. o # <<>> /\ Len(o) \in Nat /\ Len(o) > 1
    BY LongerThanEmpty DEF NodeOff
  <2>2. Len(p) = Len(o) - 1 /\ p \in Seq(Construct) /\ \A j \in 1..(Len(o) - 1) : p[j] = o[j]
    BY <2>1, FrontFacts
  <2>. QED  BY <2>1, <2>2, LongerThanEmpty
<1>2. /\ Nobodys(b, made, prog) /\ IsNode(s, b, Len(made)) /\ \A j \in 1..n : ~Mentions(s, o[j].block)
      /\ b \in 1..Len(made)
  BY NodeStatement DEF Nobodys
<1>3. IsSeq(made) /\ more = [made EXCEPT ![b] = Append(made[b], s)]
  BY DEF WellFormed
<1>4. \A j \in 1..n : Within(o[j], Len(made)) /\ Amid(o[j]) /\ OwnBlock(o, j, made, prog)
  BY <1>1, TreeAround
<1>5. more = [made EXCEPT ![b] = Append(@, s)]
  OBVIOUS
<1>. HIDE DEF n, b, s
<1>6. Len(more) = Len(made)
  BY <1>3, UpdateFacts
<1>7. \A j \in 1..n : j \in 1..Len(o)
  BY <1>1
<1>8. ASSUME NEW j \in 1..n PROVE OwnBlock(p, j, more, prog)
  <2>1. OwnBlock(o, j, made, prog)
    BY <1>4
  <2>2. Nobodys(o[j].block, more, prog)
    <3>1. Nobodys(o[j].block, made, prog) /\ ~Mentions(s, o[j].block)
      BY <1>2, <2>1 DEF OwnBlock
    <3>. QED  BY <1>2, <1>5, <3>1, NobodysStatement
  <2>3. \A k \in 1..(j - 1) : k \in 1..n
    BY <1>1
  <2>4. \A k \in 1..n : \A i \in 1..Len(p[k].parts) : p[k].parts[i] # p[j].block
    BY <1>1, <1>7, <2>1 DEF OwnBlock
  <2>. QED  BY <1>1, <2>1, <2>2, <2>3, <2>4 DEF OwnBlock
<1>9. ASSUME NEW j \in 1..n
      PROVE  /\ p[j].kind \in (IF j = 1 THEN {"init", "function"} ELSE Nodes)
             /\ \A i \in 1..Len(p[j].parts) :
                    p[j].parts[i] \in 1..Len(more) /\ (j > 1 => p[j].parts[i] > p[j].parent)
             /\ j < n => Amid(p[j])
             /\ Fills(p, <<>>, j) => OwnBlock(p, j, more, prog)
  BY <1>1, <1>4, <1>6, <1>7, <1>8 DEF Tree
<1>. QED  BY <1>1, <1>9 DEF Tree

LEMMA MovesNodeEnds ==
    ASSUME NEW o \in Seq(Construct), NodeOff(o), NEW made, NEW prog, WellFormed(made),
           Tree(o, <<"AddNode">>, made, prog), NEW p, p = Front(o), NEW text, Tells(text, made),
           NEW b, b = TopOf(o).parent, NEW other, SameBut(text, other, Len(made), b),
           other[b] = text[b] ++ Spelled(Whole(TopOf(o)), text), NEW nm, NEW nn
    PROVE  Moves(Nil, o, <<"AddNode">>, nm, text, p, <<>>, nn, other)
<1>. DEFINE n == Len(o) - 2
            c == TopOf(o)
            e == o[n + 1]
<1>1. /\ o # <<>> /\ Len(o) = n + 2 /\ n \in Nat /\ Len(p) = n + 1 /\ TopOf(p) = e /\ n + 1 \in 1..(n + 1)
      /\ \A j \in 1..(n + 1) : p[j] = o[j]
      /\ c \in Construct /\ b = e.block /\ c.kind \in Nodes /\ After(c)
  <2>1. o # <<>> /\ Len(o) \in Nat /\ Len(o) > 1 /\ Len(o) \in 1..Len(o)
    BY LongerThanEmpty DEF NodeOff
  <2>2. Len(p) = Len(o) - 1 /\ \A j \in 1..(Len(o) - 1) : p[j] = o[j]
    BY <2>1, FrontFacts
  <2>3. n + 1 = Len(o) - 1 /\ n \in Nat /\ Len(o) = n + 2 /\ n + 1 \in 1..(n + 1)
    BY <2>1
  <2>4. b = o[Len(o) - 1].block /\ c.kind \in Nodes /\ After(c) /\ c \in Construct
    BY <2>1 DEF NodeOff, TopOf
  <2>. HIDE DEF n
  <2>. QED  BY <2>1, <2>2, <2>3, <2>4 DEF TopOf
<1>2. /\ \A j \in 1..(Len(o) - 1) : Partly(o[j], text) \in Text
      /\ Texted(c, text) /\ text[e.block] \in Text
  <2>1. n + 1 \in 1..(Len(o) - 1) /\ Len(o) \in 1..Len(o)
    BY <1>1
  <2>. HIDE DEF n
  <2>. QED  BY <1>1, <2>1, TreeText DEF TopOf
<1>. HIDE DEF n, c
<1>a. Len(o) - 1 = n + 1 /\ \A j \in 1..n : j \in 1..(n + 1)
  BY <1>1
<1>3. \A j \in 1..(n + 1) : Within(o[j], Len(made)) /\ OwnBlock(o, j, made, prog) /\ Amid(o[j])
  BY <1>1, <1>a, TreeAround
<1>4. \A j \in 1..n : Within(p[j], Len(made)) /\ Apart(p[j], b)
  <2>1. OwnBlock(o, n + 1, made, prog)
    BY <1>1, <1>3
  <2>2. ASSUME NEW j \in 1..n PROVE Apart(o[j], b)
    <3>1. Within(o[j], Len(made)) /\ Within(e, Len(made)) /\ j \in 1..(n + 1) /\ j \in 1..Len(o) /\ j \in 1..((n + 1) - 1)
      BY <1>1, <1>3, <1>a
    <3>2. o[j].block < e.block
      BY <2>1, <3>1 DEF OwnBlock
    <3>3. o[j].block # e.block
      BY <3>1, <3>2 DEF Within
    <3>4. \A i \in 1..Len(o[j].parts) : o[j].parts[i] # e.block
      BY <2>1, <3>1 DEF OwnBlock
    <3>. QED  BY <1>1, <3>3, <3>4 DEF Apart
  <2>. QED  BY <1>1, <1>3, <1>a, <2>2
<1>5. Under(p, other) = Under(p, text)
  <2>1. Len(p) - 1 = n
    BY <1>1
  <2>2. /\ \A j \in 1..(Len(p) - 1) : Within(p[j], Len(made))
        /\ \A j \in 1..(Len(p) - 1) : Apart(p[j], b)
    BY <1>4, <2>1
  <2>. QED  BY <2>2, AroundSame
<1>6. /\ Under(o, text) = Under(p, text) ++ Partly(e, text) /\ Under(p, text) \in Text
      /\ Partly(e, text) \in Text
  <2>1. \A j \in 1..(n + 1) : o[j] = p[j]
    BY <1>1
  <2>2. \A j \in 1..(n + 1) : Partly(p[j], text) \in Text
    BY <1>1, <1>2, <1>a
  <2>3. Under(o, text) = Under(p, text) ++ Partly(p[n + 1], text)
    BY ONLY <1>1, <2>1, <2>2, UnderGrows
  <2>4. \A j \in 1..(Len(p) - 1) : Partly(p[j], text) \in Text
    BY <1>1, <2>2
  <2>5. Under(p, text) \in Text
    BY <1>1, <2>4, UnderText
  <2>. QED  BY <1>1, <2>2, <2>3, <2>5
<1>7. Spelled(Whole(c), text) = Done(c, text) /\ Done(c, text) \in Text
  <2>1. c.parts \in Seq(Nat)
    BY <1>1 DEF Construct
  <2>. QED  BY <1>1, <1>2, <2>1, SpelledIsDone, PartText DEF Whole
<1>8. Upto(e, other) = Upto(e, text) /\ Upto(e, text) \in Text
  <2>1. Within(e, Len(made)) /\ OwnBlock(o, n + 1, made, prog) /\ n + 1 \in 1..Len(o)
    BY <1>1, <1>3
  <2>2. \A i \in 1..Len(e.parts) : e.parts[i] # b
    BY <1>1, <2>1 DEF OwnBlock
  <2>3. \A i \in 1..Len(e.parts) : other[e.parts[i]] = text[e.parts[i]]
    BY <2>1, <2>2 DEF Within, SameBut
  <2>4. e.parts \in Seq(Nat)
    BY <2>1 DEF Within
  <2>5. Texted(e, text)
    <3>1. WellFormed(made) /\ n + 1 \in 1..Len(o)
      BY <2>1
    <3>. QED  BY <1>1, <3>1, TreeText
  <2>6. Upto(e, text) \in Text
    BY ONLY <2>5, PartText
  <2>7. Upto(e, other) = Upto(e, text)
    BY ONLY <2>3, <2>4, UptoSame
  <2>. QED  BY <2>6, <2>7
<1>9. ASSUME NEW r \in Text, NEW q \in Text, Told(r, q, o, <<"AddNode">>, nm, text)
      PROVE  Told(r ++ Nil, q, p, <<>>, nn, other)
  <2>. DEFINE u == Under(p, text)
              y == Upto(e, text)
              k == text[b]
              z == Done(c, text)
  <2>1. u \in Text /\ y \in Text /\ k \in Text /\ z \in Text /\ Partly(e, text) = y ++ k
    BY <1>1, <1>2, <1>6, <1>7, <1>8 DEF Partly
  <2>2. Tip(r, q ++ Under(o, text), c, <<"AddNode">>, nm, text)
    BY <1>9 DEF Told, c
  <2>3. r = (q ++ Under(o, text)) ++ z
    <3>. DEFINE t == <<"AddNode">>
    <3>1. t # <<>> /\ Head(t) = "AddNode" /\ Tip(r, q ++ Under(o, text), c, t, nm, text)
      BY <2>2
    <3>. HIDE DEF t, z
    <3>2. r = (q ++ Under(o, text)) ++ Done(c, text)
      BY ONLY <3>1, TipAt
    <3>. QED  BY <3>2 DEF z
  <2>4. r = (q ++ (u ++ (y ++ k))) ++ z
    BY <1>6, <2>1, <2>3
  <2>5. Partly(e, other) = y ++ (k ++ z)
    BY <1>1, <1>7, <1>8 DEF Partly, c
  <2>6. q ++ Under(p, other) = q ++ u
    BY <1>5
  <2>. HIDE DEF u, y, k, z
  <2>7. y ++ k \in Text /\ u ++ (y ++ k) \in Text /\ q ++ u \in Text /\ r ++ Nil = r
    BY <2>1, CatText
  <2>8. r = (q ++ u) ++ (y ++ (k ++ z))
    <3>1. q ++ (u ++ (y ++ k)) = (q ++ u) ++ (y ++ k)
      BY <2>1, <2>7, CatText
    <3>2. r = (q ++ u) ++ ((y ++ k) ++ z)
      BY <2>1, <2>4, <2>7, <3>1, CatText
    <3>3. (y ++ k) ++ z = y ++ (k ++ z)
      BY <2>1, CatText
    <3>. QED  BY <3>2, <3>3
  <2>9. r ++ Nil = (q ++ Under(p, other)) ++ Partly(e, other)
    BY <2>5, <2>6, <2>7, <2>8
  <2>10. Amid(e)
    BY <1>1, <1>3
  <2>. QED  BY <1>1, <2>9, <2>10 DEF Told, Tip
<1>. QED  BY <1>9 DEF Moves
-----------------------------------------------------------------------------
(* The steps of the parser in a body.                                      *)
HeadSteps == {":", "1", FunctionPlace, "NameIt"}

LEMMA DueHeadLists ==
    /\ DueHead # <<>> /\ Head(DueHead) = ":" /\ Tail(DueHead) = <<"1", FunctionPlace, "NameIt", Lbrace, "NewBlock">>
    /\ Tail(DueHead) # <<>> /\ Head(Tail(DueHead)) = "1"
    /\ Tail(Tail(DueHead)) # <<>> /\ Head(Tail(Tail(DueHead))) = FunctionPlace
    /\ Tail(Tail(Tail(DueHead))) = DueName
    /\ DueName # <<>> /\ Head(DueName) = "NameIt" /\ Tail(DueName) = DueBrace
  BY DEF DueHead, DueName, DueBrace

LEMMA InTheBody ==
    ASSUME ParserInv, NEW text, Truthful(text), mode = "reading",
           open # <<>>, TopOf(open).kind \in Bodies, todo = <<>> \/ Head(todo) \notin HeadSteps
    PROVE  AtBody(read, todo, names, open, blocks, decl, program, text)
<1>1. Somewhere(read, todo, names, open, blocks, decl, program, text)
  BY DEF Truthful
<1>2. Len(open) \in 1..Len(open) /\ Len(open) \in Nat
  BY TopFacts
<1>3. \A k \in Sections \cup {"class", "types"} : TopOf(open).kind # k
  BY KindFacts
<1>4. ~AtFile(read, todo, open, decl, program, text)
  BY DEF AtFile
<1>5. ~AtClass(open)
  <2>. DEFINE n == Len(open)
  <2>a. n \in Nat /\ n \in 1..n
    BY <1>2
  <2>. HIDE DEF n
  <2>b. n = 1 \/ n \in 2..n
    BY <2>a
  <2>1. Len(open) = 1 \/ Len(open) \in 2..Len(open)
    BY <2>b DEF n
  <2>. QED  BY <1>3, <2>1 DEF AtClass, TopOf
<1>6. ~AtTypes(read, todo, names, open, decl, program, text)
  BY <1>3 DEF AtTypes, TopOf
<1>7. ~AtHead(read, todo, names, open, decl, program, text)
  <2>1. ASSUME NEW p, Headed(read, p, todo, names) PROVE FALSE
    <3>1. todo \in {DueHead, Tail(DueHead), Tail(Tail(DueHead)), DueName}
      BY <2>1 DEF Headed
    <3>2. todo # <<>> /\ Head(todo) \in HeadSteps
      BY <3>1, DueHeadLists DEF HeadSteps
    <3>. QED  BY <3>2
  <2>. QED  BY <2>1 DEF AtHead
<1>. QED  BY <1>1, <1>4, <1>5, <1>6, <1>7 DEF Somewhere

LEMMA TellsOn ==
    ASSUME NEW other, Reported(blocks', program', other), read' \in Text, DOMAIN decl' = DOMAIN Nothing,
           mode' = "reading", Somewhere(read', todo', names', open', blocks', decl', program', other)
    PROVE  TextInv'
<1>1. Truthful(other)'
  <2>1. mode' # "parsed"
    BY Zenon
  <2>. QED  BY <2>1 DEF Truthful
<1>. QED  BY <1>1 DEF TextInv

(* A step in a body: the words x are read, the story stays.                *)
InBodyStep(x, text, other) ==
    /\ AtBody(read, todo, names, open, blocks, decl, program, text)
    /\ Reported(blocks', program, other) /\ SameStory(program, text, other)
    /\ Plain(x) /\ read' = read ++ x /\ UNCHANGED <<decl, program>> /\ mode' = "reading"

LEMMA BodyStep ==
    ASSUME ParserInv, NEW text, Truthful(text), NEW other, NEW x, InBodyStep(x, text, other),
           Moves(x, open, todo, names, text, open', todo', names', other),
           Tree(open', todo', blocks', program), open' # <<>>, open'[1].kind = open[1].kind
    PROVE  TextInv'
<1>1. read \in Text /\ open \in Seq(Construct) /\ DOMAIN decl = DOMAIN Nothing
  BY DEF Truthful, ParserInv, Parsing
<1>2. read' \in Text
  BY <1>1, PlainText DEF InBodyStep
<1>3. AtBody(read ++ x, todo', names', open', blocks', decl, program, other)
  BY <1>1, BodyMoves DEF InBodyStep
<1>4. Somewhere(read', todo', names', open', blocks', decl', program', other)
  BY <1>3 DEF Somewhere, InBodyStep
<1>. QED  BY <1>1, <1>2, <1>4, TellsOn DEF InBodyStep

LEMMA UnderSame ==
    ASSUME NEW o, NEW q, Len(q) = Len(o), \A j \in 1..(Len(o) - 1) : q[j] = o[j], NEW text
    PROVE  Under(q, text) = Under(o, text)
<1>1. \A j \in 1..(Len(o) - 1) : Partly(q[j], text) = Partly(o[j], text)
  OBVIOUS
<1>. QED  BY <1>1, UnderAgrees

(* The innermost construct becomes d.                                      *)
LEMMA TopStep ==
    ASSUME ParserInv, NEW text, Truthful(text), NEW other, NEW x, InBodyStep(x, text, other),
           NEW d \in Construct, d.kind = TopOf(open).kind, d.parent = TopOf(open).parent,
           open' = [open EXCEPT ![Len(open)] = d],
           Under(open, other) = Under(open, text),
           TipMoves(x, TopOf(open), todo, names, text, d, todo', names', other),
           KeepsNobodys(blocks, blocks', program), TopParts(open, d, Len(blocks')),
           AtStatement(open', todo') => TopOwns(open, d, blocks', program)
    PROVE  TextInv'
<1>. DEFINE p == open'
<1>1. /\ open # <<>> /\ open \in Seq(Construct) /\ Tree(open, todo, blocks, program)
      /\ Len(blocks) \in Nat
  BY SequenceFacts DEF InBodyStep, AtBody, ParserInv, Parsing
<1>2. Len(open) \in 1..Len(open) /\ Len(open) \in Nat
  BY <1>1, LongerThanEmpty
<1>3. /\ p = [open EXCEPT ![Len(open)] = d] /\ Len(p) = Len(open) /\ TopOf(p) = d /\ p # <<>>
      /\ \A j \in 1..(Len(open) - 1) : p[j] = open[j]
      /\ p[1].kind = open[1].kind
  BY <1>1, <1>2 DEF TopOf
<1>4. Tree(p, todo', blocks', program)
  BY <1>1, <1>3, TreeTop
<1>5. Under(p, other) = Under(open, text)
  <2>1. Under(p, other) = Under(open, other)
    <3>1. Len(p) = Len(open) /\ \A j \in 1..(Len(open) - 1) : p[j] = open[j]
      BY <1>3
    <3>. HIDE DEF p
    <3>. QED  BY ONLY <3>1, UnderSame
  <2>. QED  BY <2>1
<1>6. Under(open, text) \in Text
  BY <1>1, TreeText DEF Truthful, Reported
<1>. HIDE DEF p
<1>7. Moves(x, open, todo, names, text, p, todo', names', other)
  BY <1>3, <1>5, <1>6, MovesTop
<1>. QED  BY <1>3, <1>4, <1>7, BodyStep DEF p
-----------------------------------------------------------------------------
LEMMA InnermostInBody ==
    ASSUME ParserInv, NEW text, Truthful(text),
           AtBody(read, todo, names, open, blocks, decl, program, text)
    PROVE  /\ open \in Seq(Construct) /\ open # <<>> /\ Tree(open, todo, blocks, program)
           /\ Reported(blocks, program, text) /\ WellFormed(blocks) /\ Tells(text, blocks)
           /\ Len(blocks) \in Nat /\ Len(open) \in 1..Len(open) /\ Len(open) \in Nat
           /\ Innermost = TopOf(open) /\ TopOf(open) \in Construct /\ TopOf(open).part \in Parts(TopOf(open).kind)
           /\ Texted(TopOf(open), text) /\ TopOf(open).parts \in Seq(Nat)
           /\ TopOf(open).parent \in 0..Len(blocks) /\ TopOf(open).block \in 0..Len(blocks)
           /\ Placed(open, Len(open), Len(blocks))
<1>1. /\ open # <<>> /\ Tree(open, todo, blocks, program) /\ Reported(blocks, program, text)
      /\ open \in Seq(Construct) /\ Len(blocks) \in Nat
  BY SequenceFacts DEF AtBody, Truthful, ParserInv, Parsing
<1>2. WellFormed(blocks) /\ Tells(text, blocks)
  BY <1>1 DEF Reported
<1>3. /\ Innermost = TopOf(open) /\ TopOf(open) \in Construct /\ Placed(open, Len(open), Len(blocks))
      /\ Len(open) \in 1..Len(open) /\ Len(open) \in Nat
  BY <1>1, TopFacts
<1>4. Texted(TopOf(open), text)
  BY <1>1, <1>2, <1>3, TreeText DEF TopOf
<1>5. /\ TopOf(open).part \in Parts(TopOf(open).kind)
      /\ TopOf(open).parent \in 0..Len(blocks) /\ TopOf(open).block \in 0..Len(blocks)
  BY <1>3 DEF Placed, TopOf
<1>. QED  BY <1>1, <1>2, <1>3, <1>4, <1>5 DEF Texted

LEMMA OwnInBody ==
    ASSUME ParserInv, NEW text, Truthful(text), AtStatement(open, todo),
           AtBody(read, todo, names, open, blocks, decl, program, text)
    PROVE  /\ OwnBlock(open, Len(open), blocks, program)
           /\ text[TopOf(open).block] \in Text /\ Partly(TopOf(open), text) \in Text
           /\ Nobodys(TopOf(open).block, blocks, program) /\ TopOf(open).block \in 1..Len(blocks)
<1>1. /\ open \in Seq(Construct) /\ open # <<>> /\ Tree(open, todo, blocks, program)
      /\ Tells(text, blocks) /\ Len(open) \in 1..Len(open)
  BY InnermostInBody
<1>2. OwnBlock(open, Len(open), blocks, program)
  BY <1>1 DEF Tree, Fills
<1>3. text[TopOf(open).block] \in Text /\ Partly(TopOf(open), text) \in Text
  BY <1>1, TreeText
<1>. QED  BY <1>2, <1>3 DEF OwnBlock, Nobodys, TopOf

(* What is told of the innermost construct.                                *)
LEMMA TipInBody ==
    ASSUME NEW r, NEW t, NEW nm, NEW o, NEW made, NEW d, NEW prog, NEW text,
           AtBody(r, t, nm, o, made, d, prog, text)
    PROVE  \E s, q : Tip(s, q, TopOf(o), t, nm, text)
  BY DEF AtBody, Told

LEMMA NobodysKept ==
    ASSUME NEW prog, NEW made, Len(made) \in Nat
    PROVE  KeepsNobodys(made, made, prog)
  BY DEF KeepsNobodys

LEMMA SameStoryTold ==
    ASSUME NEW prog, NEW text
    PROVE  SameStory(prog, text, text)
  BY DEF SameStory

(* A step that moves nothing but tokens and the innermost construct.       *)
LEMMA QuietStep ==
    ASSUME ParserInv, NEW text, Truthful(text), NEW x, Plain(x),
           AtBody(read, todo, names, open, blocks, decl, program, text),
           read' = read ++ x, UNCHANGED <<blocks, decl, program>>, mode' = "reading",
           NEW d \in Construct, d.kind = TopOf(open).kind, d.parent = TopOf(open).parent,
           open' = [open EXCEPT ![Len(open)] = d],
           TipMoves(x, TopOf(open), todo, names, text, d, todo', names', text),
           TopParts(open, d, Len(blocks)),
           AtStatement(open', todo') => TopOwns(open, d, blocks, program)
    PROVE  TextInv'
<1>1. Len(blocks) \in Nat /\ Reported(blocks, program, text)
  BY InnermostInBody
<1>2. InBodyStep(x, text, text)
  BY <1>1, SameStoryTold DEF InBodyStep
<1>3. KeepsNobodys(blocks, blocks', program) /\ TopParts(open, d, Len(blocks'))
  BY <1>1, NobodysKept
<1>4. AtStatement(open', todo') => TopOwns(open, d, blocks', program)
  OBVIOUS
<1>. QED  BY <1>2, <1>3, <1>4, TopStep

LEMMA TokenStep ==
    ASSUME ParserInv, NEW text, Truthful(text), NEW x, Plain(x),
           AtBody(read, todo, names, open, blocks, decl, program, text),
           read' = read ++ x, UNCHANGED <<blocks, decl, program, open>>, mode' = "reading",
           TipMoves(x, TopOf(open), todo, names, text, TopOf(open), todo', names', text),
           AtStatement(open, todo') => AtStatement(open, todo)
    PROVE  TextInv'
<1>1. /\ TopOf(open) \in Construct /\ open # <<>> /\ open \in Seq(Construct)
      /\ Tree(open, todo, blocks, program) /\ Len(open) \in 1..Len(open)
  BY InnermostInBody
<1>2. open' = [open EXCEPT ![Len(open)] = TopOf(open)]
  BY <1>1 DEF TopOf
<1>3. TopParts(open, TopOf(open), Len(blocks))
  BY <1>1, TreeTopParts
<1>4. AtStatement(open', todo') => TopOwns(open, TopOf(open), blocks, program)
  <2>1. open' = open
    OBVIOUS
  <2>. QED  BY <1>1, <2>1, TreeTopParts
<1>. QED  BY <1>1, <1>2, <1>3, <1>4, QuietStep
-----------------------------------------------------------------------------
LEMMA ReadingOn ==
    ASSUME NEW text, Truthful(text), UNCHANGED read
    PROVE  read' = read ++ Nil /\ Plain(Nil)
  BY CatText DEF Truthful, Plain

LEMMA ReadsWord ==
    ASSUME NEW text, Truthful(text), NEW w, Advance(w), w # CommaToken
    PROVE  read' = read ++ Word(w) /\ Plain(Word(w)) /\ w \in Tokens
<1>1. w \in Tokens /\ read' = Append(read, w)
  BY DEF Advance, Current
<1>2. read' = read ++ Word(w)
  BY <1>1, AppendText DEF Truthful
<1>. QED  BY <1>1, <1>2 DEF Plain

LEMMA TextNewBlock ==
    ASSUME ParserInv, NEW text, Truthful(text), NewBlock
    PROVE  TextInv'
<1>. DEFINE n == Len(blocks)
            m == n + 1
            d == [TopOf(open) EXCEPT !.block = m]
            other == [b \in 1..m |-> IF b = m THEN Nil ELSE text[b]]
<1>1. /\ mode = "reading" /\ todo # <<>> /\ Head(todo) = "NewBlock" /\ blocks' = Append(blocks, <<>>)
      /\ open' = [open EXCEPT ![Len(open)].block = Len(blocks')] /\ todo' = <<>>
      /\ UNCHANGED <<read, names, decl, program, mode>>
  BY DEF NewBlock, Doing
<1>2. open # <<>> /\ TopOf(open).kind \in Bodies /\ TopOf(open).part # "else"
  BY <1>1, Due DEF ParserInv, Finals, Awaits
<1>3. AtBody(read, todo, names, open, blocks, decl, program, text)
  <2>1. "NewBlock" \notin HeadSteps
    BY Zenon DEF HeadSteps, FunctionPlace
  <2>. QED  BY <1>1, <1>2, <2>1, InTheBody
<1>4. /\ open \in Seq(Construct) /\ open # <<>> /\ Tree(open, todo, blocks, program)
      /\ Reported(blocks, program, text) /\ n \in Nat /\ TopOf(open) \in Construct
      /\ Texted(TopOf(open), text) /\ Len(open) \in 1..Len(open) /\ Len(open) \in Nat
  BY <1>3, InnermostInBody
<1>5. todo = DueBlock
  <2>1. PICK s, q : Tip(s, q, TopOf(open), todo, names, text)
    BY <1>3, TipInBody
  <2>. QED  BY <1>1, <2>1, TipAt
<1>6. m \in Nat /\ m = n + 1 /\ n = Len(blocks)
  BY <1>4
<1>a. other = [b \in 1..m |-> IF b = m THEN Nil ELSE text[b]]
  OBVIOUS
<1>7. /\ d \in Construct /\ d.kind = TopOf(open).kind /\ d.part = TopOf(open).part /\ d.block = m
      /\ d.parent = TopOf(open).parent /\ d.parts = TopOf(open).parts
  BY <1>4, <1>6 DEF Construct
<1>8. d = [TopOf(open) EXCEPT !.block = m]
  OBVIOUS
<1>. HIDE DEF n, m, other, d
<1>9. /\ Reported(blocks', program, other) /\ SameStory(program, text, other) /\ Len(blocks') = m
      /\ \A b \in 1..n : other[b] = text[b]
      /\ other[m] = Nil
  <2>1. BlockAdded(blocks, blocks', text, other, n, m)
    BY <1>1, <1>6, <1>a DEF BlockAdded
  <2>2. BlockTold(blocks, blocks', program, text, other, n, m)
    BY <1>4, <2>1, ReportsNewBlock
  <2>. QED  BY <2>2 DEF BlockTold
<1>10. open' = [open EXCEPT ![Len(open)] = d]
  BY <1>1, <1>8, <1>9 DEF TopOf
<1>11. InBodyStep(Nil, text, other)
  BY <1>1, <1>3, <1>9, ReadingOn DEF InBodyStep
<1>b. \A j \in 1..(Len(open) - 1) : Within(open[j], n)
  BY <1>4, <1>6, TreeAround
<1>c. ASSUME NEW j \in 1..(Len(open) - 1)
      PROVE  Apart(open[j], m) /\ open[j].block < m
  <2>1. Within(open[j], n)
    BY <1>b
  <2>2. \A b \in 1..n : b # m /\ b < m
    BY <1>4, <1>6
  <2>. QED  BY <2>1, <2>2 DEF Within, Apart
<1>12. Under(open, other) = Under(open, text)
  <2>1. SameBut(text, other, n, m)
    BY <1>9 DEF SameBut
  <2>2. \A j \in 1..(Len(open) - 1) : Apart(open[j], m)
    BY <1>c
  <2>. QED  BY <1>b, <2>1, <2>2, AroundSame
<1>13. \A i \in 1..Len(d.parts) : d.parts[i] \in 1..n
  BY <1>4, <1>6, <1>7, TreeTopParts DEF TopParts
<1>14. TipMoves(Nil, TopOf(open), todo, names, text, d, todo', names', other)
  <2>1. \A i \in 1..Len(TopOf(open).parts) : other[TopOf(open).parts[i]] = text[TopOf(open).parts[i]]
    BY <1>7, <1>9, <1>13
  <2>2. other[d.block] = Nil
    BY <1>7, <1>9
  <2>. QED  BY <1>1, <1>4, <1>5, <1>7, <2>1, <2>2, TipNewBlock
<1>15. (\A b : Nobodys(b, blocks, program) => Nobodys(b, blocks', program)) /\ Nobodys(m, blocks', program)
  BY <1>1, <1>4, <1>6, NobodysNewBlock
<1>16. KeepsNobodys(blocks, blocks', program)
  BY <1>4, <1>6, <1>9, <1>15 DEF KeepsNobodys
<1>17. TopParts(open, d, Len(blocks'))
  <2>1. TopParts(open, TopOf(open), n)
    BY <1>4, <1>6, TreeTopParts
  <2>2. \A b \in 1..n : b \in 1..m
    BY <1>4, <1>6
  <2>. QED  BY <1>7, <1>9, <2>1, <2>2 DEF TopParts
<1>18. TopOwns(open, d, blocks', program)
  <2>1. \A b \in 1..n : b # m
    BY <1>4, <1>6
  <2>2. \A i \in 1..Len(d.parts) : d.parts[i] # m
    BY <1>13, <2>1
  <2>. QED  BY <1>7, <1>15, <1>c, <2>2 DEF TopOwns, Apart
<1>. QED  BY <1>7, <1>10, <1>11, <1>12, <1>14, <1>16, <1>17, <1>18, TopStep

LEMMA TextAddCommand ==
    ASSUME ParserInv, NEW text, Truthful(text), AddCommand
    PROVE  TextInv'
<1>. DEFINE c == TopOf(open)
            b == c.block
            other == [text EXCEPT ![b] = @ ++ Spelled(names, text)]
<1>1. /\ mode = "reading" /\ todo # <<>> /\ Head(todo) = "AddCommand"
      /\ blocks' = [blocks EXCEPT ![Innermost.block] = Append(@, names)]
      /\ todo' = <<>>
      /\ UNCHANGED <<read, open, decl, program, mode>>
  BY DEF AddCommand, Doing
<1>2. open # <<>> /\ c.kind \in Bodies /\ c.part # "else" /\ TopOf(todo) = "AddCommand"
  BY <1>1, Due DEF ParserInv, Finals, Awaits
<1>3. AtBody(read, todo, names, open, blocks, decl, program, text)
  <2>1. "AddCommand" \notin HeadSteps
    BY Zenon DEF HeadSteps, FunctionPlace
  <2>. QED  BY <1>1, <1>2, <2>1, InTheBody
<1>4. /\ open \in Seq(Construct) /\ Tree(open, todo, blocks, program)
      /\ Reported(blocks, program, text) /\ WellFormed(blocks) /\ c \in Construct /\ Innermost = c
      /\ Texted(c, text) /\ Len(open) \in 1..Len(open) /\ Len(open) \in Nat /\ Len(blocks) \in Nat
  BY <1>3, InnermostInBody
<1>5. AtStatement(open, todo) /\ AtStatement(open, todo')
  BY <1>1, <1>2 DEF AtStatement
<1>6. todo = <<"AddCommand">> /\ IsCommand(names)
  <2>1. PICK s, q : Tip(s, q, c, todo, names, text)
    BY <1>3, TipInBody
  <2>. QED  BY <1>1, <2>1, TipAt
<1>7. /\ OwnBlock(open, Len(open), blocks, program)
      /\ text[b] \in Text /\ Nobodys(b, blocks, program) /\ b \in 1..Len(blocks)
  BY <1>3, <1>5, OwnInBody
<1>8. blocks' = [blocks EXCEPT ![b] = Append(@, names)] /\ other = [text EXCEPT ![b] = @ ++ Spelled(names, text)]
      /\ b = c.block /\ c = TopOf(open)
  BY <1>1, <1>4
<1>. HIDE DEF c, b, other
<1>9. /\ Reported(blocks', program, other) /\ SameStory(program, text, other) /\ Len(blocks') = Len(blocks)
      /\ Spelled(names, text) \in Text /\ SameBut(text, other, Len(blocks), b)
      /\ other[b] = text[b] ++ Spelled(names, text)
  <2>1. StatementAdded(blocks, blocks', text, other, b, names)
    BY <1>6, <1>8 DEF StatementAdded
  <2>2. StatementTold(blocks, blocks', program, text, other, b, names)
    BY <1>4, <1>7, <2>1, ReportsStatement
  <2>. QED  BY <2>2 DEF StatementTold
<1>10. InBodyStep(Nil, text, other)
  BY <1>1, <1>3, <1>9, ReadingOn DEF InBodyStep
<1>11. Under(open, other) = Under(open, text)
  <2>1. \A j \in 1..(Len(open) - 1) : Within(open[j], Len(blocks))
    BY <1>2, <1>4, TreeAround
  <2>2. \A j \in 1..(Len(open) - 1) : Apart(open[j], b)
    BY <1>2, <1>4, <1>7, <1>8, TopApart
  <2>. QED  BY <1>9, <2>1, <2>2, AroundSame
<1>12. TipMoves(Nil, c, todo, names, text, c, todo', names', other)
  <2>1. \A i \in 1..Len(c.parts) : other[c.parts[i]] = text[c.parts[i]]
    <3>1. \A i \in 1..Len(c.parts) : c.parts[i] \in 1..Len(blocks) /\ c.parts[i] # b
      BY <1>2, <1>4, <1>5, <1>8, TreeTopParts DEF TopParts, TopOwns
    <3>. QED  BY <1>9, <3>1 DEF SameBut
  <2>2. Texted(c, text) /\ text[c.block] \in Text /\ Spelled(names, text) \in Text
        /\ other[c.block] = text[c.block] ++ Spelled(names, text)
    BY <1>4, <1>7, <1>8, <1>9
  <2>3. TipMoves(Nil, c, <<"AddCommand">>, names, text, c, <<>>, names', other)
    BY <2>1, <2>2, TipStatement
  <2>. QED  BY <1>1, <1>6, <2>3
<1>13. ASSUME NEW e, Nobodys(e, blocks, program) PROVE Nobodys(e, blocks', program)
  <2>1. ~Mentions(names, e)
    BY <1>6, NotBoth DEF IsCommand, Mentions
  <2>. QED  BY <1>4, <1>7, <1>8, <1>13, <2>1, NobodysStatement
<1>14. KeepsNobodys(blocks, blocks', program)
  BY <1>4, <1>9, <1>13 DEF KeepsNobodys
<1>15. TopParts(open, c, Len(blocks')) /\ TopOwns(open, c, blocks', program)
  <2>1. TopParts(open, c, Len(blocks)) /\ TopOwns(open, c, blocks, program)
    BY <1>2, <1>4, <1>5, <1>8, TreeTopParts
  <2>. QED  BY <1>9, <1>13, <2>1 DEF TopOwns
<1>16. open' = [open EXCEPT ![Len(open)] = c]
  BY <1>1, <1>4, <1>8 DEF TopOf
<1>. QED  BY <1>4, <1>8, <1>10, <1>11, <1>12, <1>14, <1>15, <1>16, TopStep

LEMMA TextCommand ==
    ASSUME ParserInv, NEW text, Truthful(text), Command
    PROVE  TextInv'
<1>1. /\ InBody /\ mode = "reading" /\ UNCHANGED <<open, blocks, decl, program, mode>>
  BY DEF Command, InBody, Idle
<1>2. PICK w \in Commands :
          /\ Advance(w) /\ names' = <<w>>
          /\ todo' = (IF Operand[w] = "none" THEN <<>> ELSE <<Operand[w]>>) \o <<"AddCommand">>
  BY DEF Command
<1>3. open # <<>> /\ todo = <<>> /\ TopOf(open).kind \in Bodies /\ TopOf(open).part # "else"
  BY <1>1, BodyFacts
<1>4. AtBody(read, todo, names, open, blocks, decl, program, text)
  BY <1>1, <1>3, InTheBody
<1>5. read' = read ++ Word(w) /\ Plain(Word(w))
  <2>1. w # CommaToken
    BY WordFacts DEF Words
  <2>. QED  BY <1>2, <2>1, ReadsWord
<1>6. TipMoves(Word(w), TopOf(open), todo, names, text, TopOf(open), todo', names', text)
  BY <1>2, <1>3, TipCommand
<1>7. AtStatement(open, todo)
  BY <1>3 DEF AtStatement
<1>8. mode' = "reading"
  BY <1>1
<1>. QED  BY <1>1, <1>4, <1>5, <1>6, <1>7, <1>8, TokenStep
-----------------------------------------------------------------------------
(* The blocks of an if and a while end, and the statement ends with them.  *)
LEMMA NewPart ==
    ASSUME NEW o \in Seq(Construct), o # <<>>, NEW made, Len(made) \in Nat, NEW prog, NEW t,
           Tree(o, t, made, prog), OwnBlock(o, Len(o), made, prog), Placed(o, Len(o), Len(made)),
           NEW d, EndsBlock(TopOf(o), d), d.parent = TopOf(o).parent
    PROVE  TopParts(o, d, Len(made))
<1>. DEFINE n == Len(o)
            c == TopOf(o)
            b == c.block
            k == Len(c.parts)
<1>1. n \in 1..n /\ n \in Nat /\ c = o[n] /\ n = Len(o) /\ b = o[n].block
  BY LongerThanEmpty DEF TopOf
<1>2. c.parts \in Seq(Nat) /\ b \in Nat /\ d.parts = Append(c.parts, b)
  BY DEF EndsBlock
<1>3. Len(d.parts) = k + 1 /\ k \in Nat /\ d.parts[k + 1] = b /\ \A i \in 1..k : d.parts[i] = c.parts[i]
  BY <1>2, AppendFacts
<1>4. TopParts(o, c, Len(made))
  BY TreeTopParts
<1>. HIDE DEF n, c, b, k
<1>5. \A j \in 1..(n - 1) : o[j].block < b
  BY <1>1 DEF OwnBlock
<1>6. b \in 1..Len(made)
  BY <1>1 DEF OwnBlock, Nobodys
<1>7. ASSUME n > 1 PROVE b > d.parent
  <2>1. o[n].kind \in Nodes
    BY <1>1, <1>7 DEF Tree
  <2>2. o[n].parent = o[n - 1].block
    BY <1>1, <2>1 DEF Placed
  <2>3. n - 1 \in 1..(n - 1)
    BY <1>1, <1>7
  <2>4. o[n - 1].block < b /\ o[n - 1] \in Construct
    <3>1. n - 1 \in 1..n
      BY <1>1, <1>7
    <3>. QED  BY <1>1, <1>5, <2>3, <3>1
  <2>5. d.parent = o[n - 1].block /\ o[n - 1].block \in Nat
    BY <1>1, <2>2, <2>4 DEF Construct, c
  <2>. QED  BY <1>2, <2>4, <2>5
<1>8. \A j \in 1..(n - 1) : b # o[j].block
  BY <1>2, <1>5
<1>9. ASSUME NEW i \in 1..Len(d.parts)
      PROVE  /\ d.parts[i] \in 1..Len(made) /\ (n > 1 => d.parts[i] > d.parent)
             /\ \A j \in 1..(n - 1) : d.parts[i] # o[j].block
  <2>1. CASE i \in 1..k
    <3>1. c.parts[i] \in 1..Len(made) /\ (n > 1 => c.parts[i] > c.parent)
          /\ \A j \in 1..(n - 1) : c.parts[i] # o[j].block
      BY <1>1, <1>4, <2>1 DEF TopParts, k
    <3>. QED  BY <1>3, <2>1, <3>1 DEF c
  <2>2. CASE i = k + 1
    BY <1>3, <1>6, <1>7, <1>8, <2>2
  <2>. QED  BY <1>3, <2>1, <2>2
<1>. QED  BY <1>1, <1>9 DEF TopParts

LEMMA TextEndOfBlock ==
    ASSUME ParserInv, NEW text, Truthful(text), EndOfBlock
    PROVE  TextInv'
<1>. DEFINE c == TopOf(open)
            d == [c EXCEPT !.parts = Append(@, c.block), !.part = IF @ = "condition" THEN "body" ELSE @]
<1>1. /\ InBody /\ mode = "reading" /\ todo' = AfterBlock(Innermost) /\ UNCHANGED <<names, blocks, decl, program, mode>>
      /\ open' = [open EXCEPT ![Len(open)].parts = Append(@, Innermost.block),
                              ![Len(open)].part = IF @ = "condition" THEN "body" ELSE @]
      /\ Advance(Rbrace)
  BY Zenon DEF EndOfBlock, InBody, Idle, Rbrace
<1>2. open # <<>> /\ todo = <<>> /\ c.kind \in Bodies /\ c.part # "else"
  BY <1>1, BodyFacts
<1>3. AtBody(read, todo, names, open, blocks, decl, program, text)
  BY <1>1, <1>2, InTheBody
<1>4. /\ open \in Seq(Construct) /\ Tree(open, todo, blocks, program) /\ Len(blocks) \in Nat
      /\ Innermost = c /\ c \in Construct /\ c.part \in Parts(c.kind) /\ Texted(c, text) /\ c.parts \in Seq(Nat)
      /\ Len(open) \in 1..Len(open) /\ Placed(open, Len(open), Len(blocks))
  BY <1>3, InnermostInBody
<1>5. OwnBlock(open, Len(open), blocks, program) /\ text[c.block] \in Text
  <2>1. AtStatement(open, todo)
    BY <1>2 DEF AtStatement
  <2>. QED  BY <1>3, <2>1, OwnInBody
<1>6. /\ d \in Construct /\ d.kind = c.kind /\ d.block = c.block /\ d.parent = c.parent
      /\ d.parts = Append(c.parts, c.block) /\ d.part = IF c.part = "condition" THEN "body" ELSE c.part
      /\ c.block \in Nat
  <2>1. c.parts \in Seq(Nat) /\ c.block \in Nat
    BY <1>4 DEF Construct
  <2>2. Append(c.parts, c.block) \in Seq(Nat)
    BY <2>1
  <2>. QED  BY <1>4, <2>1, <2>2 DEF Construct
<1>7. open' = [open EXCEPT ![Len(open)] = d]
  BY <1>1, <1>4 DEF TopOf
<1>8. c = TopOf(open)
  OBVIOUS
<1>. HIDE DEF c, d
<1>9. EndsBlock(c, d)
  BY <1>4, <1>6 DEF EndsBlock
<1>10. read' = read ++ Word(Rbrace) /\ Plain(Word(Rbrace))
  BY <1>1, ReadsWord, BracesDiffer
<1>11. TipMoves(Word(Rbrace), c, todo, names, text, d, todo', names', text)
  <2>1. TipMoves(Word(Rbrace), c, <<>>, names, text, d, AfterBlock(c), names, text)
    BY <1>2, <1>4, <1>5, <1>9, TipEndOfBlock
  <2>. QED  BY <1>1, <1>2, <1>4, <2>1
<1>12. TopParts(open, d, Len(blocks))
  BY <1>2, <1>4, <1>5, <1>6, <1>8, <1>9, NewPart
<1>13. ~AtStatement(open', todo')
  <2>1. \E last : Ends(AfterBlock(c), last) /\ last # "AddCommand"
    BY <1>2, <1>4, AfterBlockFacts
  <2>. QED  BY <1>1, <1>4, <2>1, DueEnds
<1>14. mode' = "reading"
  BY <1>1
<1>. QED  BY <1>1, <1>3, <1>6, <1>7, <1>8, <1>10, <1>11, <1>12, <1>13, <1>14, QuietStep

LEMMA TextElse ==
    ASSUME ParserInv, NEW text, Truthful(text), Else
    PROVE  TextInv'
<1>. DEFINE c == TopOf(open)
            d == [c EXCEPT !.part = "else"]
<1>1. /\ mode = "reading" /\ todo # <<>> /\ Head(todo) = "Else" /\ UNCHANGED <<names, blocks, decl, program, mode>>
      /\ \/ Advance("else") /\ open' = [open EXCEPT ![Len(open)].part = "else"] /\ todo' = <<>>
         \/ todo' = <<"AddNode">> /\ UNCHANGED <<read, open>>
  BY DEF Else, Doing
<1>2. open # <<>> /\ c.kind = "if" /\ c.kind \in Bodies
  BY <1>1, Due DEF ParserInv, Finals, Awaits, Bodies
<1>3. AtBody(read, todo, names, open, blocks, decl, program, text)
  <2>1. "Else" \notin HeadSteps
    BY Zenon DEF HeadSteps, FunctionPlace
  <2>. QED  BY <1>1, <1>2, <2>1, InTheBody
<1>4. /\ open \in Seq(Construct) /\ Tree(open, todo, blocks, program) /\ Len(blocks) \in Nat
      /\ c \in Construct /\ Texted(c, text) /\ Len(open) \in 1..Len(open)
  BY <1>3, InnermostInBody
<1>5. todo = <<"Else">>
  <2>1. PICK s, q : Tip(s, q, c, todo, names, text)
    BY <1>3, TipInBody
  <2>. QED  BY <1>1, <2>1, TipAt
<1>6. /\ d \in Construct /\ d.kind = c.kind /\ d.parent = c.parent /\ d.parts = c.parts /\ d.part = "else"
  BY <1>4 DEF Construct
<1>7. TopParts(open, c, Len(blocks))
  BY <1>2, <1>4, TreeTopParts
<1>8. mode' = "reading" /\ c = TopOf(open)
  BY <1>1
<1>9. [open EXCEPT ![Len(open)].part = "else"] = [open EXCEPT ![Len(open)] = d]
  BY <1>4 DEF TopOf
<1>. HIDE DEF c, d
<1>10. TopParts(open, d, Len(blocks))
  BY <1>6, <1>7 DEF TopParts
<1>11. CASE Advance("else") /\ open' = [open EXCEPT ![Len(open)].part = "else"] /\ todo' = <<>>
  <2>1. read' = read ++ Word("else") /\ Plain(Word("else"))
    <3>1. "else" # CommaToken
      BY WordFacts DEF Words
    <3>. QED  BY <1>11, <3>1, ReadsWord
  <2>2. TipMoves(Word("else"), c, todo, names, text, d, todo', names', text)
    BY <1>1, <1>2, <1>4, <1>5, <1>6, <1>11, TipElse
  <2>3. open' = [open EXCEPT ![Len(open)] = d]
    BY <1>9, <1>11
  <2>4. ~AtStatement(open', todo')
    <3>1. TopOf(open') = d
      BY <1>4, <2>3 DEF TopOf
    <3>. QED  BY <1>6, <3>1 DEF AtStatement
  <2>. QED  BY <1>1, <1>3, <1>6, <1>8, <1>10, <2>1, <2>2, <2>3, <2>4, QuietStep
<1>12. CASE todo' = <<"AddNode">> /\ UNCHANGED <<read, open>>
  <2>1. read' = read ++ Nil /\ Plain(Nil)
    BY <1>12, ReadingOn
  <2>2. TipMoves(Nil, c, todo, names, text, c, todo', names', text)
    BY <1>1, <1>2, <1>4, <1>5, <1>6, <1>12, TipElse
  <2>3. ~AtStatement(open, todo')
    BY <1>12, DueEnds DEF Finals
  <2>. QED  BY <1>1, <1>3, <1>8, <1>12, <2>1, <2>2, <2>3, TokenStep
<1>. QED  BY <1>1, <1>11, <1>12

LEMMA TextElseBranch ==
    ASSUME ParserInv, NEW text, Truthful(text), ElseBranch
    PROVE  TextInv'
<1>. DEFINE c == TopOf(open)
<1>1. /\ mode = "reading" /\ todo = <<>> /\ Inside = "if" /\ Innermost.part = "else"
      /\ UNCHANGED <<names, blocks, decl, program, mode>>
      /\ \/ Advance("if") /\ open' = [open EXCEPT ![Len(open)].part = "condition"] /\ todo' = DueBrace
         \/ Advance(Lbrace) /\ open' = [open EXCEPT ![Len(open)].part = "last"] /\ todo' = DueBlock
  BY Zenon DEF ElseBranch, Idle, DueBrace, DueBlock, Lbrace
<1>2. open # <<>> /\ c.kind = "if" /\ c.part = "else" /\ c.kind \in Bodies
  <2>1. open # <<>>
    BY <1>1, KindFacts DEF Inside
  <2>. QED  BY <1>1, <2>1, TopFacts DEF Inside, Bodies
<1>3. AtBody(read, todo, names, open, blocks, decl, program, text)
  BY <1>1, <1>2, InTheBody
<1>4. /\ open \in Seq(Construct) /\ Tree(open, todo, blocks, program) /\ Len(blocks) \in Nat
      /\ c \in Construct /\ Texted(c, text) /\ Len(open) \in 1..Len(open)
  BY <1>3, InnermostInBody
<1>5. TopParts(open, c, Len(blocks))
  BY <1>2, <1>4, TreeTopParts
<1>6. mode' = "reading" /\ c = TopOf(open)
  BY <1>1
<1>7. PICK w \in {"if", Lbrace}, k \in {"condition", "last"} :
          /\ Advance(w) /\ open' = [open EXCEPT ![Len(open)].part = k]
          /\ w = "if" => k = "condition" /\ todo' = DueBrace
          /\ w # "if" => k = "last" /\ todo' = DueBlock
  <2>1. "if" # Lbrace
    BY WordFacts DEF Words
  <2>. QED  BY <1>1, <2>1
<1>. DEFINE d == [c EXCEPT !.part = k]
<1>8. /\ d \in Construct /\ d.kind = c.kind /\ d.parent = c.parent /\ d.parts = c.parts /\ d.part = k
  BY <1>4 DEF Construct
<1>9. open' = [open EXCEPT ![Len(open)] = d]
  BY <1>4, <1>7 DEF TopOf
<1>. HIDE DEF c, d
<1>10. TopParts(open, d, Len(blocks))
  BY <1>5, <1>8 DEF TopParts
<1>11. read' = read ++ Word(w) /\ Plain(Word(w))
  <2>1. "if" # CommaToken /\ Lbrace # CommaToken
    BY WordFacts, BracesDiffer DEF Words
  <2>. QED  BY <1>7, <2>1, ReadsWord
<1>12. TipMoves(Word(w), c, todo, names, text, d, todo', names', text)
  <2>1. CASE w = "if"
    BY <1>1, <1>2, <1>4, <1>7, <1>8, <2>1, TipElseBranch
  <2>2. CASE w # "if"
    BY <1>1, <1>2, <1>4, <1>7, <1>8, <2>2, TipElseBranch
  <2>. QED  BY <2>1, <2>2
<1>13. ~AtStatement(open', todo')
  BY <1>7, DueEnds
<1>. QED  BY <1>1, <1>3, <1>6, <1>8, <1>9, <1>10, <1>11, <1>12, <1>13, QuietStep
-----------------------------------------------------------------------------
LEMMA TextBeginNode ==
    ASSUME ParserInv, NEW text, Truthful(text), BeginNode
    PROVE  TextInv'
<1>1. InBody /\ mode = "reading" /\ todo' = DueBrace /\ UNCHANGED <<names, blocks, decl, program, mode>>
  BY Zenon DEF BeginNode, InBody, Idle, DueBrace, Lbrace
<1>2. PICK k \in Nodes : Advance(k) /\ open' = Append(open, [Opened(k) EXCEPT !.part = "condition"])
  BY DEF BeginNode, Nodes
<1>3. open # <<>> /\ todo = <<>> /\ TopOf(open).kind \in Bodies /\ TopOf(open).part # "else"
  BY <1>1, BodyFacts
<1>4. AtBody(read, todo, names, open, blocks, decl, program, text)
  BY <1>1, <1>3, InTheBody
<1>5. /\ open \in Seq(Construct) /\ Tree(open, todo, blocks, program) /\ Tells(text, blocks)
      /\ Reported(blocks, program, text) /\ Len(open) \in 1..Len(open) /\ Len(open) \in Nat
  BY <1>4, InnermostInBody
<1>6. Amid(TopOf(open))
  <2>1. PICK s, q : Tip(s, q, TopOf(open), todo, names, text)
    BY <1>4, TipInBody
  <2>. QED  BY <1>3, <2>1, TipAt
<1>. DEFINE d == [Opened(k) EXCEPT !.part = "condition"]
<1>7. d \in Construct /\ d.kind = k /\ d.part = "condition" /\ d.parts = <<>>
  <2>1. Opened(k) \in Construct /\ Opened(k).kind = k /\ Opened(k).parts = <<>>
    BY OpenedFacts DEF Kinds, Opened
  <2>. QED  BY <2>1 DEF Construct
<1>8. open' = Append(open, d)
  BY <1>2
<1>. HIDE DEF d
<1>9. NodeOn(open, d)
  BY <1>3, <1>6, <1>7 DEF NodeOn
<1>10. Tree(open, <<>>, blocks, program)
  BY <1>3, <1>5
<1>11. Tree(open', todo', blocks', program)
  <2>1. Tree(open', DueBrace, blocks, program)
    BY <1>5, <1>8, <1>9, <1>10, TreeNode
  <2>. QED  BY <1>1, <2>1
<1>12. Moves(Word(k), open, todo, names, text, open', todo', names', text)
  <2>1. Moves(Word(d.kind), open, <<>>, names, text, open', DueBrace, names', text)
    BY <1>5, <1>8, <1>9, <1>10, MovesNode
  <2>. QED  BY <1>1, <1>3, <1>7, <2>1
<1>13. read' = read ++ Word(k) /\ Plain(Word(k))
  <2>1. k # CommaToken
    BY WordFacts DEF Words, Nodes
  <2>. QED  BY <1>2, <2>1, ReadsWord
<1>14. InBodyStep(Word(k), text, text)
  BY <1>1, <1>4, <1>5, <1>13, SameStoryTold DEF InBodyStep
<1>15. open' # <<>> /\ open'[1].kind = open[1].kind
  <2>1. Len(open') = Len(open) + 1 /\ open'[1] = open[1] /\ open' \in Seq(Construct)
    BY <1>5, <1>7, <1>8, AppendFacts
  <2>. QED  BY <1>5, <2>1, LongerThanEmpty
<1>. QED  BY <1>11, <1>12, <1>14, <1>15, BodyStep

LEMMA TextAddNode ==
    ASSUME ParserInv, NEW text, Truthful(text), AddNode
    PROVE  TextInv'
<1>. DEFINE c == TopOf(open)
            b == c.parent
            s == Whole(c)
            other == [text EXCEPT ![b] = @ ++ Spelled(s, text)]
<1>1. /\ mode = "reading" /\ todo # <<>> /\ Head(todo) = "AddNode"
      /\ blocks' = [blocks EXCEPT ![Innermost.parent] = Append(@, <<Innermost.kind, Innermost.parts>>)]
      /\ open' = Front(open) /\ todo' = <<>> /\ UNCHANGED <<read, names, decl, program, mode>>
  BY DEF AddNode, Doing, Close
<1>2. open # <<>> /\ c.kind \in Nodes /\ c.kind \in Bodies
  BY <1>1, Due, KindFacts DEF ParserInv, Finals, Awaits
<1>3. AtBody(read, todo, names, open, blocks, decl, program, text)
  <2>1. "AddNode" \notin HeadSteps
    BY Zenon DEF HeadSteps, FunctionPlace
  <2>. QED  BY <1>1, <1>2, <2>1, InTheBody
<1>4. /\ open \in Seq(Construct) /\ Tree(open, todo, blocks, program) /\ Len(blocks) \in Nat
      /\ Reported(blocks, program, text) /\ WellFormed(blocks) /\ Tells(text, blocks)
      /\ Innermost = c /\ c \in Construct /\ Len(open) \in 1..Len(open) /\ Len(open) \in Nat
      /\ Placed(open, Len(open), Len(blocks))
  BY <1>3, InnermostInBody
<1>5. todo = <<"AddNode">> /\ After(c)
  <2>1. PICK r, q : Tip(r, q, c, todo, names, text)
    BY <1>3, TipInBody
  <2>. QED  BY <1>1, <2>1, TipAt
<1>6. NodeOff(open)
  <2>1. Len(open) > 1 /\ c.parent = open[Len(open) - 1].block
    BY <1>2, <1>4 DEF Placed, TopOf
  <2>. QED  BY <1>2, <1>4, <1>5, <2>1 DEF NodeOff
<1>7. Nobodys(b, blocks, program) /\ IsNode(s, b, Len(blocks))
  BY <1>4, <1>6, NodeStatement
<1>8. StatementAdded(blocks, blocks', text, other, b, s)
  <2>1. blocks' = [blocks EXCEPT ![b] = Append(@, s)]
    BY <1>1, <1>4 DEF Whole
  <2>. QED  BY <1>7, <2>1 DEF StatementAdded
<1>9. StatementTold(blocks, blocks', program, text, other, b, s)
  BY <1>4, <1>7, <1>8, ReportsStatement
<1>10. /\ b = TopOf(open).parent /\ s = Whole(TopOf(open))
  OBVIOUS
<1>. HIDE DEF c, b, s, other
<1>11. /\ Reported(blocks', program, other) /\ SameStory(program, text, other)
       /\ SameBut(text, other, Len(blocks), b) /\ other[b] = text[b] ++ Spelled(s, text)
  BY <1>9 DEF StatementTold
<1>12. InBodyStep(Nil, text, other)
  BY <1>1, <1>3, <1>11, ReadingOn DEF InBodyStep
<1>13. Tree(open', todo', blocks', program) /\ open' # <<>> /\ open' \in Seq(Construct)
  <2>1. blocks' = [blocks EXCEPT ![TopOf(open).parent] = Append(@, Whole(TopOf(open)))]
    BY <1>8, <1>10 DEF StatementAdded
  <2>. QED  BY <1>1, <1>4, <1>6, <2>1, TreeNodeEnds
<1>14. Moves(Nil, open, todo, names, text, open', todo', names', other)
  <2>1. Tree(open, <<"AddNode">>, blocks, program)
    BY <1>4, <1>5
  <2>2. Moves(Nil, open, <<"AddNode">>, names, text, open', <<>>, names', other)
    BY <1>1, <1>4, <1>6, <1>10, <1>11, <2>1, MovesNodeEnds
  <2>. QED  BY <1>1, <1>5, <2>2
<1>15. open'[1].kind = open[1].kind
  <2>1. Len(open') = Len(open) - 1 /\ \A i \in 1..(Len(open) - 1) : open'[i] = open[i]
    BY <1>1, <1>2, <1>4, FrontFacts
  <2>2. 1 \in 1..(Len(open) - 1)
    BY <1>4, <1>6 DEF NodeOff
  <2>. QED  BY <2>1, <2>2
<1>. QED  BY <1>12, <1>13, <1>14, <1>15, BodyStep
-----------------------------------------------------------------------------
LEMMA StepsAreNoTokens == \A s \in Steps : ~IsToken(s)
<1>1. \A s \in Steps : s \notin DOMAIN Names
  BY PlacesAssumption
<1>2. \A s \in Steps : s \notin Keywords /\ s \notin Puncts /\ s # "1"
  BY Zenon DEF Steps, Keywords, Puncts
<1>. QED  BY <1>1, <1>2 DEF IsToken

LEMMA TipHeads ==
    ASSUME NEW r, NEW p, NEW c, NEW t, NEW nm, NEW text, Tip(r, p, c, t, nm, text), t # <<>>, IsToken(Head(t))
    PROVE  Head(t) \in {Lbrace, "then", "1"} \cup DOMAIN Names
<1>1. \/ t \in {DueBlock, DueBrace, DueThen, <<"AddCommand">>}
      \/ t \in {<<s>> : s \in {"Else", "AddNode", "AddFunction", "SetInitStatic"}}
      \/ nm[1] \in Commands /\ Operand[nm[1]] # "none" /\ t = <<Operand[nm[1]], "AddCommand">>
  BY DEF Tip
<1>2. {"NewBlock", "AddCommand", "Else", "AddNode", "AddFunction", "SetInitStatic"} \subseteq Steps
  BY DEF Steps
<1>3. CASE t \in {DueBlock, DueBrace, DueThen, <<"AddCommand">>}
  <2>1. Head(t) \in {Lbrace, "then", "NewBlock", "AddCommand"}
    BY <1>3, DueLists
  <2>. QED  BY <1>2, <2>1, StepsAreNoTokens
<1>4. CASE t \in {<<s>> : s \in {"Else", "AddNode", "AddFunction", "SetInitStatic"}}
  <2>1. Head(t) \in {"Else", "AddNode", "AddFunction", "SetInitStatic"}
    BY <1>4, DueLists
  <2>. QED  BY <1>2, <2>1, StepsAreNoTokens
<1>5. CASE nm[1] \in Commands /\ Operand[nm[1]] # "none" /\ t = <<Operand[nm[1]], "AddCommand">>
  <2>1. Head(t) = Operand[nm[1]]
    BY <1>5, DueLists
  <2>2. Operand[nm[1]] \in DOMAIN Names \cup {"1"}
    BY <1>5, OperandFacts
  <2>. QED  BY <2>1, <2>2
<1>. QED  BY <1>1, <1>3, <1>4, <1>5

LEMMA ExpectFacts ==
    ASSUME Expect
    PROVE  /\ mode = "reading" /\ mode' = "reading" /\ todo # <<>> /\ IsToken(Head(todo)) /\ todo' = Tail(todo)
           /\ UNCHANGED <<open, blocks, decl, program>>
           /\ \E w \in Tokens : /\ Matches(w, Head(todo)) /\ Advance(w)
                                /\ names' = IF w \in Idents THEN Append(names, w) ELSE names
  BY DEF Expect

LEMMA TokenMatches ==
    /\ \A w, e : e \notin DOMAIN Names /\ Matches(w, e) => w = e
    /\ \A w, e : e \in DOMAIN Names /\ Matches(w, e) => w \in Idents /\ w # CommaToken /\ w # "1"
    /\ \A e \in DOMAIN Names : e # Lbrace /\ e # CommaToken /\ e \notin {"then", "1", ":", "("}
    /\ Lbrace \notin Idents /\ "then" \notin Idents /\ "1" \notin Idents /\ ":" \notin Idents /\ "(" \notin Idents
<1>1. Idents \cap (Keywords \cup Puncts \cup {"1"}) = {} /\ DOMAIN Names \cap (Keywords \cup Puncts \cup {"1"}) = {}
  BY VocabularyAssumption
<1>2. {Lbrace, CommaToken, "then", "1", ":", "("} \subseteq Keywords \cup Puncts \cup {"1"}
  BY Zenon DEF Keywords, Puncts, Lbrace, CommaToken
<1>3. \A w, e : e \in DOMAIN Names /\ Matches(w, e) => w \in Idents
  BY DEF Matches, Idents
<1>4. \A w, e : e \notin DOMAIN Names /\ Matches(w, e) => w = e
  BY DEF Matches
<1>. QED  BY <1>1, <1>2, <1>3, <1>4

LEMMA TextExpectInBody ==
    ASSUME ParserInv, NEW text, Truthful(text), Expect,
           AtBody(read, todo, names, open, blocks, decl, program, text)
    PROVE  TextInv'
<1>1. /\ mode' = "reading" /\ todo # <<>> /\ IsToken(Head(todo)) /\ todo' = Tail(todo)
      /\ UNCHANGED <<open, blocks, decl, program>>
  BY ExpectFacts
<1>2. PICK w \in Tokens : /\ Matches(w, Head(todo)) /\ Advance(w)
                          /\ names' = IF w \in Idents THEN Append(names, w) ELSE names
  BY ExpectFacts
<1>. DEFINE c == TopOf(open)
<1>3. PICK s, q : Tip(s, q, c, todo, names, text)
  BY TipInBody
<1>4. /\ open \in Seq(Construct) /\ open # <<>> /\ Tree(open, todo, blocks, program) /\ Tells(text, blocks)
      /\ Texted(c, text)
  BY InnermostInBody
<1>. HIDE DEF c
<1>5. Head(todo) \in {Lbrace, "then", "1"} \cup DOMAIN Names
  BY <1>1, <1>3, TipHeads
<1>6. CASE Head(todo) = Lbrace
  <2>a. todo = DueBrace
    BY <1>1, <1>3, <1>6, TipAt
  <2>1. todo = DueBrace /\ todo' = DueBlock
    BY <1>1, <2>a, DueLists
  <2>2. w = Lbrace /\ names' = names
    BY <1>2, <1>6, TokenMatches, LbraceIsNoStep
  <2>3. read' = read ++ Word(Lbrace) /\ Plain(Word(Lbrace))
    BY <1>2, <2>2, BracesDiffer, ReadsWord
  <2>4. TipMoves(Word(Lbrace), c, todo, names, text, c, todo', names', text)
    BY <2>1, <2>2, TipBrace
  <2>5. ~AtStatement(open, todo')
    BY <2>1, DueEnds
  <2>. QED  BY <1>1, <2>3, <2>4, <2>5, TokenStep DEF c
<1>7. CASE Head(todo) = "then"
  <2>1. todo = DueThen /\ todo' = DueBrace
    BY <1>1, <1>3, <1>7, TipAt, DueLists
  <2>2. w = "then" /\ names' = names
    BY <1>2, <1>7, TokenMatches
  <2>3. read' = read ++ Word("then") /\ Plain(Word("then"))
    <3>1. "then" # CommaToken
      BY WordFacts DEF Words
    <3>. QED  BY <1>2, <2>2, <3>1, ReadsWord
  <2>4. TipMoves(Word("then"), c, todo, names, text, c, todo', names', text)
    BY <2>1, <2>2, TipThen
  <2>5. ~AtStatement(open, todo')
    BY <2>1, DueEnds
  <2>. QED  BY <1>1, <2>3, <2>4, <2>5, TokenStep DEF c
<1>8. CASE Head(todo) \in DOMAIN Names \cup {"1"}
  <2>. DEFINE e == Head(todo)
  <2>a. todo = <<Operand[names[1]], "AddCommand">>
    BY <1>1, <1>3, <1>8, TipAt
  <2>b. Head(todo) = Operand[names[1]] /\ Tail(todo) = <<"AddCommand">>
    BY <2>a, DueLists
  <2>1. todo = <<e, "AddCommand">> /\ todo' = <<"AddCommand">>
    BY <1>1, <2>a, <2>b
  <2>2. w # CommaToken
    <3>1. "1" # CommaToken
      BY WordFacts DEF Words
    <3>. QED  BY <1>2, <1>8, <3>1, TokenMatches
  <2>3. read' = read ++ Word(w) /\ Plain(Word(w))
    BY <1>2, <2>2, ReadsWord
  <2>4. AtStatement(open, todo)
    <3>1. c.kind \in Bodies /\ c.part # "else"
      <4>1. Len(todo) = 2 /\ todo[2] = "AddCommand"
        BY <2>1
      <4>2. Agenda(open, todo)
        BY DEF ParserInv, Parsing
      <4>3. Awaits(c, "AddCommand")
        BY <1>1, <4>1, <4>2 DEF Agenda, TopOf, c
      <4>. QED  BY <4>3 DEF Awaits
    <3>2. TopOf(todo) = "AddCommand"
      <4>1. Len(todo) = 2 /\ todo[2] = "AddCommand"
        BY <2>1
      <4>. QED  BY <4>1 DEF TopOf
    <3>. QED  BY <1>4, <3>1, <3>2 DEF AtStatement, c
  <2>5. Partly(c, text) \in Text
    BY <2>4, OwnInBody DEF c
  <2>6. TipMoves(Word(w), c, todo, names, text, c, todo', names', text)
    <3>1. e \in DOMAIN Names \cup {"1"} /\ Matches(w, e)
      BY <1>2, <1>8
    <3>. HIDE DEF e
    <3>. QED  BY <1>2, <2>1, <2>5, <3>1, TipOperand
  <2>. QED  BY <1>1, <2>3, <2>4, <2>6, TokenStep DEF c
<1>. QED  BY <1>5, <1>6, <1>7, <1>8
-----------------------------------------------------------------------------
(* A declaration is complete.                                              *)
NoName == ""

LEMMA NothingFacts ==
    /\ DOMAIN Nothing = {"pure", "types", "nojit", "from", "name", "methods", "fields", "interfaces", "destructor"}
    /\ Nothing.pure = FALSE /\ Nothing.nojit = FALSE /\ Nothing.types = <<>>
<1>1. Nothing = [pure |-> FALSE, types |-> <<>>, nojit |-> FALSE, from |-> 0, name |-> NoName,
                 methods |-> {}, fields |-> <<>>, interfaces |-> {}, destructor |-> FALSE]
  BY Zenon DEF Nothing, NoName
<1>. QED  BY <1>1

LEMMA PlainHeading ==
    ASSUME NEW d, ~d.pure, ~d.nojit
    PROVE  Heading(d) = Nil
<1>. DEFINE a == IF d.pure THEN <<"pure", "(">> \o d.types \o <<")">> ELSE <<>>
            b == IF d.nojit THEN <<"no-jit">> ELSE <<>>
<1>1. a = Nil /\ b = Nil
  BY Zenon DEF Nil
<1>. HIDE DEF a, b
<1>2. Heading(d) = a ++ b
  BY Zenon DEF Heading, ++, a, b
<1>. QED  BY <1>1, <1>2, CatText

LEMMA HeadNothing == HeadOk(Nothing) /\ Heading(Nothing) = Nil
<1>1. <<>> \in Seq(Idents)
  OBVIOUS
<1>. QED  BY <1>1, NothingFacts, PlainHeading DEF HeadOk

LEMMA HeadTypes ==
    ASSUME NEW d, HeadOk(d)
    PROVE  d.types \in Text /\ Heading(d) \in Text /\ DOMAIN d = DOMAIN Nothing
<1>1. d.types \in Seq(Idents) /\ Idents \subseteq Tokens
  BY WordFacts DEF HeadOk
<1>2. d.types \in Text
  BY <1>1, SeqWider DEF Text
<1>. QED  BY <1>2, HeadingIs DEF HeadOk

LEMMA DoneOne ==
    ASSUME NEW c, c.kind \notin Nodes, c.parts \in Seq(Nat), Len(c.parts) = 1, c.parts[1] = c.block,
           NEW text, text[c.block] \in Text
    PROVE  Done(c, text) = Braced(text[c.block])
<1>. DEFINE e == [kind |-> c.kind, parts |-> <<>>, part |-> c.part]
            b == c.block
<1>1. e.parts = <<>> /\ e.parts \in Seq(Nat) /\ Len(e.parts) = 0 /\ b \in Nat /\ e.kind = c.kind
  BY AppendFacts
<1>2. c.parts = Append(e.parts, b)
  BY <1>1
<1>3. \A i \in 1..Len(e.parts) : text[e.parts[i]] \in Text
  BY <1>1
<1>4. \A i \in 1..Len(e.parts) : Lead(c, i) = Lead(e, i)
  BY <1>1
<1>5. Lead(c, 1) = Nil
  BY DEF Lead
<1>. HIDE DEF e
<1>6. Done(e, text) = Nil
  BY <1>1, DoneNone
<1>7. text[b] \in Text
  OBVIOUS
<1>. HIDE DEF b
<1>8. Done(c, text) = Done(e, text) ++ (Lead(c, Len(e.parts) + 1) ++ Braced(text[b]))
  <2>1. e.parts \in Seq(Nat)
    BY <1>1
  <2>2. b \in Nat
    BY <1>1
  <2>. QED  BY ONLY <1>2, <1>3, <1>4, <1>7, <2>1, <2>2, DoneGrows
<1>9. Len(e.parts) + 1 = 1
  BY <1>1
<1>10. Braced(text[b]) \in Text
  BY <1>7, BracedText
<1>. QED  BY <1>5, <1>6, <1>8, <1>9, <1>10, CatText DEF b

LEMMA RestOf ==
    ASSUME NEW a \in Text, NEW b \in Text, NEW k, k = Len(a) + 1
    PROVE  SubSeq(a ++ b, k, Len(a ++ b)) = b
<1>. DEFINE u == a ++ b
            v == SubSeq(u, k, Len(u))
<1>1. /\ u \in Text /\ Len(u) = Len(a) + Len(b) /\ Len(a) \in Nat /\ Len(b) \in Nat
  BY JoinedBraces
<1>2. \A i \in 1..Len(b) : u[Len(a) + i] = b[i]
  BY Joined DEF Text, ++
<1>. HIDE DEF u
<1>3. v \in Text /\ Len(v) = Len(b) /\ \A i \in 1..Len(b) : v[i] = u[k + i - 1]
  BY <1>1 DEF Text
<1>4. ASSUME NEW i \in 1..Len(v) PROVE v[i] = b[i]
  <2>1. k + i - 1 = Len(a) + i /\ i \in 1..Len(b)
    BY <1>1, <1>3
  <2>. QED  BY <1>2, <1>3, <2>1
<1>. HIDE DEF v
<1>5. v = b
  BY <1>3, <1>4, SameSequence DEF Text
<1>. QED  BY <1>5 DEF u, v

LEMMA WrittenText ==
    ASSUME NEW d, NEW text, KeptOne(d, text), d.what # "class", d.what = "function" => d.block # 0,
           \A b \in DOMAIN text : text[b] \in Text
    PROVE  Written(d, text) = Preface(d.what, d) ++ Braced(text[d.block])
           /\ Written(d, text) \in Text /\ Preface(d.what, d) \in Text /\ text[d.block] \in Text
<1>1. d.what \in {"init", "function"} /\ text[d.block] \in Text
  BY DEF KeptOne
<1>2. d.what # "init" => d.types \in Text /\ d.name \in Tokens
  BY <1>1 DEF KeptOne
<1>3. Written(d, text) = Preface(d.what, d) ++ Braced(text[d.block])
  BY <1>2, WrittenIs
<1>4. Preface(d.what, d) \in Text /\ Braced(text[d.block]) \in Text
  BY <1>1, <1>2, PrefaceText, BracedText
<1>. QED  BY <1>1, <1>3, <1>4, CatText

LEMMA KeptGrows ==
    ASSUME NEW prog, NEW text, Kept(prog, text), NEW d, KeptOne(d, text), d.what = "function" => d.block # 0,
           NEW more, more = Append(prog, d)
    PROVE  /\ Kept(more, text) /\ (NoClass(more) => NoClass(prog) /\ d.what # "class")
           /\ d.what = "class" => ~NoClass(more)
<1>. DEFINE n == Len(prog)
<1>1. /\ IsSeq(more) /\ Len(more) = n + 1 /\ n \in Nat /\ more[n + 1] = d /\ \A i \in 1..n : more[i] = prog[i]
  BY SequenceFacts DEF Kept
<1>2. \A i \in 1..n : KeptOne(prog[i], text) /\ (NoClass(prog) /\ prog[i].what = "function" => prog[i].block # 0)
  BY DEF Kept
<1>3. NoClass(prog) <=> \A i \in 1..n : prog[i].what # "class"
  BY DEF NoClass
<1>. HIDE DEF n
<1>4. (\A i \in 1..(n + 1) : i \in 1..n \/ i = n + 1) /\ n + 1 \in 1..(n + 1) /\ \A i \in 1..n : i \in 1..(n + 1)
  BY <1>1
<1>5. NoClass(more) => NoClass(prog) /\ d.what # "class"
  BY <1>1, <1>3, <1>4 DEF NoClass
<1>6. ASSUME NEW i \in 1..(n + 1)
      PROVE  KeptOne(more[i], text) /\ (NoClass(more) /\ more[i].what = "function" => more[i].block # 0)
  <2>1. CASE i \in 1..n
    BY <1>1, <1>2, <1>5, <2>1
  <2>2. CASE i = n + 1
    BY <1>1, <2>2
  <2>. QED  BY <1>4, <2>1, <2>2
<1>. QED  BY <1>1, <1>5, <1>6 DEF Kept

LEMMA StoryGrows ==
    ASSUME NEW prog, NEW text, Kept(prog, text), \A b \in DOMAIN text : text[b] \in Text,
           NEW d, KeptOne(d, text), d.what = "function" => d.block # 0, d.what # "class",
           NEW more, more = Append(prog, d), NEW p, Story(p, prog, text)
    PROVE  Story(p ++ Written(d, text), more, text) /\ Kept(more, text)
<1>1. Kept(more, text) /\ (NoClass(more) => NoClass(prog))
  BY KeptGrows
<1>2. Written(d, text) \in Text /\ p \in Text
  BY WrittenText DEF Story
<1>3. p ++ Written(d, text) \in Text
  BY <1>2, CatText
<1>4. ASSUME NoClass(more) PROVE p ++ Written(d, text) = Account(more, text)
  <2>1. p = Account(prog, text) /\ IsSeq(prog) /\ NoClass(prog)
    BY <1>1, <1>4 DEF Story, Kept
  <2>2. ASSUME NEW i \in 1..Len(prog) PROVE Written(prog[i], text) \in Text
    <3>. DEFINE e == prog[i]
    <3>1. KeptOne(e, text) /\ (e.what = "function" => e.block # 0) /\ e.what # "class"
      BY <2>1 DEF Kept, NoClass
    <3>. HIDE DEF e
    <3>2. Written(e, text) \in Text
      BY <3>1, WrittenText
    <3>. QED  BY <3>2 DEF e
  <2>3. Account(Append(prog, d), text) = Account(prog, text) ++ Written(d, text)
    BY <1>2, <2>1, <2>2, AccountGrows
  <2>. QED  BY <2>1, <2>3
<1>. QED  BY <1>1, <1>3, <1>4 DEF Story
-----------------------------------------------------------------------------
LEMMA ToldWhole ==
    ASSUME NEW o \in Seq(Construct), Len(o) = 1, TopOf(o).kind \notin Nodes, NEW text, Texted(TopOf(o), text),
           NEW r, NEW x \in Text, NEW t, NEW nm, Told(r, x, o, t, nm, text),
           t # <<>>, Head(t) \in {"AddFunction", "SetInitStatic"}
    PROVE  r = x ++ Braced(text[TopOf(o).block]) /\ text[TopOf(o).block] \in Text
           /\ Len(TopOf(o).parts) = 1 /\ TopOf(o).parts[1] = TopOf(o).block
<1>. DEFINE c == TopOf(o)
<1>1. Tip(r, x ++ Under(o, text), c, t, nm, text)
  BY DEF Told
<1>2. Under(o, text) = Nil
  BY UnderFirst
<1>3. After(c) /\ r = (x ++ Under(o, text)) ++ Done(c, text)
  BY <1>1, TipAt
<1>4. Len(c.parts) = 1 /\ c.parts[1] = c.block /\ c.parts \in Seq(Nat) /\ c.kind \notin Nodes
  BY <1>3 DEF After, Texted
<1>5. text[c.block] \in Text
  <2>1. 1 \in 1..Len(c.parts)
    BY <1>4
  <2>. QED  BY <1>4, <2>1 DEF Texted
<1>. HIDE DEF c
<1>6. Done(c, text) = Braced(text[c.block])
  BY ONLY <1>4, <1>5, DoneOne
<1>7. r = x ++ Braced(text[c.block])
  BY <1>2, <1>3, <1>6, CatText
<1>. QED  BY <1>4, <1>5, <1>7 DEF c

LEMMA OutermostAlone ==
    ASSUME ParserInv, open # <<>>, TopOf(open).kind \in Outermost
    PROVE  Len(open) = 1 /\ open[1] = TopOf(open) /\ Front(open) = <<>>
<1>1. Placed(open, Len(open), Len(blocks)) /\ open \in Seq(Construct)
  BY TopFacts DEF ParserInv, Parsing
<1>2. Len(open) = 1
  BY <1>1 DEF Placed, TopOf
<1>3. Front(open) \in Seq(Construct) /\ Len(Front(open)) = 0
  BY <1>1, <1>2, FrontFacts
<1>. QED  BY <1>2, <1>3, LongerThanEmpty DEF TopOf

(* A function or the static block is complete.                             *)
LEMMA WholeBody ==
    ASSUME ParserInv, NEW text, Truthful(text), mode = "reading", todo # <<>>,
           Head(todo) \in {"AddFunction", "SetInitStatic"}, NEW b, b = Innermost.block
    PROVE  /\ Innermost.kind = IF Head(todo) = "AddFunction" THEN "function" ELSE "init"
           /\ Front(open) = <<>> /\ b \in DOMAIN text /\ b # 0 /\ Closed(text[b]) /\ HeadOk(decl)
           /\ Kept(program, text) /\ \A a \in DOMAIN text : text[a] \in Text
           /\ Innermost.kind = "function" => decl.name \in Idents
           /\ Innermost.kind = "init" => ~decl.pure /\ ~decl.nojit
           /\ \E x \in Text : /\ Innermost.kind = "function" => Len(x) + 2 = decl.from
                              /\ read = x ++ Braced(text[b])
           /\ \E p : /\ Story(p, program, text)
                     /\ WithoutCommas(read) = (p ++ Preface(Innermost.kind, decl)) ++ Braced(text[b])
<1>. DEFINE c == TopOf(open)
<1>1. /\ open # <<>> /\ c.kind = IF Head(todo) = "AddFunction" THEN "function" ELSE "init"
  BY Due DEF ParserInv, Finals, Awaits
<1>2. c.kind \in Outermost /\ c.kind \in Bodies /\ c.kind \notin Nodes /\ c.kind # "if"
  BY <1>1, KindFacts DEF Outermost, Nodes
<1>3. AtBody(read, todo, names, open, blocks, decl, program, text)
  <2>1. Head(todo) \notin HeadSteps
    BY Zenon DEF HeadSteps, FunctionPlace
  <2>. QED  BY <1>1, <1>2, <2>1, InTheBody
<1>4. /\ open \in Seq(Construct) /\ Texted(c, text) /\ Innermost = c /\ Reported(blocks, program, text)
      /\ Tree(open, todo, blocks, program) /\ Tells(text, blocks)
  BY <1>3, InnermostInBody
<1>5. Len(open) = 1 /\ open[1] = c /\ Front(open) = <<>>
  BY <1>1, <1>2, OutermostAlone
<1>6. PICK x \in Text : (open[1].kind = "function" => Len(x) + 2 = decl.from) /\ Told(read, x, open, todo, names, text)
  BY <1>3 DEF AtBody
<1>7. PICK p : /\ Story(p, program, text)
               /\ Told(WithoutCommas(read), p ++ Preface(open[1].kind, decl), open, todo, names, text)
  BY <1>3 DEF AtBody
<1>8. HeadOk(decl) /\ (c.kind = "function" => decl.name \in Idents) /\ (c.kind = "init" => ~decl.pure /\ ~decl.nojit)
  BY <1>3, <1>5 DEF AtBody
<1>9. Preface(c.kind, decl) \in Text
  <2>1. decl.types \in Text
    BY <1>8, HeadTypes
  <2>2. c.kind # "init" => decl.name \in Tokens
    BY <1>1, <1>8, WordFacts
  <2>. QED  BY <2>1, <2>2, PrefaceText
<1>10. p ++ Preface(c.kind, decl) \in Text
  BY <1>7, <1>9, CatText DEF Story
<1>a. b = c.block
  BY <1>4
<1>. HIDE DEF c
<1>11. read = x ++ Braced(text[b]) /\ Len(c.parts) = 1 /\ c.parts[1] = b
  BY <1>2, <1>4, <1>5, <1>6, <1>a, ToldWhole DEF c
<1>12. WithoutCommas(read) = (p ++ Preface(c.kind, decl)) ++ Braced(text[b])
  BY <1>2, <1>4, <1>5, <1>7, <1>10, <1>a, ToldWhole DEF c
<1>13. DOMAIN text = 1..Len(blocks) /\ \A a \in DOMAIN text : text[a] \in Text /\ Closed(text[a])
  BY <1>4, ClosedIn DEF Tells
<1>14. b \in 1..Len(blocks)
  <2>1. 1 \in 1..Len(open) /\ 1 \in 1..Len(c.parts)
    BY <1>5, <1>11
  <2>2. open[1].parts[1] \in 1..Len(blocks)
    BY <1>4, <1>5, <2>1 DEF Tree
  <2>. QED  BY <1>5, <1>11, <2>2
<1>15. Kept(program, text)
  BY <1>4 DEF Reported
<1>16. b # 0
  BY <1>14
<1>. QED  BY <1>1, <1>4, <1>5, <1>6, <1>7, <1>8, <1>11, <1>12, <1>13, <1>14, <1>15, <1>16 DEF c

LEMMA ToFile ==
    ASSUME NEW text, Truthful(text), NEW p, Story(p, program', text), Kept(program', text), UNCHANGED <<read, blocks>>,
           WithoutCommas(read) = p ++ Heading(decl'), HeadOk(decl'),
           open' = <<>>, todo' = <<>>, mode' = "reading"
    PROVE  TextInv'
<1>1. Reported(blocks', program', text) /\ read' \in Text
  BY DEF Truthful, Reported
<1>2. AtFile(read', todo', open', decl', program', text)
  BY DEF AtFile
<1>3. Somewhere(read', todo', names', open', blocks', decl', program', text)
  BY <1>2 DEF Somewhere
<1>4. DOMAIN decl' = DOMAIN Nothing
  BY DEF HeadOk
<1>. QED  BY <1>1, <1>3, <1>4, TellsOn

LEMMA TextSetInitStatic ==
    ASSUME ParserInv, NEW text, Truthful(text), SetInitStatic
    PROVE  TextInv'
<1>. DEFINE b == Innermost.block
            d == [what |-> "init", name |-> NoName, block |-> b]
<1>1. /\ mode = "reading" /\ todo # <<>> /\ Head(todo) = "SetInitStatic"
      /\ program' = Append(program, d)
      /\ open' = Front(open) /\ todo' = <<>> /\ UNCHANGED <<read, blocks, decl, mode>>
  BY Zenon DEF SetInitStatic, Doing, Close, NoName
<1>2. d.what = "init" /\ d.block = b /\ b = Innermost.block
  OBVIOUS
<1>. HIDE DEF b, d
<1>3. /\ Innermost.kind = "init" /\ Front(open) = <<>> /\ b \in DOMAIN text /\ Closed(text[b]) /\ HeadOk(decl)
      /\ Kept(program, text) /\ ~decl.pure /\ ~decl.nojit /\ \A a \in DOMAIN text : text[a] \in Text
  BY <1>1, <1>2, WholeBody
<1>4. PICK p : /\ Story(p, program, text)
               /\ WithoutCommas(read) = (p ++ Preface(Innermost.kind, decl)) ++ Braced(text[b])
  BY <1>1, <1>2, WholeBody
<1>5. KeptOne(d, text)
  BY <1>2, <1>3 DEF KeptOne
<1>6. Story(p ++ Written(d, text), program', text) /\ Kept(program', text)
  BY <1>1, <1>2, <1>3, <1>4, <1>5, StoryGrows
<1>7. /\ Written(d, text) = Preface(d.what, d) ++ Braced(text[d.block]) /\ Preface(d.what, d) \in Text
      /\ text[d.block] \in Text
  BY <1>2, <1>3, <1>5, WrittenText
<1>8. Preface(d.what, d) = Preface("init", decl)
  BY <1>2 DEF Preface
<1>9. Braced(text[b]) \in Text
  BY <1>2, <1>7, BracedText
<1>10. WithoutCommas(read) = p ++ Written(d, text)
  <2>1. p \in Text
    BY <1>4 DEF Story
  <2>2. (p ++ Preface(d.what, d)) ++ Braced(text[b]) = p ++ (Preface(d.what, d) ++ Braced(text[b]))
    BY <1>7, <1>9, <2>1, CatText
  <2>. QED  BY <1>2, <1>3, <1>4, <1>7, <1>8, <2>2
<1>11. Heading(decl') = Nil /\ HeadOk(decl')
  BY <1>1, <1>3, PlainHeading
<1>12. p ++ Written(d, text) \in Text
  BY <1>6 DEF Story
<1>13. WithoutCommas(read) = (p ++ Written(d, text)) ++ Heading(decl')
  BY <1>10, <1>11, <1>12, CatText
<1>14. open' = <<>> /\ mode' = "reading"
  BY <1>1, <1>3
<1>. QED  BY <1>1, <1>6, <1>11, <1>13, <1>14, ToFile

LEMMA TextAddFunction ==
    ASSUME ParserInv, NEW text, Truthful(text), AddFunction
    PROVE  TextInv'
<1>. DEFINE b == Innermost.block
            k == IF decl.nojit THEN <<>> ELSE Copied(SubSeq(read, decl.from, Len(read)))
            d == Function(decl.name, decl, b, k)
<1>1. /\ mode = "reading" /\ todo # <<>> /\ Head(todo) = "AddFunction"
      /\ program' = Append(program, d) /\ decl' = Nothing
      /\ open' = Front(open) /\ todo' = <<>> /\ UNCHANGED <<read, blocks, mode>>
  BY Zenon DEF AddFunction, Doing, Close
<1>2. /\ d.what = "function" /\ d.block = b /\ d.name = decl.name /\ d.pure = decl.pure /\ d.types = decl.types
      /\ d.nojit = decl.nojit /\ d.copy = k /\ b = Innermost.block
      /\ ~decl.nojit => k = Copied(SubSeq(read, decl.from, Len(read)))
  BY DEF Function
<1>. HIDE DEF b, d, k
<1>3. /\ Innermost.kind = "function" /\ Front(open) = <<>> /\ b \in DOMAIN text /\ Closed(text[b]) /\ HeadOk(decl)
      /\ Kept(program, text) /\ decl.name \in Idents /\ (\A a \in DOMAIN text : text[a] \in Text) /\ b # 0
  BY <1>1, <1>2, WholeBody
<1>4. PICK p : /\ Story(p, program, text)
               /\ WithoutCommas(read) = (p ++ Preface(Innermost.kind, decl)) ++ Braced(text[b])
  BY <1>1, <1>2, WholeBody
<1>5. PICK x \in Text : /\ Innermost.kind = "function" => Len(x) + 2 = decl.from
                        /\ read = x ++ Braced(text[b])
  BY <1>1, <1>2, WholeBody
<1>6. ~decl.nojit => k = text[b]
  <2>. DEFINE s == text[b]
              l == Word(Lbrace)
              e == Word(Rbrace)
              y == x ++ l
  <2>1. s \in Text /\ l \in Text /\ e \in Text /\ Braced(s) = (l ++ s) ++ e /\ Len(l) = 1 /\ Len(x) \in Nat
    <3>1. Lbrace \in Tokens
      BY WordFacts
    <3>. QED  BY <1>3, <3>1, BracedText, WordText DEF Text
  <2>2. Closed(s)
    BY <1>3
  <2>. HIDE DEF s, l
  <2>3. y \in Text /\ Len(y) = Len(x) + 1
    BY <2>1, JoinedBraces
  <2>4. read = y ++ (s ++ e)
    <3>1. (l ++ s) ++ e = l ++ (s ++ e) /\ s ++ e \in Text
      BY <2>1, CatText
    <3>2. x ++ (l ++ (s ++ e)) = (x ++ l) ++ (s ++ e)
      BY <2>1, <3>1, CatText
    <3>. QED  BY <1>5, <2>1, <3>1, <3>2 DEF s
  <2>5. decl.from = Len(y) + 1
    BY <1>3, <1>5, <2>1, <2>3
  <2>6. s ++ e \in Text
    BY <2>1, CatText
  <2>. HIDE DEF y
  <2>7. SubSeq(read, decl.from, Len(read)) = s ++ e
    BY <2>3, <2>4, <2>5, <2>6, RestOf
  <2>8. Copied(s ++ e) = s
    BY <2>2, CopyIsBody
  <2>. QED  BY <1>2, <2>7, <2>8 DEF s
<1>7. decl.types \in Text /\ decl.name \in Tokens
  BY <1>3, HeadTypes, WordFacts
<1>8. KeptOne(d, text)
  BY <1>2, <1>3, <1>6, <1>7 DEF KeptOne
<1>9. Story(p ++ Written(d, text), program', text) /\ Kept(program', text)
  BY <1>1, <1>2, <1>3, <1>4, <1>8, StoryGrows
<1>10. /\ Written(d, text) = Preface(d.what, d) ++ Braced(text[d.block]) /\ Preface(d.what, d) \in Text
       /\ text[d.block] \in Text
  BY <1>2, <1>3, <1>8, WrittenText
<1>11. Preface(d.what, d) = Preface("function", decl)
  <2>1. Heading(d) = Heading(decl)
    BY <1>2, Zenon DEF Heading
  <2>. QED  BY <1>2, <2>1 DEF Preface
<1>12. Braced(text[b]) \in Text
  BY <1>2, <1>10, BracedText
<1>13. WithoutCommas(read) = p ++ Written(d, text)
  <2>1. p \in Text
    BY <1>4 DEF Story
  <2>2. (p ++ Preface(d.what, d)) ++ Braced(text[b]) = p ++ (Preface(d.what, d) ++ Braced(text[b]))
    BY <1>10, <1>12, <2>1, CatText
  <2>. QED  BY <1>2, <1>3, <1>4, <1>10, <1>11, <2>2
<1>14. Heading(decl') = Nil /\ HeadOk(decl')
  BY <1>1, HeadNothing
<1>15. p ++ Written(d, text) \in Text
  BY <1>9 DEF Story
<1>16. WithoutCommas(read) = (p ++ Written(d, text)) ++ Heading(decl')
  BY <1>13, <1>14, <1>15, CatText
<1>17. open' = <<>> /\ mode' = "reading"
  BY <1>1, <1>3
<1>. QED  BY <1>1, <1>9, <1>14, <1>16, <1>17, ToFile

(* A class may bring a destructor without a body.                          *)
AllKept(prog, text) == IsSeq(prog) /\ \A i \in 1..Len(prog) : KeptOne(prog[i], text)

LEMMA AllKeptGrows ==
    ASSUME NEW prog, NEW text, AllKept(prog, text), NEW d, KeptOne(d, text), NEW more, more = Append(prog, d)
    PROVE  AllKept(more, text) /\ (d.what = "class" => Kept(more, text) /\ ~NoClass(more))
<1>. DEFINE n == Len(prog)
<1>1. /\ IsSeq(more) /\ Len(more) = n + 1 /\ n \in Nat /\ more[n + 1] = d /\ \A i \in 1..n : more[i] = prog[i]
  BY SequenceFacts DEF AllKept
<1>2. \A i \in 1..n : KeptOne(prog[i], text)
  BY DEF AllKept
<1>. HIDE DEF n
<1>3. (\A i \in 1..(n + 1) : i \in 1..n \/ i = n + 1) /\ n + 1 \in 1..(n + 1)
  BY <1>1
<1>4. ASSUME NEW i \in 1..(n + 1) PROVE KeptOne(more[i], text)
  <2>1. CASE i \in 1..n
    BY <1>1, <1>2, <2>1
  <2>2. CASE i = n + 1
    BY <1>1, <2>2
  <2>. QED  BY <1>3, <2>1, <2>2
<1>5. AllKept(more, text)
  BY <1>1, <1>4 DEF AllKept
<1>6. ASSUME d.what = "class" PROVE ~NoClass(more)
  BY <1>1, <1>3, <1>6 DEF NoClass
<1>7. ASSUME d.what = "class" PROVE Kept(more, text)
  BY <1>5, <1>6, <1>7 DEF Kept, AllKept
<1>. QED  BY <1>5, <1>6, <1>7

LEMMA TwoMore ==
    ASSUME NEW s, IsSeq(s), NEW a, NEW b
    PROVE  s \o <<a>> = Append(s, a) /\ s \o <<b, a>> = Append(Append(s, b), a)
<1>1. PICK S : s \in Seq(S)
  BY DEF IsSeq
<1>. DEFINE T == S \cup {a, b}
<1>2. s \in Seq(T) /\ a \in T /\ b \in T
  BY <1>1
<1>. HIDE DEF T
<1>3. s \o <<a>> = Append(s, a)
  BY <1>2
<1>4. s \o <<b, a>> = Append(Append(s, b), a)
  BY <1>2
<1>. QED  BY <1>3, <1>4

LEMMA TextAddClass ==
    ASSUME ParserInv, NEW text, Truthful(text), AddClass
    PROVE  TextInv'
<1>1. /\ mode = "reading" /\ todo # <<>> /\ Head(todo) = "AddClass"
      /\ open' = Front(open) /\ todo' = <<>> /\ decl' = Nothing /\ UNCHANGED <<read, blocks, mode>>
  BY DEF AddClass, Doing, Close
<1>2. \E m, n : \/ program' = program \o <<Class(m)>>
                \/ program' = program \o <<Function(n, Nothing, 0, <<>>), Class(m)>>
  BY DEF AddClass
<1>3. open # <<>> /\ TopOf(open).kind = "class"
  BY <1>1, Due DEF ParserInv, Finals, Awaits
<1>4. Front(open) = <<>>
  BY <1>3, OutermostAlone DEF Outermost
<1>5. Kept(program, text) /\ read \in Text
  BY DEF Truthful, Reported
<1>6. \A m : KeptOne(Class(m), text) /\ Class(m).what = "class"
  BY DEF KeptOne, Class
<1>7. \A n : KeptOne(Function(n, Nothing, 0, <<>>), text)
  BY DEF KeptOne, Function
<1>8. Kept(program', text) /\ ~NoClass(program')
  <2>1. PICK m, n : \/ program' = program \o <<Class(m)>>
                    \/ program' = program \o <<Function(n, Nothing, 0, <<>>), Class(m)>>
    BY <1>2
  <2>. DEFINE c == Class(m)
              f == Function(n, Nothing, 0, <<>>)
              q == Append(program, f)
  <2>2. program' = Append(program, c) \/ program' = Append(q, c)
    <3>1. IsSeq(program)
      BY <1>5 DEF Kept
    <3>2. program \o <<c>> = Append(program, c) /\ program \o <<f, c>> = Append(q, c)
      BY <3>1, TwoMore
    <3>. QED  BY <2>1, <3>2
  <2>3. KeptOne(c, text) /\ c.what = "class" /\ KeptOne(f, text)
    BY <1>6, <1>7
  <2>4. AllKept(program, text)
    BY <1>5 DEF Kept, AllKept
  <2>. HIDE DEF c, f, q
  <2>5. AllKept(q, text)
    BY <2>3, <2>4, AllKeptGrows DEF q
  <2>6. CASE program' = Append(program, c)
    BY <2>3, <2>4, <2>6, AllKeptGrows
  <2>7. CASE program' = Append(q, c)
    BY <2>3, <2>5, <2>7, AllKeptGrows
  <2>. QED  BY <2>2, <2>6, <2>7
<1>9. WithoutCommas(read) \in Text
  BY <1>5, CommasText
<1>10. Story(WithoutCommas(read), program', text)
  BY <1>8, <1>9 DEF Story
<1>11. HeadOk(decl') /\ WithoutCommas(read) = WithoutCommas(read) ++ Heading(decl')
  BY <1>1, <1>9, HeadNothing, CatText
<1>12. open' = <<>> /\ mode' = "reading"
  BY <1>1, <1>4
<1>. QED  BY <1>1, <1>8, <1>10, <1>11, <1>12, ToFile
-----------------------------------------------------------------------------
(* A declaration begins.                                                   *)
LEMMA StillTold ==
    ASSUME NEW text, Truthful(text), UNCHANGED <<blocks, program>>, read' \in Text,
           DOMAIN decl' = DOMAIN Nothing, mode' = "reading",
           Somewhere(read', todo', names', open', blocks, decl', program, text)
    PROVE  TextInv'
<1>1. Reported(blocks', program', text)
  BY DEF Truthful
<1>2. Somewhere(read', todo', names', open', blocks', decl', program', text)
  OBVIOUS
<1>. QED  BY <1>1, <1>2, TellsOn

LEMMA ClassTold ==
    ASSUME NEW text, Truthful(text), UNCHANGED <<blocks, program>>, read' \in Text,
           DOMAIN decl' = DOMAIN Nothing, mode' = "reading", AtClass(open')
    PROVE  TextInv'
<1>1. Somewhere(read', todo', names', open', blocks, decl', program, text)
  BY DEF Somewhere
<1>. QED  BY <1>1, StillTold

LEMMA InTheFile ==
    ASSUME ParserInv, NEW text, Truthful(text), mode = "reading", Inside = "file"
    PROVE  open = <<>> /\ AtFile(read, todo, open, decl, program, text)
<1>1. ASSUME open # <<>> PROVE FALSE
  <2>1. open \in Seq(Construct) /\ TopOf(open) \in Construct
    BY <1>1, TopFacts DEF ParserInv, Parsing
  <2>2. TopOf(open).kind = "file" /\ TopOf(open).kind \in Kinds
    BY <1>1, <2>1 DEF Inside, Innermost, TopOf, Construct
  <2>. QED  BY <2>2, KindFacts
<1>2. Len(open) = 0
  BY <1>1
<1>3. Somewhere(read, todo, names, open, blocks, decl, program, text)
  BY DEF Truthful
<1>. QED  BY <1>1, <1>2, <1>3 DEF Somewhere, AtClass, AtTypes, AtHead, AtBody

LEMMA BetweenDeclarations ==
    ASSUME Idle, Inside = "file", NEW t \in Accepted
    PROVE  /\ t \in {"init-static", "vtable", "pure", "eof"} => ~decl.pure /\ ~decl.nojit
           /\ t = "no-jit" => ~decl.nojit
<1>1. todo = <<>>
  BY DEF Idle
<1>2. "file" # "class" /\ "file" \notin DOMAIN Item /\ "file" \notin Bodies
  BY KindFacts
<1>3. CASE decl.nojit
  <2>1. Accepted = {"function"}
    BY <1>1, <1>3, <1>2, Zenon DEF Accepted
  <2>. QED  BY <2>1
<1>4. CASE decl.pure /\ ~decl.nojit
  <2>1. Accepted = {"no-jit", "function"}
    BY <1>1, <1>4, <1>2, Zenon DEF Accepted
  <2>. QED  BY <2>1, <1>4
<1>5. CASE ~decl.pure /\ ~decl.nojit
  BY <1>5
<1>. QED  BY <1>3, <1>4, <1>5

LEMMA BeginFacts ==
    ASSUME ParserInv, NEW text, Truthful(text), NEW t, NEW kind, NEW rest, Begin(t, kind, rest),
           Inside = "file", t # CommaToken
    PROVE  /\ mode = "reading" /\ mode' = "reading" /\ UNCHANGED <<blocks, program>>
           /\ Len(open') = 1 /\ open' # <<>> /\ TopOf(open') = Opened(kind) /\ open'[1] = Opened(kind)
           /\ todo' = rest /\ names' = <<>> /\ t \in Accepted /\ Idle
           /\ read' = read ++ Word(t) /\ read \in Text /\ Word(t) \in Text /\ read' \in Text /\ t \in Tokens
           /\ HeadOk(decl) /\ Opened(kind).parts = <<>> /\ Opened(kind).kind = kind
           /\ \E p : /\ Story(p, program, text) /\ WithoutCommas(read) = p ++ Heading(decl)
                     /\ WithoutCommas(read') = (p ++ Heading(decl)) ++ Word(t)
<1>1. /\ Idle /\ t \in Accepted /\ Advance(t) /\ open' = Append(Counted, Opened(kind)) /\ todo' = rest
      /\ names' = <<>> /\ UNCHANGED <<blocks, program, mode>> /\ mode = "reading"
  BY DEF Begin, Idle
<1>2. open = <<>> /\ AtFile(read, todo, open, decl, program, text)
  BY <1>1, InTheFile
<1>3. Counted = <<>>
  BY <1>2 DEF Counted
<1>4. Len(open') = 1 /\ open'[1] = Opened(kind) /\ TopOf(open') = Opened(kind) /\ open' # <<>>
  BY <1>1, <1>3 DEF TopOf
<1>5. read' = read ++ Word(t) /\ Plain(Word(t)) /\ t \in Tokens
  BY <1>1, ReadsWord
<1>6. read \in Text
  BY DEF Truthful
<1>7. /\ Word(t) \in Text /\ read' \in Text /\ WithoutCommas(read') = WithoutCommas(read) ++ Word(t)
  BY <1>5, <1>6, PlainText
<1>8. Opened(kind).parts = <<>> /\ Opened(kind).kind = kind
  BY DEF Opened
<1>9. HeadOk(decl) /\ \E p : Story(p, program, text) /\ WithoutCommas(read) = p ++ Heading(decl)
  BY <1>2 DEF AtFile
<1>. QED  BY <1>1, <1>4, <1>5, <1>6, <1>7, <1>8, <1>9

LEMMA FirstTree ==
    ASSUME NEW o, Len(o) = 1, o[1].kind \in {"init", "function"}, o[1].parts = <<>>, NEW made, NEW prog
    PROVE  Tree(o, DueBrace, made, prog)
<1>1. ~AtStatement(o, DueBrace)
  BY DueEnds
<1>2. Len(o[1].parts) = 0
  OBVIOUS
<1>3. ~Fills(o, DueBrace, 1)
  BY <1>1 DEF Fills
<1>4. \A j \in 1..Len(o) : j = 1
  OBVIOUS
<1>5. \A i \in 1..Len(o[1].parts) : FALSE
  BY <1>2
<1>. QED  BY <1>3, <1>4, <1>5 DEF Tree

LEMMA FirstTold ==
    ASSUME NEW o, Len(o) = 1, TopOf(o).kind \notin Nodes, TopOf(o).parts = <<>>, NEW text, NEW x \in Text, NEW nm
    PROVE  Told(x, x, o, DueBrace, nm, text)
<1>. DEFINE c == TopOf(o)
<1>1. Under(o, text) = Nil /\ Done(c, text) = Nil /\ Lead(c, Len(c.parts) + 1) = Nil
  BY UnderFirst, DoneNone DEF Lead
<1>2. Amid(c)
  <2>1. Len(c.parts) = 0
    OBVIOUS
  <2>. QED  BY <2>1 DEF Amid
<1>. HIDE DEF c
<1>3. Word(Lbrace) \in Text
  BY WordsNeeded
<1>4. Nil ++ Nil = Nil /\ Nil ++ Word(Lbrace) = Word(Lbrace) /\ x ++ Nil = x
  BY <1>3, CatText
<1>5. Upto(c, text) = Word(Lbrace)
  BY <1>1, <1>4 DEF Upto, c
<1>6. x ++ Word(Lbrace) = (x ++ Under(o, text)) ++ Upto(c, text)
  BY <1>1, <1>4, <1>5
<1>7. Tip(x, x ++ Under(o, text), c, DueBrace, nm, text)
  BY <1>2, <1>6 DEF Tip
<1>. QED  BY <1>7 DEF Told, c

(* A body begins once its preface has been read.                           *)
LEMMA EntersBody ==
    ASSUME NEW o, Len(o) = 1, NEW kind \in {"init", "function"}, o[1].kind = kind, o[1].parts = <<>>,
           NEW d, HeadOk(d), NEW r \in Text, NEW made, NEW prog, NEW text, NEW nm,
           kind = "function" => Len(r) + 2 = d.from /\ d.name \in Idents,
           kind = "init" => ~d.pure /\ ~d.nojit,
           NEW p, Story(p, prog, text), WithoutCommas(r) = p ++ Preface(kind, d)
    PROVE  AtBody(r, DueBrace, nm, o, made, d, prog, text)
<1>1. o # <<>> /\ TopOf(o) = o[1] /\ kind \notin Nodes
  <2>1. o # <<>>
    OBVIOUS
  <2>2. TopOf(o) = o[1]
    BY DEF TopOf
  <2>. QED  BY <2>1, <2>2 DEF Nodes
<1>2. Tree(o, DueBrace, made, prog)
  BY FirstTree
<1>3. Told(r, r, o, DueBrace, nm, text)
  BY <1>1, FirstTold
<1>4. WithoutCommas(r) \in Text
  BY CommasText
<1>5. Told(WithoutCommas(r), WithoutCommas(r), o, DueBrace, nm, text)
  BY <1>1, <1>4, FirstTold
<1>. QED  BY <1>1, <1>2, <1>3, <1>5 DEF AtBody

LEMMA TextBeginInit ==
    ASSUME ParserInv, NEW text, Truthful(text), Inside = "file",
           Begin("init-static", "init", DueBrace), UNCHANGED decl
    PROVE  TextInv'
<1>0. "init-static" # CommaToken
  BY Zenon DEF CommaToken
<1>1. /\ mode' = "reading" /\ UNCHANGED <<blocks, program>> /\ Len(open') = 1 /\ open'[1] = Opened("init")
      /\ todo' = DueBrace /\ "init-static" \in Accepted /\ Idle /\ read' \in Text
      /\ Opened("init").parts = <<>> /\ Opened("init").kind = "init" /\ HeadOk(decl)
  BY <1>0, BeginFacts
<1>2. PICK p : /\ Story(p, program, text)
               /\ WithoutCommas(read') = (p ++ Heading(decl)) ++ Word("init-static")
  BY <1>0, BeginFacts
<1>3. ~decl.pure /\ ~decl.nojit
  BY <1>1, BetweenDeclarations
<1>4. p ++ Heading(decl) = p
  BY <1>2, <1>3, PlainHeading, CatText DEF Story
<1>5. WithoutCommas(read') = p ++ Preface("init", decl)
  BY <1>2, <1>4 DEF Preface
<1>6. AtBody(read', DueBrace, names', open', blocks, decl, program, text)
  BY <1>1, <1>2, <1>3, <1>5, EntersBody
<1>7. Somewhere(read', todo', names', open', blocks, decl', program, text)
  BY <1>1, <1>6 DEF Somewhere
<1>8. DOMAIN decl' = DOMAIN Nothing
  BY DEF Truthful
<1>. QED  BY <1>1, <1>7, <1>8, StillTold
-----------------------------------------------------------------------------
LEMMA TextBeginClass ==
    ASSUME ParserInv, NEW text, Truthful(text), Inside = "file", NEW rest,
           Begin("vtable", "class", rest), UNCHANGED decl
    PROVE  TextInv'
<1>0. "vtable" # CommaToken
  BY Zenon DEF CommaToken
<1>1. /\ mode' = "reading" /\ UNCHANGED <<blocks, program>> /\ Len(open') = 1 /\ open'[1] = Opened("class")
      /\ open' # <<>> /\ read' \in Text /\ Opened("class").kind = "class"
  BY <1>0, BeginFacts
<1>2. AtClass(open')
  <2>1. \A j \in 2..Len(open') : FALSE
    BY <1>1
  <2>. QED  BY <1>1, <2>1 DEF AtClass
<1>3. DOMAIN decl' = DOMAIN Nothing
  BY DEF Truthful
<1>. QED  BY <1>1, <1>2, <1>3, ClassTold

LEMMA Marked ==
    ASSUME NEW d, HeadOk(d), NEW v
    PROVE  /\ LET e == [d EXCEPT !.from = v] IN
              /\ e.from = v /\ HeadOk(e) /\ Heading(e) = Heading(d)
           /\ LET e == [d EXCEPT !.pure = TRUE] IN
              /\ HeadOk(e) /\ e.pure /\ e.nojit = d.nojit /\ e.types = d.types
           /\ LET e == [d EXCEPT !.nojit = TRUE] IN
              /\ HeadOk(e) /\ e.nojit /\ e.types = d.types /\ e.pure = d.pure
<1>1. {"from", "pure", "nojit", "types"} \subseteq DOMAIN d
  BY NothingFacts DEF HeadOk
<1>2. DEFINE e == [d EXCEPT !.from = v]
             g == [d EXCEPT !.pure = TRUE]
             h == [d EXCEPT !.nojit = TRUE]
<1>3. e.from = v /\ e.pure = d.pure /\ e.nojit = d.nojit /\ e.types = d.types /\ DOMAIN e = DOMAIN d
  BY <1>1
<1>4. g.pure /\ g.nojit = d.nojit /\ g.types = d.types /\ DOMAIN g = DOMAIN d
  BY <1>1
<1>5. h.nojit /\ h.pure = d.pure /\ h.types = d.types /\ DOMAIN h = DOMAIN d
  BY <1>1
<1>. HIDE DEF e, g, h
<1>6. Heading(e) = Heading(d)
  BY <1>3, Zenon DEF Heading
<1>7. HeadOk(e) /\ HeadOk(g) /\ HeadOk(h)
  BY <1>3, <1>4, <1>5 DEF HeadOk
<1>. QED  BY <1>3, <1>4, <1>5, <1>6, <1>7 DEF e, g, h

LEMMA TextBeginPure ==
    ASSUME ParserInv, NEW text, Truthful(text), Inside = "file",
           Begin("pure", "types", <<"(">>), decl' = [decl EXCEPT !.pure = TRUE]
    PROVE  TextInv'
<1>0. "pure" # CommaToken
  BY Zenon DEF CommaToken
<1>1. /\ mode' = "reading" /\ UNCHANGED <<blocks, program>> /\ Len(open') = 1 /\ open'[1] = Opened("types")
      /\ read' \in Text /\ Opened("types").kind = "types" /\ HeadOk(decl) /\ todo' = <<"(">>
      /\ "pure" \in Accepted /\ Idle
  BY <1>0, BeginFacts
<1>2. PICK p : /\ Story(p, program, text)
               /\ WithoutCommas(read') = (p ++ Heading(decl)) ++ Word("pure")
  BY <1>0, BeginFacts
<1>3. ~decl.pure /\ ~decl.nojit
  BY <1>1, BetweenDeclarations
<1>4. HeadOk(decl') /\ decl'.pure /\ decl'.nojit = decl.nojit /\ decl'.types = decl.types
  BY <1>1, Marked
<1>5. decl'.types = <<>> /\ ~decl'.nojit
  BY <1>1, <1>3, <1>4 DEF HeadOk
<1>6. WithoutCommas(read') = p ++ Word("pure")
  BY <1>2, <1>3, PlainHeading, CatText DEF Story
<1>7. Typed(WithoutCommas(read'), p, decl', todo', names')
  BY <1>1, <1>5, <1>6 DEF Typed
<1>8. AtTypes(read', todo', names', open', decl', program, text)
  BY <1>1, <1>2, <1>4, <1>5, <1>7 DEF AtTypes
<1>9. Somewhere(read', todo', names', open', blocks, decl', program, text)
  BY <1>8 DEF Somewhere
<1>. QED  BY <1>1, <1>4, <1>9, StillTold DEF HeadOk

LEMMA TextBeginFunction ==
    ASSUME ParserInv, NEW text, Truthful(text), Inside = "file",
           Begin("function", "function", DueHead), decl' = [decl EXCEPT !.from = Len(read) + 6]
    PROVE  TextInv'
<1>0. "function" # CommaToken
  BY Zenon DEF CommaToken
<1>1. /\ mode' = "reading" /\ UNCHANGED <<blocks, program>> /\ Len(open') = 1 /\ open'[1] = Opened("function")
      /\ read' \in Text /\ Opened("function").kind = "function" /\ Opened("function").parts = <<>>
      /\ HeadOk(decl) /\ todo' = DueHead /\ names' = <<>> /\ read \in Text /\ read' = read ++ Word("function")
  BY <1>0, BeginFacts
<1>2. PICK p : /\ Story(p, program, text)
               /\ WithoutCommas(read') = (p ++ Heading(decl)) ++ Word("function")
  BY <1>0, BeginFacts
<1>3. HeadOk(decl') /\ decl'.from = Len(read) + 6 /\ Heading(decl') = Heading(decl)
  BY <1>1, Marked
<1>4. Headed(read', read, todo', names') /\ Len(read) + 6 = decl'.from
  BY <1>1, <1>3 DEF Headed
<1>5. Headed(WithoutCommas(read'), p ++ Heading(decl'), todo', names')
  BY <1>1, <1>2, <1>3 DEF Headed
<1>6. AtHead(read', todo', names', open', decl', program, text)
  BY <1>1, <1>2, <1>3, <1>4, <1>5 DEF AtHead
<1>7. Somewhere(read', todo', names', open', blocks, decl', program, text)
  BY <1>6 DEF Somewhere
<1>. QED  BY <1>1, <1>3, <1>7, StillTold DEF HeadOk

LEMMA TextBeginDeclaration ==
    ASSUME ParserInv, NEW text, Truthful(text), BeginDeclaration
    PROVE  TextInv'
<1>1. /\ Inside = "file"
      /\ \/ Begin("init-static", "init", DueBrace) /\ UNCHANGED decl
         \/ (\E rest : Begin("vtable", "class", rest)) /\ UNCHANGED decl
         \/ Begin("pure", "types", <<"(">>) /\ decl' = [decl EXCEPT !.pure = TRUE]
         \/ Begin("function", "function", DueHead) /\ decl' = [decl EXCEPT !.from = Len(read) + 6]
  BY Zenon DEF BeginDeclaration, DueBrace, DueHead, FunctionPlace, Lbrace
<1>. QED  BY <1>1, TextBeginInit, TextBeginClass, TextBeginPure, TextBeginFunction

LEMMA TextNoJit ==
    ASSUME ParserInv, NEW text, Truthful(text), NoJit
    PROVE  TextInv'
<1>0. "no-jit" # CommaToken
  BY Zenon DEF CommaToken
<1>1. /\ Idle /\ Inside = "file" /\ "no-jit" \in Accepted /\ Advance("no-jit") /\ mode = "reading"
      /\ decl' = [decl EXCEPT !.nojit = TRUE] /\ UNCHANGED <<todo, open, blocks, program, mode>>
  BY DEF NoJit, Idle
<1>2. open = <<>> /\ AtFile(read, todo, open, decl, program, text)
  BY <1>1, InTheFile
<1>3. ~decl.nojit
  BY <1>1, BetweenDeclarations
<1>4. HeadOk(decl) /\ todo = <<>>
  BY <1>2 DEF AtFile
<1>5. PICK p : Story(p, program, text) /\ WithoutCommas(read) = p ++ Heading(decl)
  BY <1>2 DEF AtFile
<1>6. HeadOk(decl') /\ decl'.nojit /\ decl'.types = decl.types /\ decl'.pure = decl.pure
  BY <1>1, <1>4, Marked
<1>7. read' = read ++ Word("no-jit") /\ Plain(Word("no-jit")) /\ read \in Text
  BY <1>0, <1>1, ReadsWord DEF Truthful
<1>8. Word("no-jit") \in Text /\ read' \in Text /\ WithoutCommas(read') = WithoutCommas(read) ++ Word("no-jit")
  BY <1>7, PlainText
<1>9. Heading(decl') = Heading(decl) ++ Word("no-jit") /\ Heading(decl) \in Text
  <2>. DEFINE a == IF decl.pure THEN TypeList(decl) ++ Word(")") ELSE Nil
  <2>1. decl.types \in Text /\ decl'.types \in Text
    BY <1>4, <1>6, HeadTypes
  <2>2. TypeList(decl') = TypeList(decl)
    BY <1>6 DEF TypeList
  <2>3. a \in Text
    BY <2>1, HeadingIs, CatText
  <2>4. /\ Heading(decl) = a ++ (IF decl.nojit THEN Word("no-jit") ELSE Nil)
    BY <2>1, HeadingIs
  <2>5. Heading(decl') = (IF decl'.pure THEN TypeList(decl') ++ Word(")") ELSE Nil)
                           ++ (IF decl'.nojit THEN Word("no-jit") ELSE Nil)
    BY <2>1, HeadingIs
  <2>6. Heading(decl') = a ++ Word("no-jit")
    BY <1>6, <2>2, <2>5
  <2>. HIDE DEF a
  <2>. QED  BY <1>3, <2>3, <2>4, <2>6, CatText
<1>10. WithoutCommas(read') = p ++ Heading(decl')
  <2>1. p \in Text
    BY <1>5 DEF Story
  <2>2. (p ++ Heading(decl)) ++ Word("no-jit") = p ++ (Heading(decl) ++ Word("no-jit"))
    BY <1>8, <1>9, <2>1, CatText
  <2>. QED  BY <1>5, <1>8, <1>9, <2>2
<1>11. AtFile(read', todo', open', decl', program, text)
  BY <1>1, <1>2, <1>4, <1>5, <1>6, <1>10 DEF AtFile
<1>12. Somewhere(read', todo', names', open', blocks, decl', program, text)
  BY <1>11 DEF Somewhere
<1>. QED  BY <1>1, <1>6, <1>8, <1>12, StillTold DEF HeadOk

LEMMA TextEndOfFile ==
    ASSUME ParserInv, NEW text, Truthful(text), EndOfFile
    PROVE  TextInv'
<1>1. /\ Idle /\ Inside = "file" /\ "eof" \in Accepted /\ mode' = "parsed" /\ mode = "reading"
      /\ UNCHANGED <<read, todo, names, open, blocks, decl, program>>
  BY DEF EndOfFile, Idle
<1>2. AtFile(read, todo, open, decl, program, text)
  BY <1>1, InTheFile
<1>3. PICK p : Story(p, program, text) /\ WithoutCommas(read) = p ++ Heading(decl)
  BY <1>2 DEF AtFile
<1>4. Heading(decl) = Nil
  BY <1>1, BetweenDeclarations, PlainHeading
<1>5. WithoutCommas(read) = p
  BY <1>3, <1>4, CatText DEF Story
<1>6. NoClass(program) => WithoutCommas(read) = Account(program, text)
  BY <1>3, <1>5 DEF Story
<1>7. Truthful(text)'
  <2>1. mode' # "reading"
    BY <1>1
  <2>. QED  BY <1>1, <1>6, <2>1 DEF Truthful
<1>. QED  BY <1>7 DEF TextInv
-----------------------------------------------------------------------------
(* Classes and the types of a pure function.                               *)
Listing == Sections \cup {"class"}

LEMMA ClassHere ==
    ASSUME NEW o \in Seq(Construct), o # <<>>, NEW n, Nested(o, n), TopOf(o).kind \in Listing
    PROVE  AtClass(o)
<1>. DEFINE m == Len(o)
<1>1. m \in Nat /\ m > 0 /\ m \in 1..m
  BY LongerThanEmpty
<1>2. Placed(o, m, n) /\ (m > 1 => Placed(o, m - 1, n)) /\ TopOf(o) = o[m]
  <2>1. m > 1 => m - 1 \in 1..m
    BY <1>1
  <2>. QED  BY <1>1, <2>1 DEF Nested, TopOf
<1>. HIDE DEF m
<1>3. CASE o[m].kind = "class"
  <2>1. m = 1
    BY <1>2, <1>3 DEF Placed, Outermost
  <2>2. \A j \in 2..m : FALSE
    BY <2>1
  <2>. QED  BY <1>3, <2>1, <2>2 DEF AtClass, m
<1>4. CASE o[m].kind \in Sections
  <2>1. m > 1 /\ o[m - 1].kind = "class"
    BY <1>2, <1>4 DEF Placed
  <2>2. m - 1 = 1
    BY <1>1, <1>2, <2>1 DEF Placed, Outermost
  <2>3. m = 2 /\ o[1].kind = "class"
    BY <1>1, <2>1, <2>2
  <2>4. \A j \in 2..m : j = m
    BY <2>3
  <2>. QED  BY <1>4, <2>3, <2>4 DEF AtClass, m
<1>. QED  BY <1>2, <1>3, <1>4 DEF Listing

LEMMA ClassGoesOn ==
    ASSUME ParserInv', NEW text, Truthful(text), UNCHANGED <<blocks, program>>, read' \in Text,
           DOMAIN decl' = DOMAIN Nothing, mode' = "reading", open' # <<>>, TopOf(open').kind \in Listing
    PROVE  TextInv'
<1>1. open' \in Seq(Construct) /\ Nested(open', Len(blocks'))
  BY DEF ParserInv, Parsing
<1>2. AtClass(open')
  BY <1>1, ClassHere
<1>. QED  BY <1>2, ClassTold

LEMMA ReadsOn ==
    ASSUME NEW text, Truthful(text), NEW t, Advance(t)
    PROVE  /\ t \in Tokens /\ read' = Append(read, t) /\ read \in Text /\ read' \in Text
           /\ t # CommaToken => /\ WithoutCommas(read') = WithoutCommas(read) ++ Word(t)
                                /\ Word(t) \in Text /\ read' = read ++ Word(t)
           /\ t = CommaToken => WithoutCommas(read') = WithoutCommas(read)
<1>1. t \in Tokens /\ read' = Append(read, t) /\ read \in Text
  BY DEF Advance, Current, Truthful
<1>2. read' = read ++ Word(t) /\ Word(t) \in Text /\ read' \in Text
  BY <1>1, AppendText
<1>3. WithoutCommas(read') = IF t = CommaToken THEN WithoutCommas(read) ELSE WithoutCommas(read) ++ Word(t)
  BY <1>1, CommasAppend
<1>. QED  BY <1>1, <1>2, <1>3

(* What the innermost construct says of the place.                         *)
LEMMA Place ==
    ASSUME ParserInv, NEW text, Truthful(text), mode = "reading", open # <<>>
    PROVE  /\ TopOf(open).kind \in Listing \cup {"types"} \cup Bodies
           /\ TopOf(open).kind = "types" => AtTypes(read, todo, names, open, decl, program, text)
           /\ TopOf(open).kind \in Bodies =>
                  \/ AtHead(read, todo, names, open, decl, program, text)
                  \/ AtBody(read, todo, names, open, blocks, decl, program, text)
<1>1. Somewhere(read, todo, names, open, blocks, decl, program, text)
  BY DEF Truthful
<1>. DEFINE n == Len(open)
            k == TopOf(open).kind
<1>2. n \in 1..n /\ n \in Nat /\ k = open[n].kind /\ TopOf(open) \in Construct
  BY TopFacts DEF TopOf
<1>3. k \in Listing \cup {"types"} \cup Bodies
  BY <1>2, KindFacts DEF Construct, Listing
<1>4. k \notin {"types"} \cup Bodies \/ ~AtClass(open)
  <2>. HIDE DEF n, k
  <2>1. n = 1 \/ n \in 2..n
    BY <1>2
  <2>2. AtClass(open) => k \in Sections \cup {"class"}
    BY <1>2, <2>1 DEF AtClass, n
  <2>. QED  BY <2>2, KindFacts DEF Sections
<1>5. k # "types" \/ ~AtHead(read, todo, names, open, decl, program, text)
  BY <1>2 DEF AtHead
<1>6. k \notin Bodies \/ ~AtTypes(read, todo, names, open, decl, program, text)
  BY <1>2, KindFacts DEF AtTypes
<1>7. k # "types" \/ ~AtBody(read, todo, names, open, blocks, decl, program, text)
  <2>1. AtBody(read, todo, names, open, blocks, decl, program, text) => k \in {"init", "function"} \cup Nodes
    BY <1>2 DEF AtBody, Tree
  <2>. QED  BY <2>1 DEF Nodes
<1>8. ~AtFile(read, todo, open, decl, program, text)
  BY DEF AtFile
<1>. HIDE DEF n, k
<1>9. (k = "types" => AtTypes(read, todo, names, open, decl, program, text))
  BY <1>1, <1>4, <1>5, <1>7, <1>8 DEF Somewhere
<1>10. k \in Bodies => \/ AtHead(read, todo, names, open, decl, program, text)
                       \/ AtBody(read, todo, names, open, blocks, decl, program, text)
  BY <1>1, <1>4, <1>6, <1>8 DEF Somewhere
<1>. QED  BY <1>3, <1>9, <1>10 DEF k

LEMMA TextSection ==
    ASSUME ParserInv, NEW text, Truthful(text), Section
    PROVE  TextInv'
<1>1. ParserInv'
  BY SectionBegins
<1>2. /\ Inside = "class" /\ mode' = "reading" /\ UNCHANGED <<blocks, program, decl>>
      /\ \E t : Advance(t)
      /\ open' = open \/ \E s \in Sections : open' = Append(Counted, Opened(s))
  BY DEF Section, Begin, Idle, Sections
<1>3. open # <<>> /\ TopOf(open).kind = "class"
  <2>1. open # <<>>
    BY <1>2 DEF Inside
  <2>. QED  BY <1>2, <2>1, TopFacts DEF Inside
<1>4. read' \in Text
  BY <1>2, ReadsOn
<1>5. open' # <<>> /\ TopOf(open').kind \in Listing
  <2>1. CASE open' = open
    BY <1>3, <2>1 DEF Listing
  <2>2. ASSUME NEW s \in Sections, open' = Append(Counted, Opened(s))
        PROVE  open' # <<>> /\ TopOf(open').kind \in Listing
    <3>1. Counted \in Seq(Construct)
      BY <1>3, CountedFacts
    <3>2. s \in Kinds /\ Opened(s) \in Construct /\ Opened(s).kind = s
      <4>1. s \in Kinds
        BY DEF Kinds
      <4>. QED  BY <4>1, OpenedFacts
    <3>3. TopOf(open') = Opened(s) /\ open' # <<>>
      BY <2>2, <3>1, <3>2, AppendFacts DEF TopOf
    <3>. QED  BY <3>2, <3>3 DEF Listing
  <2>. QED  BY <1>2, <2>1, <2>2
<1>6. DOMAIN decl' = DOMAIN Nothing
  BY <1>2 DEF Truthful
<1>. QED  BY <1>1, <1>2, <1>4, <1>5, <1>6, ClassGoesOn

LEMMA TextEndOfClass ==
    ASSUME ParserInv, NEW text, Truthful(text), EndOfClass
    PROVE  TextInv'
<1>1. ParserInv'
  BY ClassEnds
<1>2. /\ Inside = "class" /\ mode' = "reading" /\ UNCHANGED <<blocks, program, decl, open>> /\ \E t : Advance(t)
  BY Zenon DEF EndOfClass, Idle
<1>3. open # <<>> /\ TopOf(open).kind = "class"
  <2>1. open # <<>>
    BY <1>2 DEF Inside
  <2>. QED  BY <1>2, <2>1, TopFacts DEF Inside
<1>4. read' \in Text
  BY <1>2, ReadsOn
<1>5. DOMAIN decl' = DOMAIN Nothing
  BY <1>2 DEF Truthful
<1>. QED  BY <1>1, <1>2, <1>3, <1>4, <1>5, ClassGoesOn DEF Listing

(* Parse gives up.                                                         *)
LEMMA TextFailure ==
    ASSUME NEW text, Truthful(text), LiteralOutOfRange \/ Refuse \/ UnknownFieldType \/ NameTaken
    PROVE  TextInv'
<1>1. /\ mode' # "reading" /\ mode' # "parsed" /\ read' = <<>> /\ decl' = Nothing /\ UNCHANGED <<blocks, program>>
  BY DEF LiteralOutOfRange, Refuse, UnknownFieldType, NameTaken, Abandon
<1>2. read' \in Text
  BY <1>1, CatText DEF Nil
<1>3. Truthful(text)'
  BY <1>1, <1>2 DEF Truthful
<1>. QED  BY <1>3 DEF TextInv
-----------------------------------------------------------------------------
(* The lists.                                                              *)
LEMMA TypesTold ==
    ASSUME NEW text, Truthful(text), UNCHANGED <<blocks, program>>, read' \in Text, mode' = "reading",
           Len(open') = 1, TopOf(open').kind = "types", HeadOk(decl'), decl'.pure, ~decl'.nojit,
           NEW p, Story(p, program, text), Typed(WithoutCommas(read'), p, decl', todo', names')
    PROVE  TextInv'
<1>1. open'[1].kind = "types"
  BY DEF TopOf
<1>2. AtTypes(read', todo', names', open', decl', program, text)
  BY <1>1 DEF AtTypes
<1>3. Somewhere(read', todo', names', open', blocks, decl', program, text)
  BY <1>2 DEF Somewhere
<1>. QED  BY <1>3, StillTold DEF HeadOk

LEMMA TypedAt ==
    ASSUME NEW r, NEW p, NEW d, NEW t, NEW nm, Typed(r, p, d, t, nm)
    PROVE  /\ t # <<>> /\ Head(t) = "(" => t = <<"(">> /\ d.types = <<>> /\ r = p ++ Word("pure")
           /\ t # <<>> /\ Head(t) = "comma" => r = p ++ TypeList(d)
           /\ t = <<>> => r = p ++ TypeList(d)
           /\ t # <<>> /\ Head(t) = "AddType" =>
                  t = <<"AddType", "comma">> /\ nm \in Seq(Idents) /\ Len(nm) = 1 /\ r = (p ++ TypeList(d)) ++ Word(nm[1])
           /\ t # <<>> => Head(t) \in {"(", "comma", "AddType"}
<1>1. Head(<<"(">>) = "(" /\ Head(<<"comma">>) = "comma" /\ Head(<<"AddType", "comma">>) = "AddType"
  OBVIOUS
<1>2. CASE t = <<"(">> /\ d.types = <<>> /\ r = p ++ Word("pure")
  BY <1>1, <1>2
<1>3. CASE t = <<>> /\ r = p ++ TypeList(d)
  BY <1>3
<1>4. CASE t = <<"comma">> /\ r = p ++ TypeList(d)
  BY <1>1, <1>4
<1>5. CASE t = <<"AddType", "comma">> /\ nm \in Seq(Idents) /\ Len(nm) = 1 /\ r = (p ++ TypeList(d)) ++ Word(nm[1])
  BY <1>1, <1>5
<1>. QED  BY <1>2, <1>3, <1>4, <1>5 DEF Typed, Nil

LEMMA TypeListText ==
    ASSUME NEW d, HeadOk(d)
    PROVE  /\ TypeList(d) \in Text
           /\ d.pure /\ ~d.nojit => Heading(d) = TypeList(d) ++ Word(")") /\ Word(")") \in Text
<1>1. d.types \in Text
  BY HeadTypes
<1>2. TypeList(d) \in Text /\ TypeList(d) ++ Word(")") \in Text
  BY <1>1, HeadingIs
<1>3. Heading(d) = (IF d.pure THEN TypeList(d) ++ Word(")") ELSE Nil)
                     ++ (IF d.nojit THEN Word("no-jit") ELSE Nil)
  BY <1>1, HeadingIs
<1>4. Word(")") \in Text
  <2>1. ")" \in Tokens
    BY WordFacts
  <2>. QED  BY <2>1, WordText
<1>. QED  BY <1>2, <1>3, <1>4, CatText

LEMMA TextComma ==
    ASSUME ParserInv, NEW text, Truthful(text), Comma
    PROVE  TextInv'
<1>1. ParserInv'
  BY ItemEnds
<1>2. /\ todo # <<>> /\ Head(todo) = "comma" /\ todo' = <<>> /\ UNCHANGED <<open, blocks, decl, program>>
      /\ mode = "reading" /\ mode' = "reading"
      /\ Advance(CommaToken) \/ UNCHANGED read
  BY Zenon DEF Comma, Doing, CommaToken
<1>3. open # <<>> /\ TopOf(open).kind \notin Bodies
  BY <1>2, Due DEF ParserInv, Awaits, Finals
<1>4. read' \in Text /\ WithoutCommas(read') = WithoutCommas(read)
  BY <1>2, ReadsOn DEF Truthful
<1>5. TopOf(open).kind \in Listing \cup {"types"}
  BY <1>2, <1>3, Place
<1>6. CASE TopOf(open).kind \in Listing
  <2>1. DOMAIN decl' = DOMAIN Nothing
    BY <1>2 DEF Truthful
  <2>. QED  BY <1>1, <1>2, <1>3, <1>4, <1>6, <2>1, ClassGoesOn
<1>7. CASE TopOf(open).kind = "types"
  <2>1. AtTypes(read, todo, names, open, decl, program, text)
    BY <1>2, <1>3, <1>7, Place
  <2>2. PICK p : Story(p, program, text) /\ Typed(WithoutCommas(read), p, decl, todo, names)
    BY <2>1 DEF AtTypes
  <2>3. WithoutCommas(read') = p ++ TypeList(decl')
    BY <1>2, <1>4, <2>2, TypedAt
  <2>4. Typed(WithoutCommas(read'), p, decl', todo', names')
    BY <1>2, <2>3 DEF Typed, Nil
  <2>5. HeadOk(decl') /\ decl'.pure /\ ~decl'.nojit /\ Len(open') = 1 /\ TopOf(open').kind = "types"
    BY <1>2, <1>7, <2>1 DEF AtTypes
  <2>. QED  BY <1>2, <1>4, <2>2, <2>4, <2>5, TypesTold
<1>. QED  BY <1>5, <1>6, <1>7

LEMMA TextListItem ==
    ASSUME ParserInv, NEW text, Truthful(text), ListItem
    PROVE  TextInv'
<1>1. ParserInv'
  BY ItemBegins
<1>2. PICK w \in Names[FirstOf[Inside]] :
          /\ Advance(w) /\ names' = <<w>> /\ todo = <<>> /\ Inside \in DOMAIN Item /\ todo' = Item[Inside]
          /\ open' = Counted /\ UNCHANGED <<blocks, decl, program>> /\ mode = "reading" /\ mode' = "reading"
  BY DEF ListItem, Idle
<1>3. open # <<>> /\ TopOf(open).kind = Inside
  <2>1. open # <<>>
    BY <1>2, KindFacts DEF Inside, Kinds
  <2>. QED  BY <1>2, <2>1, TopFacts DEF Inside
<1>4. open' # <<>> /\ TopOf(open').kind = TopOf(open).kind /\ Len(open') = Len(open)
  BY <1>2, <1>3, CountedFacts
<1>5. w \in Idents /\ w # CommaToken
  <2>1. FirstOf[Inside] \in DOMAIN Names
    BY <1>2, ItemsAssumption
  <2>2. Matches(w, FirstOf[Inside])
    BY <1>2, <2>1 DEF Matches
  <2>. QED  BY <2>1, <2>2, TokenMatches
<1>6. read' \in Text /\ WithoutCommas(read') = WithoutCommas(read) ++ Word(w)
  BY <1>2, <1>5, ReadsOn
<1>7. Inside \in Sections \cup {"types"}
  BY <1>2, KindFacts
<1>8. CASE Inside \in Sections
  <2>1. DOMAIN decl' = DOMAIN Nothing
    BY <1>2 DEF Truthful
  <2>. QED  BY <1>1, <1>2, <1>3, <1>4, <1>6, <1>8, <2>1, ClassGoesOn DEF Listing
<1>9. CASE Inside = "types"
  <2>1. AtTypes(read, todo, names, open, decl, program, text)
    BY <1>2, <1>3, <1>9, Place
  <2>2. PICK p : Story(p, program, text) /\ Typed(WithoutCommas(read), p, decl, todo, names)
    BY <2>1 DEF AtTypes
  <2>3. WithoutCommas(read) = p ++ TypeList(decl)
    BY <1>2, <2>2, TypedAt
  <2>4. todo' = <<"AddType", "comma">>
    BY <1>2, <1>9, Zenon DEF Item
  <2>5. names' \in Seq(Idents) /\ Len(names') = 1 /\ names'[1] = w
    BY <1>2, <1>5
  <2>6. WithoutCommas(read') = (p ++ TypeList(decl')) ++ Word(names'[1])
    BY <1>2, <1>6, <2>3, <2>5
  <2>7. Typed(WithoutCommas(read'), p, decl', todo', names')
    BY <2>4, <2>5, <2>6 DEF Typed
  <2>8. HeadOk(decl') /\ decl'.pure /\ ~decl'.nojit /\ Len(open') = 1 /\ TopOf(open').kind = "types"
    BY <1>2, <1>3, <1>4, <1>9, <2>1 DEF AtTypes
  <2>. QED  BY <1>2, <1>6, <2>2, <2>7, <2>8, TypesTold
<1>. QED  BY <1>7, <1>8, <1>9

LEMMA TextEndOfList ==
    ASSUME ParserInv, NEW text, Truthful(text), EndOfList
    PROVE  TextInv'
<1>1. ParserInv'
  BY ListEnds
<1>2. /\ Inside \in DOMAIN Item /\ todo = <<>> /\ todo' = <<>> /\ open' = Front(open)
      /\ UNCHANGED <<blocks, decl, program>> /\ mode = "reading" /\ mode' = "reading"
      /\ (\E w : Advance(w)) /\ (Inside = "types" => Advance(")"))
  BY Zenon DEF EndOfList, Idle, Close
<1>3. open # <<>> /\ TopOf(open).kind = Inside
  <2>1. open # <<>>
    BY <1>2, KindFacts DEF Inside, Kinds
  <2>. QED  BY <1>2, <2>1, TopFacts DEF Inside
<1>4. read' \in Text
  BY <1>2, ReadsOn
<1>5. open \in Seq(Construct) /\ Placed(open, Len(open), Len(blocks)) /\ Len(open) \in Nat
  BY <1>3, TopFacts DEF ParserInv, Parsing
<1>6. /\ open' \in Seq(Construct) /\ Len(open') = Len(open) - 1
      /\ \A i \in 1..(Len(open) - 1) : open'[i] = open[i]
  BY <1>2, <1>3, <1>5, FrontFacts
<1>7. Inside \in Sections \cup {"types"}
  BY <1>2, KindFacts
<1>8. CASE Inside \in Sections
  <2>1. Len(open) > 1 /\ open[Len(open) - 1].kind = "class"
    BY <1>3, <1>5, <1>8 DEF Placed, TopOf
  <2>2. TopOf(open').kind = "class" /\ open' # <<>>
    <3>. DEFINE n == Len(open) - 1
    <3>1. n \in 1..(Len(open) - 1) /\ n = Len(open')
      BY <1>5, <1>6, <2>1
    <3>. HIDE DEF n
    <3>2. open'[n].kind = "class"
      BY <1>6, <2>1, <3>1 DEF n
    <3>3. open' # <<>>
      BY <3>1, <1>6, LongerThanEmpty
    <3>. QED  BY <3>1, <3>2, <3>3 DEF TopOf
  <2>3. DOMAIN decl' = DOMAIN Nothing
    BY <1>2 DEF Truthful
  <2>. QED  BY <1>1, <1>2, <1>4, <2>2, <2>3, ClassGoesOn DEF Listing
<1>9. CASE Inside = "types"
  <2>1. AtTypes(read, todo, names, open, decl, program, text)
    BY <1>2, <1>3, <1>9, Place
  <2>2. PICK p : Story(p, program, text) /\ Typed(WithoutCommas(read), p, decl, todo, names)
    BY <2>1 DEF AtTypes
  <2>3. WithoutCommas(read) = p ++ TypeList(decl)
    BY <1>2, <2>2, TypedAt
  <2>4. WithoutCommas(read') = WithoutCommas(read) ++ Word(")")
    <3>1. ")" # CommaToken
      BY Zenon DEF CommaToken
    <3>. QED  BY <1>2, <1>9, <3>1, ReadsOn
  <2>5. HeadOk(decl) /\ decl.pure /\ ~decl.nojit /\ Len(open) = 1
    BY <2>1 DEF AtTypes
  <2>6. Heading(decl) = TypeList(decl) ++ Word(")") /\ Word(")") \in Text /\ TypeList(decl) \in Text
    BY <2>5, TypeListText
  <2>7. (p ++ TypeList(decl)) ++ Word(")") = p ++ (TypeList(decl) ++ Word(")"))
    BY <2>2, <2>6, CatText DEF Story
  <2>8. WithoutCommas(read') = p ++ Heading(decl')
    BY <1>2, <2>3, <2>4, <2>6, <2>7
  <2>9. open' = <<>>
    BY <1>6, <2>5, LongerThanEmpty
  <2>10. AtFile(read', todo', open', decl', program, text)
    BY <1>2, <2>2, <2>5, <2>8, <2>9 DEF AtFile
  <2>11. Somewhere(read', todo', names', open', blocks, decl', program, text)
    BY <2>10 DEF Somewhere
  <2>. QED  BY <1>2, <1>4, <2>5, <2>11, StillTold DEF HeadOk
<1>. QED  BY <1>7, <1>8, <1>9
-----------------------------------------------------------------------------
(* The head of a function.                                                 *)
LEMMA HeadedAt ==
    ASSUME NEW r, NEW p, NEW t, NEW nm, Headed(r, p, t, nm)
    PROVE  /\ t # <<>> /\ Head(t) \in {":", "1", FunctionPlace, "NameIt"}
           /\ Head(t) = ":" => t = DueHead /\ nm = <<>> /\ r = p ++ Word("function")
           /\ Head(t) = "1" => t = Tail(DueHead) /\ nm = <<>> /\ r = (p ++ Word("function")) ++ Word(":")
           /\ Head(t) = FunctionPlace =>
                  t = Tail(Tail(DueHead)) /\ nm = <<>> /\ r = ((p ++ Word("function")) ++ Word(":")) ++ Word("1")
           /\ Head(t) = "NameIt" =>
                  /\ t = DueName /\ nm \in Seq(Idents) /\ Len(nm) = 1
                  /\ r = (((p ++ Word("function")) ++ Word(":")) ++ Word("1")) ++ Word(nm[1])
<1>1. FunctionPlace \notin {":", "1", "NameIt"}
  BY Zenon DEF FunctionPlace
<1>2. CASE t = DueHead /\ nm = <<>> /\ r = p ++ Word("function")
  BY <1>1, <1>2, DueHeadLists
<1>3. CASE t = Tail(DueHead) /\ nm = <<>> /\ r = (p ++ Word("function")) ++ Word(":")
  BY <1>1, <1>3, DueHeadLists
<1>4. CASE t = Tail(Tail(DueHead)) /\ nm = <<>> /\ r = ((p ++ Word("function")) ++ Word(":")) ++ Word("1")
  BY <1>1, <1>4, DueHeadLists
<1>5. CASE /\ t = DueName /\ nm \in Seq(Idents) /\ Len(nm) = 1
           /\ r = (((p ++ Word("function")) ++ Word(":")) ++ Word("1")) ++ Word(nm[1])
  BY <1>1, <1>5, DueHeadLists
<1>. QED  BY <1>2, <1>3, <1>4, <1>5 DEF Headed

LEMMA HeadMoves ==
    ASSUME NEW r, NEW p, NEW t, NEW nm, Headed(r, p, t, nm), IsToken(Head(t)),
           NEW w, Matches(w, Head(t)), NEW nn, nn = (IF w \in Idents THEN Append(nm, w) ELSE nm)
    PROVE  Headed(r ++ Word(w), p, Tail(t), nn) /\ w # CommaToken
<1>0. ":" # CommaToken /\ "1" # CommaToken
  BY Zenon DEF CommaToken
<1>1. ":" \notin DOMAIN Names /\ "1" \notin DOMAIN Names
  BY TokenMatches
<1>2. Head(t) \in {":", "1", FunctionPlace}
  <2>1. ~IsToken("NameIt")
    BY StepsAreNoTokens DEF Steps
  <2>. QED  BY <2>1, HeadedAt
<1>3. CASE Head(t) = ":"
  <2>1. w = ":" /\ w \notin Idents
    BY <1>1, <1>3, TokenMatches
  <2>2. t = DueHead /\ nm = <<>> /\ r = p ++ Word("function")
    BY <1>3, HeadedAt
  <2>. QED  BY <1>0, <2>1, <2>2 DEF Headed
<1>4. CASE Head(t) = "1"
  <2>1. w = "1" /\ w \notin Idents
    BY <1>1, <1>4, TokenMatches
  <2>2. t = Tail(DueHead) /\ nm = <<>> /\ r = (p ++ Word("function")) ++ Word(":")
    BY <1>4, HeadedAt
  <2>. QED  BY <1>0, <2>1, <2>2 DEF Headed
<1>5. CASE Head(t) = FunctionPlace
  <2>1. FunctionPlace \in DOMAIN Names
    <3>1. FunctionPlace \notin Keywords \cup Puncts \cup {"1"}
      BY Zenon DEF FunctionPlace, Keywords, Puncts
    <3>. QED  BY <1>5, <3>1 DEF IsToken
  <2>2. w \in Idents /\ w # CommaToken
    BY <1>5, <2>1, TokenMatches
  <2>3. t = Tail(Tail(DueHead)) /\ nm = <<>> /\ r = ((p ++ Word("function")) ++ Word(":")) ++ Word("1")
    BY <1>5, HeadedAt
  <2>4. nn \in Seq(Idents) /\ Len(nn) = 1 /\ nn[1] = w
    BY <2>2, <2>3
  <2>5. Tail(t) = DueName
    BY <2>3, DueHeadLists
  <2>6. r ++ Word(w) = (((p ++ Word("function")) ++ Word(":")) ++ Word("1")) ++ Word(nn[1])
    BY <2>3, <2>4
  <2>. QED  BY <2>2, <2>4, <2>5, <2>6 DEF Headed
<1>. QED  BY <1>2, <1>3, <1>4, <1>5

LEMMA TextExpect ==
    ASSUME ParserInv, NEW text, Truthful(text), Expect
    PROVE  TextInv'
<1>1. ParserInv'
  BY HandlerGoesOn
<1>2. /\ mode = "reading" /\ mode' = "reading" /\ todo # <<>> /\ IsToken(Head(todo)) /\ todo' = Tail(todo)
      /\ UNCHANGED <<open, blocks, decl, program>>
  BY ExpectFacts
<1>3. PICK w \in Tokens : /\ Matches(w, Head(todo)) /\ Advance(w)
                          /\ names' = IF w \in Idents THEN Append(names, w) ELSE names
  BY ExpectFacts
<1>4. open # <<>>
  BY <1>2 DEF ParserInv, Parsing, Agenda
<1>5. read' \in Text
  BY <1>3, ReadsOn
<1>6. TopOf(open).kind \in Listing \cup {"types"} \cup Bodies
  BY <1>2, <1>4, Place
<1>7. CASE TopOf(open).kind \in Listing
  <2>1. DOMAIN decl' = DOMAIN Nothing
    BY <1>2 DEF Truthful
  <2>. QED  BY <1>1, <1>2, <1>4, <1>5, <1>7, <2>1, ClassGoesOn
<1>8. CASE TopOf(open).kind = "types"
  <2>1. AtTypes(read, todo, names, open, decl, program, text)
    BY <1>2, <1>4, <1>8, Place
  <2>2. PICK p : Story(p, program, text) /\ Typed(WithoutCommas(read), p, decl, todo, names)
    BY <2>1 DEF AtTypes
  <2>3. Head(todo) = "("
    <3>1. ~IsToken("comma") /\ ~IsToken("AddType")
      BY StepsAreNoTokens DEF Steps
    <3>. QED  BY <1>2, <2>2, <3>1, TypedAt
  <2>4. todo = <<"(">> /\ decl.types = <<>> /\ WithoutCommas(read) = p ++ Word("pure")
    BY <1>2, <2>2, <2>3, TypedAt
  <2>5. w = "(" /\ w # CommaToken
    <3>1. "(" # CommaToken
      BY Zenon DEF CommaToken
    <3>2. "(" \notin DOMAIN Names
      BY TokenMatches
    <3>. QED  BY <1>3, <2>3, <3>1, <3>2, TokenMatches
  <2>6. WithoutCommas(read') = (p ++ Word("pure")) ++ Word("(") /\ Word("(") \in Text
    BY <1>3, <2>4, <2>5, ReadsOn
  <2>7. WithoutCommas(read') = p ++ TypeList(decl')
    <3>1. Word("pure") \in Text /\ p \in Text
      <4>1. "pure" \in Tokens
        BY WordFacts
      <4>. QED  BY <2>2, <4>1, WordText DEF Story
    <3>2. (p ++ Word("pure")) ++ Word("(") = p ++ (Word("pure") ++ Word("("))
      BY <2>6, <3>1, CatText
    <3>3. (Word("pure") ++ Word("(")) ++ Nil = Word("pure") ++ Word("(")
      BY <2>6, <3>1, CatText
    <3>4. TypeList(decl') = Word("pure") ++ Word("(")
      BY <1>2, <2>4, <3>3 DEF TypeList, Nil
    <3>. QED  BY <2>6, <3>2, <3>4
  <2>8. todo' = Nil
    BY <1>2, <2>4 DEF Nil
  <2>9. Typed(WithoutCommas(read'), p, decl', todo', names')
    BY <2>7, <2>8 DEF Typed
  <2>10. HeadOk(decl') /\ decl'.pure /\ ~decl'.nojit /\ Len(open') = 1 /\ TopOf(open').kind = "types"
    BY <1>2, <1>8, <2>1 DEF AtTypes
  <2>. QED  BY <1>2, <1>5, <2>2, <2>9, <2>10, TypesTold
<1>9. CASE AtHead(read, todo, names, open, decl, program, text)
  <2>1. PICK p \in Text : Len(p) + 6 = decl.from /\ Headed(read, p, todo, names)
    BY <1>9 DEF AtHead
  <2>2. PICK q : Story(q, program, text) /\ Headed(WithoutCommas(read), q ++ Heading(decl), todo, names)
    BY <1>9 DEF AtHead
  <2>3. Headed(read ++ Word(w), p, todo', names') /\ w # CommaToken
    BY <1>2, <1>3, <2>1, HeadMoves
  <2>4. Headed(WithoutCommas(read) ++ Word(w), q ++ Heading(decl), todo', names')
    BY <1>2, <1>3, <2>2, HeadMoves
  <2>5. read' = read ++ Word(w) /\ WithoutCommas(read') = WithoutCommas(read) ++ Word(w)
    BY <1>3, <2>3, ReadsOn
  <2>6. AtHead(read', todo', names', open', decl', program, text)
    <3>1. Len(open') = 1 /\ open'[1].kind = "function" /\ open'[1].parts = <<>> /\ HeadOk(decl') /\ decl' = decl
      BY <1>2, <1>9 DEF AtHead
    <3>2. \E x \in Text : Len(x) + 6 = decl'.from /\ Headed(read', x, todo', names')
      BY <2>1, <2>3, <2>5, <3>1
    <3>3. \E x : Story(x, program, text) /\ Headed(WithoutCommas(read'), x ++ Heading(decl'), todo', names')
      BY <2>2, <2>4, <2>5, <3>1
    <3>. QED  BY <3>1, <3>2, <3>3 DEF AtHead
  <2>7. Somewhere(read', todo', names', open', blocks, decl', program, text)
    BY <2>6 DEF Somewhere
  <2>8. DOMAIN decl' = DOMAIN Nothing
    BY <1>2 DEF Truthful
  <2>. QED  BY <1>2, <1>5, <2>7, <2>8, StillTold
<1>10. CASE AtBody(read, todo, names, open, blocks, decl, program, text)
  BY <1>10, TextExpectInBody
<1>. QED  BY <1>2, <1>4, <1>6, <1>7, <1>8, <1>9, <1>10, Place
-----------------------------------------------------------------------------
Records == {"NameIt", "AddType", "AddInterface", "AddMethod", "AddField", "Resize"}

LEMMA DeclareFacts ==
    ASSUME Declare
    PROVE  /\ mode = "reading" /\ mode' = "reading" /\ todo # <<>> /\ Head(todo) \in Records /\ todo' = Tail(todo)
           /\ UNCHANGED <<read, names, open, blocks, program>>
           /\ Head(todo) = "NameIt" => decl' = [decl EXCEPT !.name = names[1]]
           /\ Head(todo) = "AddType" => decl' = [decl EXCEPT !.types = Append(@, names[1])]
           /\ DOMAIN decl' = DOMAIN decl
<1>1. /\ mode = "reading" /\ mode' = "reading" /\ todo # <<>> /\ todo' = Tail(todo)
      /\ UNCHANGED <<read, names, open, blocks, program>>
  BY DEF Declare
<1>. DEFINE h == Head(todo)
<1>2. h \in Records
  BY DEF Declare, Records
<1>3. h = "NameIt" => decl' = [decl EXCEPT !.name = names[1]]
  BY DEF Declare
<1>4. h = "AddType" => decl' = [decl EXCEPT !.types = Append(@, names[1])]
  BY DEF Declare
<1>5. DOMAIN decl' = DOMAIN decl
  <2>1. h = "AddInterface" => decl' = [decl EXCEPT !.interfaces = @ \cup {names[1]}]
    BY DEF Declare
  <2>2. h = "AddMethod" => decl' = [decl EXCEPT
                    !.methods = {m \in @ : m[1] # names[1]} \cup {<<names[1], names[2]>>},
                    !.destructor = @ \/ names[1] = Virtual \/ names[2] = DestructorOf[decl.name]]
    BY DEF Declare
  <2>3. h = "AddField" => decl' = [decl EXCEPT !.fields = Append(@, names[2])]
    BY DEF Declare
  <2>4. h = "Resize" => decl' = [decl EXCEPT !.methods = {}, !.fields = <<>>, !.interfaces = {}]
    BY DEF Declare
  <2>. HIDE DEF h
  <2>5. CASE h = "NameIt"
    BY <1>3, <2>5
  <2>6. CASE h = "AddType"
    BY <1>4, <2>6
  <2>7. CASE h = "AddInterface"
    BY <2>1, <2>7
  <2>8. CASE h = "AddMethod"
    BY <2>2, <2>8
  <2>9. CASE h = "AddField"
    BY <2>3, <2>9
  <2>10. CASE h = "Resize"
    BY <2>4, <2>10
  <2>. QED  BY <1>2, <2>5, <2>6, <2>7, <2>8, <2>9, <2>10 DEF Records
<1>. QED  BY <1>1, <1>2, <1>3, <1>4, <1>5
-----------------------------------------------------------------------------
LEMMA TipRecords ==
    ASSUME NEW r, NEW p, NEW c, NEW t, NEW nm, NEW text, Tip(r, p, c, t, nm, text), t # <<>>
    PROVE  Head(t) \notin Records
<1>1. Records \subseteq Steps /\ "then" \notin Records
  BY DEF Records, Steps
<1>2. \/ t = DueBlock \/ t = DueBrace \/ t = DueThen
      \/ nm[1] \in Commands /\ Operand[nm[1]] # "none" /\ t = <<Operand[nm[1]], "AddCommand">>
      \/ t = <<"AddCommand">>
      \/ t \in {<<s>> : s \in {"Else", "AddNode", "AddFunction", "SetInitStatic"}}
  BY DEF Tip
<1>3. CASE t = DueBlock \/ t = DueBrace \/ t = DueThen
  <2>1. Head(t) \in {"NewBlock", Lbrace, "then"}
    BY <1>3, DueLists
  <2>2. Lbrace \notin Records /\ "NewBlock" \notin Records
    BY <1>1, LbraceIsNoStep DEF Records
  <2>. QED  BY <1>1, <2>1, <2>2
<1>4. CASE nm[1] \in Commands /\ Operand[nm[1]] # "none" /\ t = <<Operand[nm[1]], "AddCommand">>
  BY <1>1, <1>4, OperandFacts, DueLists
<1>5. CASE t = <<"AddCommand">> \/ t \in {<<s>> : s \in {"Else", "AddNode", "AddFunction", "SetInitStatic"}}
  <2>1. PICK s \in {"AddCommand", "Else", "AddNode", "AddFunction", "SetInitStatic"} : t = <<s>>
    BY <1>5
  <2>2. Head(t) = s
    BY <2>1, DueLists
  <2>. QED  BY <2>2 DEF Records
<1>. QED  BY <1>2, <1>3, <1>4, <1>5

LEMMA TextAddType ==
    ASSUME ParserInv, NEW text, Truthful(text), Declare, open # <<>>, TopOf(open).kind = "types"
    PROVE  TextInv'
<1>1. /\ mode = "reading" /\ mode' = "reading" /\ todo # <<>> /\ Head(todo) \in Records /\ todo' = Tail(todo)
      /\ UNCHANGED <<read, names, open, blocks, program>>
      /\ Head(todo) = "AddType" => decl' = [decl EXCEPT !.types = Append(@, names[1])]
  BY DeclareFacts
<1>2. AtTypes(read, todo, names, open, decl, program, text)
  BY <1>1, Place
<1>3. PICK p : Story(p, program, text) /\ Typed(WithoutCommas(read), p, decl, todo, names)
  BY <1>2 DEF AtTypes
<1>4. Head(todo) = "AddType"
  <2>1. Head(todo) \in {"(", "comma", "AddType"}
    BY <1>1, <1>3, TypedAt
  <2>. QED  BY <1>1, <2>1 DEF Records
<1>5. /\ todo = <<"AddType", "comma">> /\ names \in Seq(Idents) /\ Len(names) = 1
      /\ WithoutCommas(read) = (p ++ TypeList(decl)) ++ Word(names[1])
  BY <1>1, <1>3, <1>4, TypedAt
<1>6. HeadOk(decl) /\ decl.pure /\ ~decl.nojit /\ names[1] \in Idents
  BY <1>2, <1>5 DEF AtTypes
<1>. DEFINE w == names[1]
<1>7. /\ DOMAIN decl' = DOMAIN decl /\ decl'.types = Append(decl.types, w) /\ decl'.pure = decl.pure
      /\ decl'.nojit = decl.nojit
  <2>1. {"types", "pure", "nojit"} \subseteq DOMAIN decl
    BY <1>6, NothingFacts DEF HeadOk
  <2>2. decl' = [decl EXCEPT !.types = Append(@, w)]
    BY <1>1, <1>4
  <2>. QED  BY <2>1, <2>2
<1>. HIDE DEF w
<1>8. decl'.types \in Seq(Idents)
  BY <1>6, <1>7 DEF HeadOk, w
<1>9. HeadOk(decl') /\ decl'.pure /\ ~decl'.nojit
  BY <1>6, <1>7, <1>8 DEF HeadOk
<1>10. decl.types \in Text /\ w \in Tokens
  BY <1>6, HeadTypes, WordFacts DEF w
<1>11. decl'.types = decl.types ++ Word(w) /\ Word(w) \in Text
  BY <1>7, <1>10, AppendText
<1>12. TypeList(decl') = TypeList(decl) ++ Word(w) /\ TypeList(decl) \in Text
  <2>1. "pure" \in Tokens /\ "(" \in Tokens
    BY WordFacts
  <2>2. Word("pure") ++ Word("(") \in Text
    BY <2>1, WordText, CatText
  <2>3. ((Word("pure") ++ Word("(")) ++ decl.types) ++ Word(w) = (Word("pure") ++ Word("(")) ++ (decl.types ++ Word(w))
    BY <1>10, <1>11, <2>2, CatText
  <2>. QED  BY <1>6, <1>11, <2>3, TypeListText DEF TypeList
<1>13. WithoutCommas(read') = p ++ TypeList(decl')
  <2>1. (p ++ TypeList(decl)) ++ Word(w) = p ++ (TypeList(decl) ++ Word(w))
    BY <1>3, <1>11, <1>12, CatText DEF Story
  <2>. QED  BY <1>1, <1>5, <1>12, <2>1 DEF w
<1>14. todo' = <<"comma">>
  BY <1>1, <1>5
<1>15. Typed(WithoutCommas(read'), p, decl', todo', names')
  BY <1>13, <1>14 DEF Typed
<1>16. read' \in Text /\ Len(open') = 1 /\ TopOf(open').kind = "types"
  BY <1>1, <1>2 DEF AtTypes, Truthful
<1>. QED  BY <1>1, <1>3, <1>9, <1>15, <1>16, TypesTold

LEMMA OneLonger ==
    ASSUME NEW a \in Text, NEW b \in Text, Len(b) = 1
    PROVE  a ++ b \in Text /\ Len(a ++ b) = Len(a) + 1 /\ Len(a) \in Nat
  BY JoinedBraces

(* The body of a function starts four words after its keyword.             *)
LEMMA TextNameIt ==
    ASSUME ParserInv, NEW text, Truthful(text), Declare,
           AtHead(read, todo, names, open, decl, program, text)
    PROVE  TextInv'
<1>1. /\ mode = "reading" /\ mode' = "reading" /\ todo # <<>> /\ Head(todo) \in Records /\ todo' = Tail(todo)
      /\ UNCHANGED <<read, names, open, blocks, program>>
      /\ Head(todo) = "NameIt" => decl' = [decl EXCEPT !.name = names[1]]
  BY DeclareFacts
<1>2. PICK x \in Text : Len(x) + 6 = decl.from /\ Headed(read, x, todo, names)
  BY DEF AtHead
<1>3. PICK p : Story(p, program, text) /\ Headed(WithoutCommas(read), p ++ Heading(decl), todo, names)
  BY DEF AtHead
<1>4. Head(todo) = "NameIt"
  <2>1. FunctionPlace \notin Records
    BY Zenon DEF Records, FunctionPlace
  <2>2. Head(todo) \in {":", "1", FunctionPlace, "NameIt"}
    BY <1>2, HeadedAt
  <2>. QED  BY <1>1, <2>1, <2>2 DEF Records
<1>. DEFINE w == names[1]
            f == Word("function")
            k == Word(":")
            o == Word("1")
            n == Word(w)
            h == Heading(decl)
<1>5. /\ todo = DueName /\ names \in Seq(Idents) /\ Len(names) = 1
      /\ read = (((x ++ f) ++ k) ++ o) ++ n
  BY <1>2, <1>4, HeadedAt
<1>6. WithoutCommas(read) = ((((p ++ h) ++ f) ++ k) ++ o) ++ n
  BY <1>3, <1>4, HeadedAt
<1>7. w \in Idents /\ w \in Tokens
  <2>1. w \in Idents
    BY <1>5
  <2>. HIDE DEF w
  <2>. QED  BY <2>1, WordFacts
<1>8. HeadOk(decl) /\ Len(open) = 1 /\ open[1].kind = "function" /\ open[1].parts = <<>>
  BY DEF AtHead
<1>9. f \in Text /\ k \in Text /\ o \in Text /\ n \in Text /\ Len(f) = 1 /\ Len(k) = 1 /\ Len(o) = 1 /\ Len(n) = 1
  <2>1. "function" \in Tokens /\ ":" \in Tokens /\ "1" \in Tokens
    BY WordFacts
  <2>. QED  BY <1>7, <2>1, WordText
<1>10. h \in Text /\ p \in Text
  BY <1>3, <1>8, HeadTypes DEF Story
<1>11. /\ decl'.name = w /\ decl'.pure = decl.pure /\ decl'.nojit = decl.nojit /\ decl'.types = decl.types
       /\ decl'.from = decl.from /\ DOMAIN decl' = DOMAIN decl
  <2>1. {"types", "pure", "nojit", "name", "from"} \subseteq DOMAIN decl
    BY <1>8, NothingFacts DEF HeadOk
  <2>2. decl' = [decl EXCEPT !.name = w]
    BY <1>1, <1>4
  <2>. QED  BY <2>1, <2>2
<1>12. HeadOk(decl') /\ Heading(decl') = h
  <2>1. HeadOk(decl')
    BY <1>8, <1>11 DEF HeadOk
  <2>2. Heading(decl') = Heading(decl)
    BY <1>11, Zenon DEF Heading
  <2>. QED  BY <2>1, <2>2
<1>. HIDE DEF w, f, k, o, n, h
<1>13. Preface("function", decl') = (((h ++ f) ++ k) ++ o) ++ n
  BY <1>11, <1>12 DEF Preface, f, k, o, n
<1>14. WithoutCommas(read) = p ++ Preface("function", decl')
  <2>1. (p ++ h) ++ f = p ++ (h ++ f) /\ h ++ f \in Text
    BY <1>9, <1>10, CatText
  <2>2. (p ++ (h ++ f)) ++ k = p ++ ((h ++ f) ++ k) /\ (h ++ f) ++ k \in Text
    BY <1>9, <1>10, <2>1, CatText
  <2>3. (p ++ ((h ++ f) ++ k)) ++ o = p ++ (((h ++ f) ++ k) ++ o) /\ ((h ++ f) ++ k) ++ o \in Text
    BY <1>9, <1>10, <2>2, CatText
  <2>4. (p ++ (((h ++ f) ++ k) ++ o)) ++ n = p ++ ((((h ++ f) ++ k) ++ o) ++ n)
    BY <1>9, <1>10, <2>3, CatText
  <2>. QED  BY <1>6, <1>13, <2>1, <2>2, <2>3, <2>4
<1>15. Len(read) + 2 = decl'.from
  <2>1. x ++ f \in Text /\ Len(x ++ f) = Len(x) + 1 /\ Len(x) \in Nat
    BY <1>2, <1>9, OneLonger
  <2>2. (x ++ f) ++ k \in Text /\ Len((x ++ f) ++ k) = Len(x ++ f) + 1
    BY <1>9, <2>1, OneLonger
  <2>3. ((x ++ f) ++ k) ++ o \in Text /\ Len(((x ++ f) ++ k) ++ o) = Len((x ++ f) ++ k) + 1
    BY <1>9, <2>2, OneLonger
  <2>4. Len((((x ++ f) ++ k) ++ o) ++ n) = Len(((x ++ f) ++ k) ++ o) + 1
    BY <1>9, <2>3, OneLonger
  <2>. DEFINE lx == Len(x)
              lr == Len(read)
              fr == decl.from
  <2>5. lr = lx + 1 + 1 + 1 + 1
    BY <1>5, <2>1, <2>2, <2>3, <2>4
  <2>6. lx + 6 = fr /\ lx \in Nat
    BY <1>2, <2>1
  <2>. HIDE DEF lx, lr, fr
  <2>7. lr + 2 = fr
    BY <2>5, <2>6
  <2>. QED  BY <1>11, <2>7 DEF lr, fr
<1>16. todo' = DueBrace
  BY <1>1, <1>5, DueHeadLists
<1>17. AtBody(read', DueBrace, names', open', blocks, decl', program, text)
  <2>1. read' \in Text /\ read' = read /\ open' = open
    BY <1>1 DEF Truthful
  <2>2. decl'.name \in Idents
    BY <1>7, <1>11
  <2>3. "function" \in {"init", "function"} /\ "function" # "init"
    OBVIOUS
  <2>. QED  BY <1>3, <1>8, <1>12, <1>14, <1>15, <2>1, <2>2, <2>3, EntersBody
<1>18. Somewhere(read', todo', names', open', blocks, decl', program, text)
  BY <1>16, <1>17 DEF Somewhere
<1>19. read' \in Text /\ DOMAIN decl' = DOMAIN Nothing
  BY <1>1, <1>8, <1>11 DEF Truthful, HeadOk
<1>. QED  BY <1>1, <1>18, <1>19, StillTold

LEMMA TextDeclare ==
    ASSUME ParserInv, NEW text, Truthful(text), Declare
    PROVE  TextInv'
<1>1. ParserInv'
  BY HandlerGoesOn
<1>2. /\ mode = "reading" /\ mode' = "reading" /\ todo # <<>> /\ Head(todo) \in Records
      /\ UNCHANGED <<read, open, blocks, program>> /\ DOMAIN decl' = DOMAIN decl
  BY DeclareFacts
<1>3. open # <<>>
  BY <1>2 DEF ParserInv, Parsing, Agenda
<1>4. read' \in Text /\ DOMAIN decl' = DOMAIN Nothing
  BY <1>2 DEF Truthful
<1>5. CASE TopOf(open).kind \in Listing
  BY <1>1, <1>2, <1>3, <1>4, <1>5, ClassGoesOn
<1>6. CASE TopOf(open).kind = "types"
  BY <1>3, <1>6, TextAddType
<1>7. CASE AtHead(read, todo, names, open, decl, program, text)
  BY <1>7, TextNameIt
<1>8. CASE AtBody(read, todo, names, open, blocks, decl, program, text)
  <2>1. PICK s, q : Tip(s, q, TopOf(open), todo, names, text)
    BY <1>8, TipInBody
  <2>. QED  BY <1>2, <2>1, TipRecords
<1>. QED  BY <1>2, <1>3, <1>5, <1>6, <1>7, <1>8, Place
-----------------------------------------------------------------------------
(* Every step of the parser keeps what it has built true to what it read.  *)
LEMMA TextSteps ==
    ASSUME ParserInv, TextInv, ParserNext
    PROVE  TextInv'
<1>1. PICK text : Truthful(text)
  BY DEF TextInv
<1>2. CASE Expect \/ Comma \/ Declare
  BY <1>1, <1>2, TextExpect, TextComma, TextDeclare
<1>3. CASE LiteralOutOfRange \/ Refuse \/ UnknownFieldType \/ NameTaken
  BY <1>1, <1>3, TextFailure
<1>4. CASE BeginDeclaration \/ NoJit \/ EndOfFile
  BY <1>1, <1>4, TextBeginDeclaration, TextNoJit, TextEndOfFile
<1>5. CASE Section \/ ListItem \/ EndOfList \/ EndOfClass
  BY <1>1, <1>5, TextSection, TextListItem, TextEndOfList, TextEndOfClass
<1>6. CASE AddClass \/ AddFunction \/ SetInitStatic
  BY <1>1, <1>6, TextAddClass, TextAddFunction, TextSetInitStatic
<1>7. CASE NewBlock \/ Command \/ AddCommand \/ EndOfBlock
  BY <1>1, <1>7, TextNewBlock, TextCommand, TextAddCommand, TextEndOfBlock
<1>8. CASE BeginNode \/ Else \/ ElseBranch \/ AddNode
  BY <1>1, <1>8, TextBeginNode, TextElse, TextElseBranch, TextAddNode
<1>. QED  BY <1>2, <1>3, <1>4, <1>5, <1>6, <1>7, <1>8 DEF ParserNext

LEMMA TextStarts ==
    ASSUME ParserInit
    PROVE  TextInv
<1>. DEFINE text == [b \in 1..0 |-> Nil]
<1>1. /\ read = <<>> /\ todo = <<>> /\ open = <<>> /\ blocks = <<>> /\ decl = Nothing
      /\ program = <<>> /\ mode = "reading"
  BY DEF ParserInit
<1>2. IsSeq(<<>>) /\ Len(<<>>) = 0
  <2>1. <<>> \in Seq({}) /\ Len(<<>>) = 0
    OBVIOUS
  <2>. QED  BY <2>1 DEF IsSeq
<1>3. WellFormed(blocks)
  BY <1>1, <1>2 DEF WellFormed
<1>4. Tells(text, blocks)
  BY <1>1, <1>2 DEF Tells
<1>5. Kept(program, text)
  BY <1>1, <1>2 DEF Kept
<1>6. Story(Nil, program, text)
  <2>1. Account(program, text) = Nil
    <3>. DEFINE g == [i \in DOMAIN program |-> Written(program[i], text)]
    <3>1. DOMAIN g = 1..0 /\ g = [i \in DOMAIN g |-> g[i]]
      BY <1>1
    <3>2. FlattenSeq(g) = Nil
      BY <3>1, FlattenNil
    <3>. QED  BY <3>2 DEF Account
  <2>. QED  BY <2>1, CatText DEF Story
<1>. HIDE DEF text
<1>7. AtFile(read, todo, open, decl, program, text)
  <2>1. WithoutCommas(read) = Nil
    BY <1>1, CommasNil DEF Nil
  <2>2. WithoutCommas(read) = Nil ++ Heading(decl) /\ HeadOk(decl)
    BY <1>1, <2>1, HeadNothing, CatText
  <2>. QED  BY <1>1, <1>6, <2>2 DEF AtFile
<1>8. Somewhere(read, todo, names, open, blocks, decl, program, text)
  BY <1>7 DEF Somewhere
<1>9. read \in Text /\ DOMAIN decl = DOMAIN Nothing
  BY <1>1, CatText DEF Nil
<1>10. Truthful(text)
  BY <1>1, <1>3, <1>4, <1>5, <1>8, <1>9 DEF Truthful, Reported
<1>. QED  BY <1>10 DEF TextInv

LEMMA TextRests ==
    ASSUME TextInv, UNCHANGED parserVars
    PROVE  TextInv'
<1>1. PICK text : Truthful(text)
  BY DEF TextInv
<1>2. UNCHANGED <<read, todo, names, open, blocks, decl, program, mode>>
  BY DEF parserVars
<1>3. Truthful(text)'
  BY <1>1, <1>2 DEF Truthful
<1>. QED  BY <1>3 DEF TextInv

LEMMA TextResult ==
    ASSUME TextInv
    PROVE  NothingIsMisplaced /\ CompilerSeesTheBody
<1>1. PICK text : Truthful(text)
  BY DEF TextInv
<1>2. Texts = text
  BY <1>1, TextsAre DEF Truthful, Reported
<1>3. IsSeq(program) /\ DOMAIN program = 1..Len(program) /\ \A i \in 1..Len(program) : KeptOne(program[i], text)
  BY <1>1 DEF Truthful, Reported, Kept, IsSeq
<1>4. NothingIsMisplaced
  <2>1. ASSUME mode = "parsed", Declared("class") = {}
        PROVE  FlattenSeq([i \in DOMAIN program |-> Written(program[i], Texts)]) = WithoutCommas(read)
    <3>1. NoClass(program)
      BY <1>3, <2>1 DEF NoClass, Declared
    <3>2. WithoutCommas(read) = Account(program, text)
      BY <1>1, <2>1, <3>1 DEF Truthful
    <3>. QED  BY <1>2, <3>2 DEF Account
  <2>. QED  BY <2>1 DEF NothingIsMisplaced
<1>5. CompilerSeesTheBody
  <2>1. ASSUME NEW i \in Declared("function"), program[i].block # 0, ~program[i].nojit
        PROVE  program[i].copy = Texts[program[i].block]
    <3>1. i \in 1..Len(program) /\ program[i].what = "function"
      BY <1>3 DEF Declared
    <3>. QED  BY <1>2, <1>3, <2>1, <3>1 DEF KeptOne
  <2>. QED  BY <2>1 DEF CompilerSeesTheBody
<1>. QED  BY <1>4, <1>5
===============================================================================
