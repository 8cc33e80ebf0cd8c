---------------------------- MODULE BytecodeParser ----------------------------
(***************************************************************************)
(* The parser of the bytecode: one handler per kind of declaration, one    *)
(* for commands and one each for if and while, which call each other and   *)
(* share the session.  The file is any sequence of tokens; a token is      *)
(* chosen when the code looks at it.                                       *)
(*                                                                         *)
(* "todo" is the rest of the running handler: tokens it expects, in order, *)
(* and, by name, what it does when it has them; an identifier is expected  *)
(* by the place it has in the grammar.  Blocks are numbered as they are    *)
(* made; a statement holds the numbers of its blocks.                      *)
(***************************************************************************)
EXTENDS Integers, Sequences, SequencesExt, FiniteSets

CONSTANTS
    Names,          \* per place in the grammar the identifiers that are tried
    Operand,        \* per command the place of its operand, or "none"
    DestructorOf,   \* per class name the id of its destructor
    Known,          \* builtin classes and functions
    FieldTypes,     \* kVariableAccessorsByTypeName
    JitFactory,     \* whether a compiler is there
    MaxTokens,      \* bound: length of the file
    MaxParts        \* bound: sections of a class, items of a list, statements of a block

ASSUME ParserAssumption == JitFactory \in BOOLEAN /\ MaxTokens \in Nat /\ MaxParts \in Nat

(* What a handler does when it has its tokens.                             *)
Steps == {"NewBlock", "AddCommand", "AddNode", "Else", "AddFunction", "SetInitStatic", "AddClass",
          "NameIt", "AddType", "AddInterface", "AddMethod", "AddField", "Resize", "comma"}

ASSUME PlacesAssumption ==
    /\ DOMAIN Names \cap Steps = {}
    /\ \A c \in DOMAIN Operand : Operand[c] \in DOMAIN Names \cup {"1", "none"}

VARIABLES
    read,     \* the tokens before pos_
    isnt,     \* what the current token is known not to be
    todo,     \* the rest of the running handler
    names,    \* the identifiers it has consumed
    open,     \* the constructs that are open, the innermost last
    blocks,   \* the blocks made so far
    current,  \* current_block of the session, 0 for nullptr
    decl,     \* the head of the function or the table of the class being read
    program,  \* what has been declared, in order
    mode      \* "reading", "parsed", "error" or "exception"

parserVars == <<read, isnt, todo, names, open, blocks, current, decl, program, mode>>

Keywords == {"init-static", "vtable", "pure", "no-jit", "function", "if", "then", "else",
             "while", "size", "interfaces", "methods", "vartable"}
Puncts == {"{", "}", "(", ")", ":", ",", "@"}
Idents == UNION {Names[p] : p \in DOMAIN Names}
Commands == DOMAIN Operand
(* The lexer tells keywords, punctuation, literals and identifiers apart.  *)
ASSUME VocabularyAssumption ==
    /\ Idents \cap (Keywords \cup Puncts \cup {"1"}) = {}
    /\ Commands \cap (Keywords \cup Puncts) = {}
    /\ DOMAIN Names \cap (Keywords \cup Puncts \cup {"1"}) = {}

Tokens == Keywords \cup Puncts \cup Idents \cup Commands \cup {"1", "eof"}
Virtual == "_destructor_<M>"

(* The kinds of open constructs: those that hold statements, and those     *)
(* that hold a list.                                                       *)
Bodies == {"init", "function", "if", "while"}
Item == [types |-> <<"AddType", "comma">>,
         interfaces |-> <<"AddInterface", "comma">>,
         methods |-> <<":", "real", "AddMethod", "comma">>,
         vartable |-> <<":", "type", "@", "1", "AddField", "comma">>]
FirstOf == [types |-> "argument type", interfaces |-> "interface", methods |-> "virtual", vartable |-> "field"]
ASSUME ItemsAssumption == \A kind \in DOMAIN Item : FirstOf[kind] \in DOMAIN Names

Nothing == [pure |-> FALSE, types |-> <<>>, nojit |-> FALSE, from |-> 0, name |-> "",
            methods |-> {}, fields |-> <<>>, interfaces |-> {}, destructor |-> FALSE]

Innermost == open[Len(open)]
Inside == IF open = <<>> THEN "file" ELSE Innermost.kind
Idle == mode = "reading" /\ todo = <<>>
Doing(what) == mode = "reading" /\ todo # <<>> /\ Head(todo) = what
Declared(what) == {i \in DOMAIN program : program[i].what = what}
FunctionIds == {program[i].name : i \in Declared("function")}
ClassNames == {program[i].name : i \in Declared("class")}
-----------------------------------------------------------------------------
(* The session: looking at the current token, and going past it.           *)
Current(t) == t \in Tokens \ {isnt} /\ (Len(read) < MaxTokens \/ t = "eof")
Advance(t) == Current(t) /\ read' = Append(read, t) /\ isnt' = "none"
(* An error ends Parse: its session is gone, the repositories stay.        *)
Abandon(m) ==
    /\ mode' = m
    /\ read' = <<>> /\ isnt' = "none" /\ todo' = <<>> /\ names' = <<>> /\ open' = <<>>
    /\ current' = 0 /\ decl' = Nothing
    /\ UNCHANGED <<blocks, program>>
Matches(t, e) == IF e \in DOMAIN Names THEN t \in Names[e] ELSE t = e
IsToken(e) == e \in Keywords \cup Puncts \cup DOMAIN Names \cup {"1"}

(* ExpectKeyword, ExpectPunct, ConsumeIdentifier and ConsumeIntLiteral     *)
Expect ==
    /\ mode = "reading" /\ todo # <<>> /\ IsToken(Head(todo))
    /\ \E t \in Tokens :
           /\ Matches(t, Head(todo)) /\ Advance(t)
           /\ names' = IF t \in Idents THEN Append(names, t) ELSE names
    /\ todo' = Tail(todo)
    /\ UNCHANGED <<open, blocks, current, decl, program, mode>>

(* std::stoll throws on a literal that is out of range.                    *)
LiteralOutOfRange ==
    /\ Doing("1") /\ Len(read) < MaxTokens
    /\ Abandon("exception")

(* A comma after an item of a list may be left out, also before the next.  *)
Comma ==
    /\ Doing("comma")
    /\ \/ Advance(",")
       \/ (\E t \in Tokens \ {","} : Current(t)) /\ isnt' = "," /\ UNCHANGED read
    /\ todo' = <<>> /\ names' = <<>>
    /\ UNCHANGED <<open, blocks, current, decl, program, mode>>

(* What the handlers accept here; with anything else Parse returns an error. *)
Accepted ==
    IF todo # <<>>
    THEN IF Head(todo) \in DOMAIN Names THEN Idents
         ELSE IF IsToken(Head(todo)) THEN {Head(todo)} ELSE Tokens
    ELSE CASE Inside = "file" /\ decl.nojit -> {"function"}
           [] Inside = "file" /\ decl.pure /\ ~decl.nojit -> {"no-jit", "function"}
           [] Inside = "file" /\ ~decl.pure /\ ~decl.nojit ->
                  {"vtable", "pure", "no-jit", "function", "eof"}
                    \cup (IF Declared("init") = {} THEN {"init-static"} ELSE {})
           [] Inside = "class" -> {"}", "size", "interfaces", "methods", "vartable"}
           [] Inside \in DOMAIN Item ->
                  {IF Inside = "types" THEN ")" ELSE "}"} \cup Idents
           [] Inside \in Bodies ->
                  IF Innermost.part = "else" THEN {"if", "{"}
                  ELSE Commands \cup {"if", "while", "}"}

Refuse ==
    /\ mode = "reading" /\ \E t \in Tokens \ Accepted : Current(t)
    /\ Abandon("error")
-----------------------------------------------------------------------------
(* Declarations.                                                           *)
Opened(kind) == [kind |-> kind, part |-> "body", block |-> 0, parent |-> current, parts |-> <<>>]
Close == open' = Front(open)

Counted == IF open = <<>> THEN <<>> ELSE Front(open) \o <<[Innermost EXCEPT !.parts = Append(@, 0)]>>

Begin(t, kind, rest) ==
    /\ Idle /\ t \in Accepted /\ Advance(t)
    /\ IF open = <<>> THEN TRUE ELSE Len(Innermost.parts) < MaxParts
    /\ open' = Append(Counted, Opened(kind)) /\ todo' = rest /\ names' = <<>>
    /\ UNCHANGED <<blocks, current, program, mode>>

BeginDeclaration ==
    /\ Inside = "file"
    /\ \/ Begin("init-static", "init", <<"{", "NewBlock">>) /\ UNCHANGED decl
       \/ Begin("vtable", "class", <<"class", "NameIt", "{">>) /\ UNCHANGED decl
       \/ Begin("pure", "types", <<"(">>) /\ decl' = [decl EXCEPT !.pure = TRUE]
       \/ /\ Begin("function", "function", <<":", "1", "function id", "NameIt", "{", "NewBlock">>)
          /\ decl' = [decl EXCEPT !.from = Len(read) + 6]

NoJit ==
    /\ Idle /\ Inside = "file" /\ "no-jit" \in Accepted /\ Advance("no-jit")
    /\ decl' = [decl EXCEPT !.nojit = TRUE]
    /\ UNCHANGED <<todo, names, open, blocks, current, program, mode>>

EndOfFile ==
    /\ Idle /\ Inside = "file" /\ "eof" \in Accepted /\ Current("eof")
    /\ mode' = "parsed"
    /\ UNCHANGED <<read, isnt, todo, names, open, blocks, current, decl, program>>

(* The lists of a class, and the argument types of a pure function.        *)
Section ==
    \/ /\ Inside = "class"
       /\ \E s \in {"interfaces", "methods", "vartable"} : Begin(s, s, <<"{">>)
       /\ UNCHANGED decl
    \/ /\ Inside = "class" /\ Idle /\ Advance("size")
       /\ todo' = <<":", "1", "Resize">>
       /\ UNCHANGED <<names, open, blocks, current, decl, program, mode>>

ListItem ==
    /\ Idle /\ Inside \in DOMAIN Item
    /\ \E t \in Names[FirstOf[Inside]] : Advance(t) /\ names' = <<t>>
    /\ Len(Innermost.parts) < MaxParts /\ open' = Counted
    /\ todo' = Item[Inside]
    /\ UNCHANGED <<blocks, current, decl, program, mode>>

EndOfList ==
    /\ Idle /\ Inside \in DOMAIN Item
    /\ Advance(IF Inside = "types" THEN ")" ELSE "}") /\ Close
    /\ UNCHANGED <<todo, names, blocks, current, decl, program, mode>>
(* What is done with an item that has been read.  A size replaces the      *)
(* table, and with it what was in it.                                      *)
Declare ==
    /\ mode = "reading" /\ todo # <<>>
    /\ CASE Head(todo) = "NameIt" -> decl' = [decl EXCEPT !.name = names[1]]
         [] Head(todo) = "AddType" -> decl' = [decl EXCEPT !.types = Append(@, names[1])]
         [] Head(todo) = "AddInterface" -> decl' = [decl EXCEPT !.interfaces = @ \cup {names[1]}]
         [] Head(todo) = "AddMethod" ->
                decl' = [decl EXCEPT
                    !.methods = {m \in @ : m[1] # names[1]} \cup {<<names[1], names[2]>>},
                    !.destructor = @ \/ names[1] = Virtual \/ names[2] = DestructorOf[decl.name]]
         [] Head(todo) = "AddField" ->
                names[2] \in FieldTypes /\ decl' = [decl EXCEPT !.fields = Append(@, names[2])]
         [] Head(todo) = "Resize" ->
                decl' = [decl EXCEPT !.methods = {}, !.fields = <<>>, !.interfaces = {}]
         [] OTHER -> FALSE
    /\ todo' = Tail(todo)
    /\ UNCHANGED <<read, isnt, names, open, blocks, current, program, mode>>

(* AddField looks the type up with at(), which throws.                     *)
UnknownFieldType ==
    /\ Doing("AddField") /\ names[2] \notin FieldTypes
    /\ Abandon("exception")

EndOfClass ==
    /\ Idle /\ Inside = "class" /\ Advance("}")
    /\ todo' = <<"AddClass">>
    /\ UNCHANGED <<names, open, blocks, current, decl, program, mode>>

Class(methods) == [what |-> "class", name |-> decl.name, methods |-> methods,
                   fields |-> decl.fields, interfaces |-> decl.interfaces]
Wrapper(pure, types, nojit) ==
    CASE (pure /\ types # <<>>) /\ (nojit \/ ~JitFactory) -> "Pure"
      [] (pure /\ types # <<>>) /\ ~(nojit \/ ~JitFactory) -> "PureJit"
      [] ~(pure /\ types # <<>>) /\ (nojit \/ ~JitFactory) -> "Regular"
      [] ~(pure /\ types # <<>>) /\ ~(nojit \/ ~JitFactory) -> "Jit"
Function(name, head, block, copy) ==
    [what |-> "function", name |-> name, pure |-> head.pure, types |-> head.types,
     nojit |-> head.nojit, wrapper |-> Wrapper(head.pure, head.types, head.nojit),
     block |-> block, copy |-> copy]

(* A class without a destructor gets one that does nothing.                *)
AddClass ==
    /\ Doing("AddClass")
    /\ decl.name \notin ClassNames \cup Known
    /\ decl.destructor \/ DestructorOf[decl.name] \notin FunctionIds \cup Known
    /\ program' = program \o
           IF decl.destructor THEN <<Class(decl.methods)>>
           ELSE <<Function(DestructorOf[decl.name], Nothing, 0, <<>>),
                  Class({m \in decl.methods : m[1] # Virtual}
                          \cup {<<Virtual, DestructorOf[decl.name]>>})>>
    /\ Close /\ todo' = <<>> /\ names' = <<>> /\ decl' = Nothing
    /\ UNCHANGED <<read, isnt, blocks, current, mode>>

(* CopyUntilBlockEnd: up to the brace that closes the first one open.      *)
Braces(t, tokens, n) == Cardinality({i \in 1..n : tokens[i] = t})
BlockEnd_First(tokens) == SelectInSeq(tokens, LAMBDA t : t = "}")
BlockEnd(tokens) ==
    CHOOSE n \in DOMAIN tokens :
        /\ Braces("}", tokens, n) > Braces("{", tokens, n)
        /\ \A k \in 1..(n - 1) : Braces("}", tokens, k) <= Braces("{", tokens, k)
Copied(tokens) == SubSeq(tokens, 1, BlockEnd(tokens) - 1)

AddFunction ==
    /\ Doing("AddFunction")
    /\ decl.name \notin FunctionIds \cup Known
    /\ program' = Append(program,
           Function(decl.name, decl, Innermost.block,
                    IF decl.nojit THEN <<>> ELSE Copied(SubSeq(read, decl.from, Len(read)))))
    /\ Close /\ todo' = <<>> /\ names' = <<>> /\ decl' = Nothing /\ current' = 0
    /\ UNCHANGED <<read, isnt, blocks, mode>>

SetInitStatic ==
    /\ Doing("SetInitStatic")
    /\ program' = Append(program, [what |-> "init", name |-> "", block |-> Innermost.block])
    /\ Close /\ todo' = <<>> /\ current' = 0
    /\ UNCHANGED <<read, isnt, names, blocks, decl, mode>>

(* The repositories take a name once.                                      *)
NameTaken ==
    /\ \/ Doing("AddFunction") /\ decl.name \in FunctionIds \cup Known
       \/ /\ Doing("AddClass")
          /\ \/ decl.name \in ClassNames \cup Known
             \/ ~decl.destructor /\ DestructorOf[decl.name] \in FunctionIds \cup Known
    /\ Abandon("error")
-----------------------------------------------------------------------------
(* Statements.  They go into the block their parser was called with; an if *)
(* or a while goes into the block that was the current one when it began.  *)
NewBlock ==
    /\ Doing("NewBlock")
    /\ blocks' = Append(blocks, <<>>)
    /\ open' = [open EXCEPT ![Len(open)].block = Len(blocks')]
    /\ current' = Len(blocks') /\ todo' = <<>>
    /\ UNCHANGED <<read, isnt, names, decl, program, mode>>

InBody == Idle /\ Inside \in Bodies /\ Innermost.part # "else"
HasRoom == Len(blocks[Innermost.block]) < MaxParts

Command ==
    /\ InBody /\ HasRoom
    /\ \E t \in Commands :
           /\ Advance(t)
           /\ names' = <<t>>
           /\ todo' = (IF Operand[t] = "none" THEN <<>> ELSE <<Operand[t]>>) \o <<"AddCommand">>
    /\ UNCHANGED <<open, blocks, current, decl, program, mode>>
AddCommand ==
    /\ Doing("AddCommand")
    /\ blocks' = [blocks EXCEPT ![Innermost.block] = Append(@, names)]
    /\ todo' = <<>> /\ names' = <<>>
    /\ UNCHANGED <<read, isnt, open, current, decl, program, mode>>

BeginNode ==
    /\ InBody /\ HasRoom
    /\ \E t \in {"if", "while"} :
           Advance(t) /\ open' = Append(open, [Opened(t) EXCEPT !.part = "condition"])
    /\ todo' = <<"{", "NewBlock">>
    /\ UNCHANGED <<names, blocks, current, decl, program, mode>>

(* What follows the brace that ends a block.                               *)
AfterBlock(c) ==
    CASE c.kind = "init" -> <<"SetInitStatic">>
      [] c.kind = "function" -> <<"AddFunction">>
      [] c.part = "condition" -> <<"then", "{", "NewBlock">>
      [] c.kind = "while" /\ c.part = "body" -> <<"AddNode">>
      [] c.kind = "if" /\ c.part = "body" -> <<"Else">>
      [] c.kind = "if" /\ c.part = "last" -> <<"AddNode">>

EndOfBlock ==
    /\ InBody /\ Advance("}")
    /\ open' = [open EXCEPT ![Len(open)].parts = Append(@, Innermost.block),
                            ![Len(open)].part = IF @ = "condition" THEN "body" ELSE @]
    /\ todo' = AfterBlock(Innermost)
    /\ UNCHANGED <<names, blocks, current, decl, program, mode>>

Else ==
    /\ Doing("Else")
    /\ \/ /\ Advance("else")
          /\ open' = [open EXCEPT ![Len(open)].part = "else"] /\ todo' = <<>>
       \/ /\ (\E t \in Tokens \ {"else"} : Current(t))
          /\ isnt' = "else" /\ todo' = <<"AddNode">> /\ UNCHANGED <<read, open>>
    /\ UNCHANGED <<names, blocks, current, decl, program, mode>>

ElseBranch ==
    /\ Idle /\ Inside = "if" /\ Innermost.part = "else"
    /\ \/ /\ Advance("if")
          /\ open' = [open EXCEPT ![Len(open)].part = "condition"]
          /\ todo' = <<"{", "NewBlock">>
       \/ /\ Advance("{")
          /\ open' = [open EXCEPT ![Len(open)].part = "last"]
          /\ todo' = <<"NewBlock">>
    /\ UNCHANGED <<names, blocks, current, decl, program, mode>>

(* The current block is the parent again, then the block of the caller.    *)
AddNode_KeepsBlock ==
    /\ Doing("AddNode")
    /\ blocks' = [blocks EXCEPT ![Innermost.parent] = Append(@, <<Innermost.kind, Innermost.parts>>)]
    /\ Close /\ todo' = <<>>
    /\ UNCHANGED <<read, isnt, names, current, decl, program, mode>>
AddNode ==
    /\ Doing("AddNode")
    /\ blocks' = [blocks EXCEPT ![Innermost.parent] = Append(@, <<Innermost.kind, Innermost.parts>>)]
    /\ Close /\ todo' = <<>>
    /\ current' = open[Len(open) - 1].block
    /\ UNCHANGED <<read, isnt, names, decl, program, mode>>

ParserInit ==
    /\ read = <<>> /\ isnt = "none" /\ todo = <<>> /\ names = <<>> /\ open = <<>>
    /\ blocks = <<>> /\ current = 0 /\ decl = Nothing /\ program = <<>>
    /\ mode = "reading"

ParserNext ==
    \/ Expect \/ LiteralOutOfRange \/ Comma \/ Refuse
    \/ BeginDeclaration \/ NoJit \/ EndOfFile \/ Section \/ ListItem \/ EndOfList
    \/ Declare \/ UnknownFieldType \/ EndOfClass \/ AddClass \/ AddFunction \/ SetInitStatic
    \/ NameTaken \/ NewBlock \/ Command \/ AddCommand \/ BeginNode \/ EndOfBlock
    \/ Else \/ ElseBranch \/ AddNode
-----------------------------------------------------------------------------
(* What the blocks say, written out again: the words before the i-th block *)
(* of an if or a while of n blocks, a statement by the texts of its blocks, *)
(* and all texts together.                                                 *)
Braced(tokens) == <<"{">> \o tokens \o <<"}">>
Before(kind, i, n) ==
    IF i = 1 THEN <<kind>>
    ELSE IF i % 2 = 0 THEN <<"then">>
    ELSE IF i = n THEN <<"else">> ELSE <<"else", "if">>
Spelled(s, text) ==
    IF s[1] \in {"if", "while"}
    THEN FlattenSeq([i \in DOMAIN s[2] |->
             Before(s[1], i, Len(s[2])) \o Braced(text[s[2][i]])])
    ELSE IF Operand[s[1]] = "1" THEN s \o <<"1">> ELSE s
Texts ==
    LET text[b \in DOMAIN blocks] ==
            FlattenSeq([i \in DOMAIN blocks[b] |-> Spelled(blocks[b][i], text)])
    IN text

Heading(d) ==
    (IF d.pure THEN <<"pure", "(">> \o d.types \o <<")">> ELSE <<>>)
      \o (IF d.nojit THEN <<"no-jit">> ELSE <<>>)
Written(d, text) ==
    (IF d.what = "init" THEN <<"init-static">>
     ELSE Heading(d) \o <<"function", ":", "1", d.name>>) \o Braced(text[d.block])
WithoutCommas(tokens) ==
    FlattenSeq([i \in DOMAIN tokens |-> IF tokens[i] = "," THEN <<>> ELSE <<tokens[i]>>])

(* What has been built is what was read: written out again, the functions  *)
(* and the static block of an accepted file are the file without commas.   *)
(* The parsers of if and while hand the block they fill to each other      *)
(* through the session, and a statement must not end in another's block.   *)
NothingIsMisplaced ==
    (mode = "parsed" /\ Declared("class") = {}) =>
        FlattenSeq([i \in DOMAIN program |-> Written(program[i], Texts)]) = WithoutCommas(read)

(* While the parsers of if and while fill blocks of their own, the session *)
(* remembers where it was: the statement under construction goes into the  *)
(* block in which it was begun, and what follows it goes there too.        *)
StatementsReturnToTheirBlock ==
    /\ \A i \in 2..Len(open) :
           open[i].kind \in {"if", "while"} => open[i].parent = open[i - 1].block
    /\ InBody => current = Innermost.block

(* The compiler gets the text of the body that the interpreter got: the    *)
(* scan that copies it by counting braces stops where the parser stops.    *)
CompilerSeesTheBody ==
    \A i \in Declared("function") :
        (program[i].block # 0 /\ ~program[i].nojit) => program[i].copy = Texts[program[i].block]

(* A class has the slot through which its objects are destroyed.           *)
ClassesHaveDestructors ==
    \A i \in Declared("class") : \E m \in program[i].methods : m[1] = Virtual
===============================================================================
