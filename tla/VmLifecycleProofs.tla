--------------------------- MODULE VmLifecycleProofs ---------------------------
(***************************************************************************)
(* Proofs about a run of the virtual machine, for every file, every number *)
(* of program arguments, every set of results and every width of the exit  *)
(* code.  First the executor, to which the parser is of no account: it     *)
(* leaves the executor's variables alone.  Then what the parser promises,  *)
(* from its own invariants: only Parse moves it.                           *)
(***************************************************************************)
EXTENDS VmLifecycle, BytecodeTextProofs

BeforeArray == {"start", "parsing", "static", "default", "construct"}

(* How the machine ends: an exit code 0 on the way out comes from main.    *)
MainGaveZero == \E n \in result : n % 2^ExitBits = 0
ExitInv ==
    /\ phase = "start" => mode = "reading" /\ read = <<>> /\ live = {}
    /\ phase = "clear" /\ code = 0 => MainGaveZero
    /\ NothingLeftBehind
    /\ NoFalseSuccess

(* The argument array: filled up to next, with the default behind.         *)
Filled == [i \in Strings |-> IF i < next THEN i ELSE Default]
ArrayInv ==
    /\ phase \in BeforeArray => next = 1
    /\ phase = "construct" => Default \in live
    /\ phase = "fill" =>
           /\ next \in 1..(Arguments + 1)
           /\ array = Filled
           /\ TheArray \in live
           /\ \A i \in Strings : array[i] \in live
    /\ phase = "main" =>
           /\ array = [i \in Strings |-> i]
           /\ TheArray \in live
           /\ \A i \in Strings : array[i] \in live
-----------------------------------------------------------------------------
(* The parser takes no part in either invariant.                           *)
LEMMA ParseKeeps ==
    ASSUME Parse PROVE phase = "parsing" /\ UNCHANGED runVars
  BY DEF Parse

(* Only a multiple of the power is cut down to 0.                          *)
LEMMA NarrowedToZero ==
    ASSUME NEW n \in Int, Narrow(n) = 0
    PROVE  n % 2^ExitBits = 0
<1>. DEFINE h == 2^(ExitBits - 1)
            m == 2 * h
<1>1. h \in Nat /\ h > 4 /\ 2^ExitBits = m
  BY ExitWidth
<1>2. (n + h) % m = h
  <2>1. Narrow(n) = ((n + h) % m) - h
    BY <1>1 DEF Narrow
  <2>2. (n + h) % m \in Int
    BY <1>1
  <2>. QED  BY <1>1, <2>1, <2>2
<1>. HIDE DEF h
<1>3. m \in Nat \ {0}
  BY <1>1
<1>. DEFINE q == (n + h) \div m
            r == n % m
            k == n \div m
<1>4. n + h = m * q + h /\ q \in Int /\ n = m * k + r /\ k \in Int /\ r \in 0..(m - 1)
  <2>. HIDE DEF m
  <2>. QED  BY <1>1, <1>2, <1>3
<1>. HIDE DEF m, q, r, k
<1>5. m * q \in Int /\ m * k \in Int /\ m * q - m * k = r
  BY <1>1, <1>3, <1>4
<1>6. m * q - m * k = m * (q - k) /\ q - k \in Int
  BY <1>3, <1>4
<1>7. ASSUME NEW e \in Int, m * e = r
      PROVE  r = 0
  <2>1. CASE e >= 1
    <3>1. m * e >= m
      BY <1>3, <2>1
    <3>. QED  BY <1>3, <1>4, <1>7, <3>1
  <2>2. CASE e <= -1
    <3>1. m * e <= -m
      BY <1>3, <2>2
    <3>. QED  BY <1>3, <1>4, <1>7, <3>1
  <2>3. CASE e = 0
    BY <1>3, <1>7, <2>3
  <2>. QED  BY <2>1, <2>2, <2>3
<1>. QED  BY <1>1, <1>5, <1>6, <1>7 DEF r

LEMMA ExitStep ==
    ASSUME ExitInv, [Next]_vars PROVE ExitInv'
<1> USE DEF ExitInv, NothingLeftBehind, NoFalseSuccess, MainGaveZero
<1>1. CASE ReadArguments
  BY <1>1 DEF ReadArguments, Leave, Shutdown, Goto, Balanced, Heap, parserVars
<1>2. CASE Parse
  BY <1>2, ParseKeeps DEF runVars
<1>3. CASE EndOfParse
  BY <1>3 DEF EndOfParse, Shutdown, Goto, Balanced, Heap, parserVars
<1>4. CASE RunStatic
  BY <1>4 DEF RunStatic, Fails, Shutdown, Goto, Heap, parserVars
<1>5. CASE AllocateDefault
  BY <1>5 DEF AllocateDefault, Shutdown, Goto, Balanced, Heap, parserVars
<1>6. CASE ConstructArray
  BY <1>6 DEF ConstructArray, Fails, Shutdown, Goto, Heap, parserVars
<1>7. CASE SetAt
  BY <1>7 DEF SetAt, Fails, Shutdown, Goto, Heap, parserVars
<1>8. CASE CallMain
  BY <1>8 DEF CallMain, Goto, Heap, parserVars
<1>9. CASE RunMain
  <2>1. CASE phase' = "clear" /\ \E n \in Results : result' = {n} /\ code' = Narrow(n)
    <3>1. PICK n \in Results : result' = {n} /\ code' = Narrow(n)
      BY <2>1
    <3>2. n \in Int
      BY LifecycleAssumption
    <3>3. code' = 0 => n % 2^ExitBits = 0
      BY <3>1, <3>2, NarrowedToZero
    <3>. QED  BY <2>1, <3>1, <3>3
  <2>2. CASE Fails \/ phase' = "exit"
    BY <1>9, <2>2 DEF RunMain, Fails, Shutdown, Goto
  <2>. QED  BY <1>9, <2>1, <2>2 DEF RunMain, Goto
<1>10. CASE Clear
  BY <1>10 DEF Clear, Goto, parserVars
<1>11. CASE UNCHANGED vars
  BY <1>11 DEF vars, runVars, parserVars
<1> QED
  BY <1>1, <1>2, <1>3, <1>4, <1>5, <1>6, <1>7, <1>8, <1>9, <1>10, <1>11 DEF Next
-----------------------------------------------------------------------------
LEMMA NumbersOfArguments == Arguments \in Nat
  BY LifecycleAssumption

(* The array of defaults, constructed: the collection in the constructor   *)
(* spares the two objects in its frame.                                    *)
LEMMA ConstructStep ==
    ASSUME ArrayInv, ConstructArray PROVE ArrayInv'
<1>1. CASE phase' = "clear"
  BY <1>1 DEF ArrayInv, BeforeArray
<1>2. CASE phase' = "fill"
  <2>1. array' = [i \in Strings |-> Default] /\ next' = 1
    BY <1>2 DEF ConstructArray, Fails, Shutdown, Goto, ArrayInv, BeforeArray
  <2>2. array' = Filled'
    BY <2>1, NumbersOfArguments DEF Filled, Strings
  <2>3. TheArray \in live' /\ Default \in live'
    BY <1>2 DEF ConstructArray, Fails, Shutdown, Goto, ArrayInv, MayCollect
  <2> QED
    BY <1>2, <2>1, <2>2, <2>3, NumbersOfArguments DEF ArrayInv, BeforeArray
<1> QED
  BY <1>1, <1>2 DEF ConstructArray, Fails, Shutdown, Goto

(* One argument stored: the collection in SetAt spares the array, what is  *)
(* in it, and the string.                                                  *)
LEMMA SetAtStep ==
    ASSUME ArrayInv, SetAt PROVE ArrayInv'
<1>1. CASE phase' = "clear"
  BY <1>1 DEF ArrayInv, BeforeArray
<1>2. CASE phase' = "fill"
  <2>1. /\ array' = [array EXCEPT ![next] = next]
        /\ next' = next + 1
        /\ next <= Arguments
        /\ MayCollect(live \cup {next}, Reached({TheArray})' \cup {next})
    BY <1>2 DEF SetAt, Fails, Shutdown, Goto
  <2>2. /\ next \in 1..(Arguments + 1) /\ array = Filled
        /\ TheArray \in live /\ \A i \in Strings : array[i] \in live
    BY DEF ArrayInv, SetAt
  <2>3. next \in Strings /\ next' \in 1..(Arguments + 1)
    BY <2>1, <2>2, NumbersOfArguments DEF Strings
  <2>4. array' = Filled'
    <3>1. array' = [i \in Strings |-> IF i = next THEN next ELSE Filled[i]]
      BY <2>1, <2>2, <2>3 DEF Filled
    <3>2. ASSUME NEW i \in Strings
          PROVE (IF i = next THEN next ELSE Filled[i]) = IF i < next + 1 THEN i ELSE Default
      <4>1. Filled[i] = IF i < next THEN i ELSE Default
        BY DEF Filled
      <4>2. i \in Int /\ next \in Int
        BY <2>3, NumbersOfArguments DEF Strings
      <4>3. CASE i = next
        BY <4>2, <4>3
      <4>4. CASE i # next
        <5>1. i < next + 1 <=> i < next
          BY <4>2, <4>4
        <5> QED
          BY <4>1, <4>4, <5>1
      <4> QED
        BY <4>3, <4>4
    <3> QED
      BY <2>1, <3>1, <3>2 DEF Filled
  <2>5. \A i \in Strings : array'[i] \in live \cup {next}
    BY <2>1, <2>2, <2>3 DEF Filled
  <2>6. DOMAIN array' = Strings
    BY <2>4 DEF Filled
  <2>7. TheArray \in Reached({TheArray})' /\ \A i \in Strings : array'[i] \in Reached({TheArray})'
    BY <2>6 DEF Reached
  <2>8. TheArray \in live' /\ \A i \in Strings : array'[i] \in live'
    BY <2>1, <2>2, <2>5, <2>7 DEF MayCollect
  <2> QED
    BY <1>2, <2>3, <2>4, <2>8 DEF ArrayInv, BeforeArray
<1> QED
  BY <1>1, <1>2 DEF SetAt, Fails, Shutdown, Goto

LEMMA ArrayStep ==
    ASSUME ArrayInv, [Next]_vars PROVE ArrayInv'
<1>1. CASE ReadArguments
  BY <1>1 DEF ArrayInv, BeforeArray, ReadArguments, Leave, Shutdown, Goto, Heap
<1>2. CASE Parse
  BY <1>2, ParseKeeps DEF ArrayInv, BeforeArray, runVars
<1>3. CASE EndOfParse
  BY <1>3 DEF ArrayInv, BeforeArray, EndOfParse, Shutdown, Goto, Heap
<1>4. CASE RunStatic
  BY <1>4 DEF ArrayInv, BeforeArray, RunStatic, Fails, Shutdown, Goto, Heap
<1>5. CASE AllocateDefault
  BY <1>5 DEF ArrayInv, BeforeArray, AllocateDefault, Shutdown, Goto, Heap
<1>6. CASE ConstructArray
  BY <1>6, ConstructStep
<1>7. CASE SetAt
  BY <1>7, SetAtStep
<1>8. CASE CallMain
  <2>1. next = Arguments + 1 /\ array = Filled
    BY <1>8, NumbersOfArguments DEF CallMain, ArrayInv
  <2>2. array = [i \in Strings |-> i]
    BY <2>1, NumbersOfArguments DEF Filled, Strings
  <2> QED
    BY <1>8, <2>2 DEF CallMain, Goto, Heap, ArrayInv, BeforeArray
<1>9. CASE RunMain
  BY <1>9 DEF ArrayInv, BeforeArray, RunMain, Fails, Shutdown, Goto, Heap
<1>10. CASE Clear
  BY <1>10 DEF ArrayInv, BeforeArray, Clear, Goto
<1>11. CASE UNCHANGED vars
  BY <1>11 DEF ArrayInv, BeforeArray, Filled, vars, runVars
<1> QED
  BY <1>1, <1>2, <1>3, <1>4, <1>5, <1>6, <1>7, <1>8, <1>9, <1>10, <1>11 DEF Next

LEMMA ArrayInvImplies == ArrayInv => ArgumentsSurvive
<1> SUFFICES ASSUME ArrayInv, phase \in {"fill", "main"}
             PROVE Reached({TheArray}) \subseteq live
  BY DEF ArrayInv, ArgumentsSurvive
<1>1. DOMAIN array = Strings /\ TheArray \in live /\ \A i \in Strings : array[i] \in live
  BY DEF ArrayInv, Filled
<1> QED
  BY <1>1 DEF Reached
-----------------------------------------------------------------------------
(* However the program fails, the repository is empty when the machine     *)
(* returns (MemoryManager::Clear after the try block).                     *)
THEOREM NothingIsLeftBehind == Spec => []NothingLeftBehind
<1>1. Init => ExitInv
  BY DEF Init, ParserInit, RunInit, ExitInv, NothingLeftBehind, NoFalseSuccess, MainGaveZero
<1>2. ExitInv => NothingLeftBehind
  BY DEF ExitInv
<1> QED
  BY <1>1, <1>2, ExitStep, PTL DEF Spec

(* No failure on the way to main, and none of main, ends with exit code 0: *)
(* it takes a number from main, which is 0 in the bits of the exit code.   *)
THEOREM SuccessIsOfMain == Spec => []NoFalseSuccess
<1>1. Init => ExitInv
  BY DEF Init, ParserInit, RunInit, ExitInv, NothingLeftBehind, NoFalseSuccess, MainGaveZero
<1>2. ExitInv => NoFalseSuccess
  BY DEF ExitInv
<1> QED
  BY <1>1, <1>2, ExitStep, PTL DEF Spec

(* However often the executor's own calls collect while it builds them,    *)
(* main gets the array with all the program arguments.                     *)
THEOREM MainGetsItsArguments == Spec => []ArgumentsSurvive
<1>1. Init => ArrayInv
  BY DEF Init, RunInit, ArrayInv, BeforeArray
<1> QED
  BY <1>1, ArrayStep, ArrayInvImplies, PTL DEF Spec
-----------------------------------------------------------------------------
(* The types of the run, which need the width of the exit code.            *)
BeforeMain == {"default", "construct", "fill", "main"}
RunInv ==
    /\ mode \in {"reading", "parsed", "error", "exception"}
    /\ code \in ExitCodes
    /\ frames \in 0..(MaxDepth + 1)
    /\ phase \in {"start", "parsing"} \cup BeforeMain => frames = 0
    /\ phase = "static" => frames = 1
    /\ live \subseteq {TheArray, Default} \cup Strings
    /\ next \in 1..(Arguments + 1) /\ result \subseteq Results

LEMMA ExitCodeFacts ==
    /\ {0, 1, 2, 3, 4} \subseteq ExitCodes
    /\ \A n \in Int : Narrow(n) \in ExitCodes
<1>. DEFINE h == 2^(ExitBits - 1)
<1>1. h \in Nat /\ h > 4 /\ 2^ExitBits = 2 * h
  BY ExitWidth
<1>2. ExitCodes = (-h)..(h - 1)
  BY DEF ExitCodes
<1>3. \A n : Narrow(n) = ((n + h) % (2 * h)) - h
  BY <1>1 DEF Narrow
<1>. HIDE DEF h
<1>4. ASSUME NEW n \in Int
      PROVE  ((n + h) % (2 * h)) - h \in (-h)..(h - 1)
  <2>1. (n + h) % (2 * h) \in 0..(2 * h - 1)
    BY <1>1
  <2>. QED  BY <1>1, <2>1
<1>5. {0, 1, 2, 3, 4} \subseteq (-h)..(h - 1)
  BY <1>1
<1>. QED  BY <1>2, <1>3, <1>4, <1>5

(* Every way out of the parser's actions leaves a mode.                    *)
LEMMA ParserModes ==
    ASSUME mode \in {"reading", "parsed", "error", "exception"}, ParserNext
    PROVE  mode' \in {"reading", "parsed", "error", "exception"}
<1>1. CASE LiteralOutOfRange \/ Refuse \/ UnknownFieldType \/ NameTaken
  BY <1>1 DEF LiteralOutOfRange, Refuse, UnknownFieldType, NameTaken, Abandon
<1>2. CASE Expect \/ Comma \/ Declare \/ NoJit \/ ListItem \/ EndOfList \/ EndOfClass
  BY <1>2 DEF Expect, Comma, Declare, NoJit, ListItem, EndOfList, EndOfClass
<1>3. CASE BeginDeclaration \/ Section
  BY <1>3 DEF BeginDeclaration, Section, Begin
<1>4. CASE EndOfFile
  BY <1>4 DEF EndOfFile
<1>5. CASE AddClass \/ AddFunction \/ SetInitStatic \/ NewBlock \/ Command \/ AddCommand
  BY <1>5 DEF AddClass, AddFunction, SetInitStatic, NewBlock, Command, AddCommand
<1>6. CASE BeginNode \/ EndOfBlock \/ Else \/ ElseBranch \/ AddNode
  BY <1>6 DEF BeginNode, EndOfBlock, Else, ElseBranch, AddNode
<1>. QED  BY <1>1, <1>2, <1>3, <1>4, <1>5, <1>6 DEF ParserNext

LEMMA RunStep ==
    ASSUME RunInv, [Next]_vars
    PROVE  RunInv'
<1>. USE ExitCodeFacts, LifecycleAssumption DEF RunInv, BeforeMain
<1>0. ASSUME frames \in {0, 1}, Fails
      PROVE  frames' \in 0..(MaxDepth + 1)
  BY <1>0 DEF Fails
<1>1. CASE ReadArguments
  BY <1>1 DEF ReadArguments, Leave, Shutdown, Goto, Balanced, Heap, parserVars
<1>2. CASE Parse
  BY <1>2, ParserModes DEF Parse, runVars
<1>3. CASE EndOfParse
  <2>1. frames = 0 /\ 0 + 1 = 1
    BY <1>3 DEF EndOfParse
  <2>2. /\ UNCHANGED <<mode, live, next, result>>
        /\ \/ phase' = "clear" /\ code' \in {3, 4} /\ frames' = frames
           \/ phase' = "static" /\ code' = code /\ frames' = frames + 1
    BY <1>3 DEF EndOfParse, Shutdown, Goto, Balanced, Heap, parserVars
  <2>. QED  BY <2>1, <2>2
<1>4. CASE RunStatic
  <2>1. frames = 1 /\ 1 - 1 = 0
    BY <1>4 DEF RunStatic
  <2>2. /\ UNCHANGED <<mode, live, next, result>>
        /\ \/ phase' \in {"default", "clear"} /\ code' \in {code, 4} /\ frames' = frames - 1
           \/ phase' \in {"clear", "exit"} /\ code' \in {code, 4} /\ (Fails \/ frames' = frames)
    BY <1>4 DEF RunStatic, Fails, Shutdown, Goto, Heap, parserVars
  <2>. QED  BY <1>0, <2>1, <2>2
<1>5. CASE AllocateDefault
  BY <1>5 DEF AllocateDefault, Shutdown, Goto, Balanced, Heap, parserVars
<1>6. CASE ConstructArray
  <2>1. CASE Fails
    BY <1>0, <1>6, <2>1 DEF ConstructArray, Fails, Shutdown, Goto, Heap, parserVars
  <2>2. CASE ~Fails
    BY <1>6, <2>2 DEF ConstructArray, MayCollect, Goto, parserVars
  <2>. QED  BY <2>1, <2>2
<1>7. CASE SetAt
  <2>1. CASE Fails
    BY <1>0, <1>7, <2>1 DEF SetAt, Fails, Shutdown, Goto, Heap, parserVars
  <2>2. CASE ~Fails
    <3>1. /\ next <= Arguments /\ next' = next + 1 /\ UNCHANGED <<phase, code, frames, result, mode>>
          /\ MayCollect(live \cup {next}, Reached({TheArray})' \cup {next})
      BY <1>7, <2>2 DEF SetAt, parserVars
    <3>2. next \in Strings /\ next' \in 1..(Arguments + 1)
      BY <3>1 DEF Strings
    <3>3. live' \subseteq live \cup {next}
      BY <3>1 DEF MayCollect
    <3>. QED  BY <3>1, <3>2, <3>3
  <2>. QED  BY <2>1, <2>2
<1>8. CASE CallMain
  BY <1>8 DEF CallMain, Goto, Heap, parserVars
<1>9. CASE RunMain
  <2>1. frames = 0 /\ 0 + 1 = 1
    BY <1>9 DEF RunMain
  <2>2. /\ UNCHANGED <<mode, live, next>> /\ phase' \in {"clear", "exit"}
        /\ Fails \/ frames' = frames
        /\ \/ UNCHANGED result /\ code' \in {code, 4}
           \/ \E n \in Results : result' = {n} /\ code' = Narrow(n)
    BY <1>9 DEF RunMain, Fails, Shutdown, Goto, Balanced, Heap, parserVars
  <2>3. result' \subseteq Results /\ code' \in ExitCodes
    BY <2>2
  <2>. QED  BY <1>0, <2>1, <2>2, <2>3
<1>10. CASE Clear
  BY <1>10 DEF Clear, Goto, parserVars
<1>11. CASE UNCHANGED vars
  BY <1>11 DEF vars, runVars, parserVars
<1>. QED
  BY <1>1, <1>2, <1>3, <1>4, <1>5, <1>6, <1>7, <1>8, <1>9, <1>10, <1>11 DEF Next

(* Only Parse moves the parser.                                            *)
LEMMA OnlyParse ==
    ASSUME [Next]_vars
    PROVE  ParserNext \/ UNCHANGED parserVars
<1>1. CASE Parse
  BY <1>1 DEF Parse
<1>2. CASE ~Parse
  BY <1>2 DEF Next, ReadArguments, EndOfParse, RunStatic, AllocateDefault, ConstructArray, SetAt,
              CallMain, RunMain, Clear, Leave, Fails, Shutdown, Goto, vars
<1>. QED  BY <1>1, <1>2

LEMMA ParserKept ==
    ASSUME ParserInv, [Next]_vars
    PROVE  ParserInv'
<1>1. CASE ParserNext
  BY <1>1, ParserSteps
<1>2. CASE UNCHANGED parserVars
  BY <1>2 DEF parserVars, ParserInv
<1>. QED  BY <1>1, <1>2, OnlyParse

LEMMA TextKept ==
    ASSUME ParserInv, TextInv, [Next]_vars
    PROVE  TextInv'
  BY OnlyParse, TextSteps, TextRests

(* Whatever the file, the if and while parsers hand the session back to    *)
(* the block they were called from: no statement lands in another block.   *)
THEOREM StatementsKeepTheirBlock == Spec => []StatementsReturnToTheirBlock
<1>1. Init => ParserInv
  BY ParserStarts DEF Init
<1>2. ParserInv /\ [Next]_vars => ParserInv'
  BY ParserKept
<1>3. ParserInv => StatementsReturnToTheirBlock
  BY ParserResult
<1>. QED  BY <1>1, <1>2, <1>3, PTL DEF Spec

(* What has been built is what was read, for every file: at every moment   *)
(* there is an account of what has been read in terms of the blocks, the   *)
(* open constructs and the running handler.                                *)
LEMMA AlwaysTold == Spec => [](ParserInv /\ TextInv)
<1>1. Init => ParserInv /\ TextInv
  BY ParserStarts, TextStarts DEF Init
<1>2. ParserInv /\ TextInv /\ [Next]_vars => (ParserInv /\ TextInv)'
  BY ParserKept, TextKept
<1>. QED  BY <1>1, <1>2, PTL DEF Spec

(* An accepted file that declares no class is, up to commas, its functions *)
(* and its static block written out again: the parser drops, repeats and   *)
(* misplaces no statement, however deep its ifs and whiles are nested.     *)
THEOREM NothingGetsMisplaced == Spec => []NothingIsMisplaced
<1>1. TextInv => NothingIsMisplaced
  BY TextResult
<1>. QED  BY <1>1, AlwaysTold, PTL

(* Whatever the body of a function contains, counting braces stops at the  *)
(* brace at which the parser of the body stopped: the text kept for the    *)
(* compiler is the text of the block the interpreter runs.                 *)
THEOREM CompilerSeesWhatRuns == Spec => []CompilerSeesTheBody
<1>1. TextInv => CompilerSeesTheBody
  BY TextResult
<1>. QED  BY <1>1, AlwaysTold, PTL

(* The types of the run's variables: every exit code is one of the width's *)
(* numbers, an exception leaves a frame of the executor's at most besides  *)
(* those of the calls it was thrown in, and blocks are known.              *)
THEOREM TypeCorrect == Spec => []TypeOK
<1>1. Init => ParserInv /\ RunInv
  <2>1. Init => RunInv
    BY ExitCodeFacts, LifecycleAssumption DEF Init, ParserInit, RunInit, RunInv, BeforeMain
  <2>. QED  BY <2>1, ParserStarts DEF Init
<1>2. ParserInv /\ RunInv /\ [Next]_vars => (ParserInv /\ RunInv)'
  BY ParserKept, RunStep
<1>3. ParserInv /\ RunInv => TypeOK
  <2>1. ASSUME ParserInv, NEW i \in DOMAIN open
        PROVE  {open[i].block, open[i].parent} \subseteq 0..Len(blocks)
    <3>1. i \in 1..Len(open) /\ Nested(open, Len(blocks))
      BY <2>1 DEF ParserInv, Parsing
    <3>. QED  BY <3>1 DEF Nested, Placed
  <2>. QED  BY <2>1 DEF RunInv, TypeOK
<1>. QED  BY <1>1, <1>2, <1>3, PTL DEF Spec
===============================================================================
