------------------------------ MODULE VmLifecycle ------------------------------
(***************************************************************************)
(* A run of the virtual machine: its console entry point reads the file,   *)
(* has it parsed, and the executor runs the static block and the main      *)
(* function on an array made from the program arguments; then every object *)
(* is destroyed.  What a block or a function does is left open; of the     *)
(* heap only the argument array and what it is made from matter.           *)
(*                                                                         *)
(* A garbage collection may follow every command, while the frame of the   *)
(* function around it is still there.                                      *)
(***************************************************************************)
EXTENDS BytecodeParser

CONSTANTS
    Arguments,   \* how many program arguments there are
    Results,     \* what a main function may return
    ExitBits,    \* width of int32_t
    MaxDepth     \* bound: nested calls that an exception ends at once

ASSUME LifecycleAssumption ==
    /\ Arguments \in Nat /\ Results \subseteq Int /\ ExitBits \in Nat \ 0..3
    /\ MaxDepth \in Nat \ {0}

(* Of powers the provers know nothing: the exit codes of the machine fit.  *)
ASSUME ExitWidth ==
    LET h == 2^(ExitBits - 1) IN h \in Nat /\ h > 4 /\ 2^ExitBits = 2 * h

VARIABLES
    phase,   \* what is being done
    code,    \* return_code
    frames,  \* the stack frames of the executor's own calls, and those left over
    live,    \* the objects in the repository, arguments by number
    array,   \* the elements of the argument array
    next,    \* the argument that comes next
    result   \* what main returned: at most one number

runVars == <<phase, code, frames, live, array, next, result>>
vars == <<parserVars, runVars>>

Main == "_Global_Main_StringArray"
Strings == 1..Arguments
Default == 0     \* the empty string the array is filled with
TheArray == -1
Narrow_Not(n) == n
Narrow(n) == ((n + 2^(ExitBits - 1)) % 2^ExitBits) - 2^(ExitBits - 1)
ExitCodes == (-2^(ExitBits - 1))..(2^(ExitBits - 1) - 1)

Goto(p) == phase' = p /\ UNCHANGED parserVars
Heap == <<live, array, next>>
Leave(n) == Goto("exited") /\ code' = n /\ UNCHANGED <<frames, result, Heap>>
Shutdown(n) == Goto("clear") /\ code' = n /\ UNCHANGED <<result, Heap>>
Balanced == UNCHANGED frames

(* An error, for which every call has popped its frame, or an exception,   *)
(* which leaves the frames of the calls it was thrown in.                  *)
Fails == Shutdown(4) /\ frames' \in frames..(frames + MaxDepth)
-----------------------------------------------------------------------------
(* StartVmConsoleUI up to the parser.                                      *)
ReadArguments ==
    /\ phase = "start"
    /\ \/ Leave(1)                              \* the arguments are refused
       \/ Leave(0)                              \* help
       \/ Leave(2)                              \* the file is empty
       \/ Shutdown(2) /\ Balanced               \* the lexer fails
       \/ Goto("parsing") /\ UNCHANGED <<code, frames, result, Heap>>

Parse == phase = "parsing" /\ ParserNext /\ UNCHANGED runVars

(* The error of a parser has a code of its own, an exception has not; a    *)
(* file without a static block cannot be run.                              *)
EndOfParse ==
    /\ phase = "parsing"
    /\ \/ mode = "error" /\ Shutdown(3) /\ Balanced
       \/ mode = "exception" /\ Shutdown(4) /\ Balanced
       \/ mode = "parsed" /\ Declared("init") = {} /\ Shutdown(4) /\ Balanced
       \/ /\ mode = "parsed" /\ Declared("init") # {}
          /\ Goto("static") /\ frames' = frames + 1
          /\ UNCHANGED <<code, result, Heap>>
-----------------------------------------------------------------------------
(* Executor::RunProgram.  An exception leaves the static block's frame and *)
(* those of the calls in it, the Exit command leaves everything.           *)
RunStatic_Unreported ==
    /\ phase = "static"
    /\ \/ /\ frames' = frames - 1
          /\ \/ Main \in FunctionIds /\ Goto("default") /\ UNCHANGED <<code, result, Heap>>
             \/ Main \notin FunctionIds /\ Shutdown(4)
             \/ Shutdown(code)
       \/ Fails
       \/ Goto("exit") /\ UNCHANGED <<code, frames, result, Heap>>
RunStatic ==
    /\ phase = "static"
    /\ \/ /\ frames' = frames - 1
          /\ \/ Main \in FunctionIds /\ Goto("default") /\ UNCHANGED <<code, result, Heap>>
             \/ Main \notin FunctionIds /\ Shutdown(4)
             \/ Shutdown(4)
       \/ Fails
       \/ Goto("exit") /\ UNCHANGED <<code, frames, result, Heap>>

(* CreateStringArrayFromArgs: an empty string, an array full of it, then   *)
(* the arguments one by one.  A collection on the way runs destructors of  *)
(* the static block's objects, which may throw.                            *)
Reached(roots) ==
    roots \cup (IF TheArray \in roots THEN {array[i] : i \in DOMAIN array} ELSE {})
MayCollect(objects, reached) == live' \in {objects, objects \cap reached}
AllocateDefault ==
    /\ phase = "default"
    /\ \/ /\ Goto("construct") /\ live' = live \cup {Default}
          /\ UNCHANGED <<code, frames, result, array, next>>
       \/ Shutdown(4) /\ Balanced

ConstructArray ==
    /\ phase = "construct"
    /\ \/ /\ Goto("fill") /\ array' = [i \in Strings |-> Default]
          /\ MayCollect(live \cup {TheArray}, {TheArray, Default})
          /\ UNCHANGED <<code, frames, result, next>>
       \/ Fails

(* SetAt holds the array and the string in its frame while it collects.    *)
SetAt_NoFrame ==
    /\ phase = "fill" /\ next <= Arguments
    /\ \/ /\ array' = [array EXCEPT ![next] = next]
          /\ next' = next + 1
          /\ MayCollect(live \cup {next}, {})
          /\ UNCHANGED <<phase, code, frames, result, parserVars>>
       \/ Fails
SetAt ==
    /\ phase = "fill" /\ next <= Arguments
    /\ \/ /\ array' = [array EXCEPT ![next] = next]
          /\ next' = next + 1
          /\ MayCollect(live \cup {next}, Reached({TheArray})' \cup {next})
          /\ UNCHANGED <<phase, code, frames, result, parserVars>>
       \/ Fails

CallMain ==
    /\ phase = "fill" /\ next > Arguments
    /\ Goto("main") /\ UNCHANGED <<code, frames, result, Heap>>

(* Main returns an integer, or something else, or fails, or throws.  The   *)
(* heap main leaves is that of the collector's model, not of this one.     *)
RunMain ==
    /\ phase = "main"
    /\ \/ /\ \E n \in Results : result' = {n} /\ code' = Narrow(n)
          /\ Goto("clear") /\ Balanced /\ UNCHANGED Heap
       \/ Fails
       \/ Goto("exit") /\ UNCHANGED <<code, frames, result, Heap>>
-----------------------------------------------------------------------------
(* MemoryManager::Clear, whatever happened before.  What a destructor      *)
(* throws is not caught.                                                   *)
Clear_AfterSuccess ==
    /\ phase = "clear"
    /\ \/ Goto("exited") /\ live' = (IF code = 4 THEN live ELSE {}) /\ UNCHANGED <<code, frames>>
       \/ Goto("exited") /\ code' = 4 /\ live' = {} /\ UNCHANGED frames
       \/ live # {} /\ Goto("aborted") /\ UNCHANGED <<code, frames, live>>
    /\ UNCHANGED <<array, next, result>>
Clear ==
    /\ phase = "clear"
    /\ \/ Goto("exited") /\ live' = {} /\ UNCHANGED <<code, frames>>
       \/ Goto("exited") /\ code' = 4 /\ live' = {} /\ UNCHANGED frames
       \/ Goto("aborted") /\ UNCHANGED <<code, frames, live>>
    /\ UNCHANGED <<array, next, result>>

RunInit ==
    /\ phase = "start" /\ code = 0 /\ frames = 0 /\ live = {} /\ array = <<>> /\ next = 1
    /\ result = {}

Init == ParserInit /\ RunInit
Next == \/ ReadArguments \/ Parse \/ EndOfParse \/ RunStatic \/ AllocateDefault
        \/ ConstructArray \/ SetAt \/ CallMain \/ RunMain \/ Clear
Spec == Init /\ [][Next]_vars
-----------------------------------------------------------------------------
TypeOK ==
    /\ mode \in {"reading", "parsed", "error", "exception"}
    /\ \A i \in DOMAIN open : {open[i].block, open[i].parent} \subseteq 0..Len(blocks)
    /\ code \in ExitCodes /\ frames \in 0..(MaxDepth + 1)
    /\ live \subseteq {TheArray, Default} \cup Strings
    /\ next \in 1..(Arguments + 1) /\ result \subseteq Results

(* While the executor builds the argument array with calls that collect,   *)
(* and holds the array in a variable of its own that is no root, neither   *)
(* the array nor a string in it is destroyed, and main gets them all.      *)
ArgumentsSurvive ==
    /\ phase \in {"fill", "main"} => Reached({TheArray}) \subseteq live
    /\ phase = "main" => array = [i \in Strings |-> i]

(* However the program fails, the machine empties the repository before it *)
(* returns; only the Exit command and a throwing destructor leave objects. *)
NothingLeftBehind == phase = "exited" => live = {}

(* The exit code 0 of a program that was asked to run is of a 0 that main  *)
(* returned, or of another number all of whose bits are cut off: no        *)
(* refused file, missing block or function, error or exception on the way  *)
(* is taken for success.                                                   *)
NoFalseSuccess ==
    phase = "exited" /\ code = 0 =>
        (\E n \in result : n % 2^ExitBits = 0) \/ (mode = "reading" /\ read = <<>>)
===============================================================================
