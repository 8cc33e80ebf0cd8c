--------------------------------- MODULE MCVm ---------------------------------
(* The life of the machine on small files; the class names and methods are *)
(* chosen so that a destructor is given, missing, and given by its id only.*)
EXTENDS VmLifecycle

MCNames == [p \in {"class", "interface", "virtual", "real", "field", "type",
                   "argument type", "function id"} |->
    CASE p = "class" -> {"C", "D"}
      [] p = "interface" -> {"I"}
      [] p = "virtual" -> {"_destructor_<M>", "C_destructor_<M>"}
      [] p = "real" -> {"C_destructor_<M>", "f"}
      [] p = "field" -> {"x"}
      [] p = "type" -> {"Object", "D"}
      [] p = "function id" -> {"C_destructor_<M>", "_Global_Main_StringArray"}
      [] p = "argument type" -> {"int"}]
MCOperand == [c \in {"Pop", "PushInt"} |-> IF c = "Pop" THEN "none" ELSE "1"]
MCDestructorOf ==
    [c \in {"C", "D"} |-> IF c = "C" THEN "C_destructor_<M>" ELSE "D_destructor_<M>"]
MCResults == {-1, 0, 4, 5, 8, 16}
===============================================================================
