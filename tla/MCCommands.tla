------------------------------ MODULE MCCommands ------------------------------
(* Commands with small numbers, five functions and two virtual methods.    *)
EXTENDS Commands

Function(id, params, result) == [id |-> id, params |-> params, result |-> result]

MCFunctions == <<
    Function("_Int_ToString_<C>", <<"Int">>, "String"),
    Function("_Point_ToString_<C>", <<"Point">>, "String"),
    Function("_Point_Move_<M>_bool", <<"Point", "bool">>, "bool"),
    Function("_Global_Log_String", <<"String">>, "none"),
    Function("_Global_Find", <<>>, "Object")>>

MCVirtual ==
    [m \in {"_ToString_<C>", "_Move_<M>_bool"} |->
        IF m = "_ToString_<C>"
        THEN [class \in {"Int", "Point"} |->
                IF class = "Int" THEN "_Int_ToString_<C>" ELSE "_Point_ToString_<C>"]
        ELSE [class \in {"Point"} |-> "_Point_Move_<M>_bool"]]

MCUnderscores == [m \in DOMAIN MCVirtual |-> IF m = "_ToString_<C>" THEN 2 ELSE 3]

MCStored == {Text, Box(<<"int", 0>>)}

ASSUME NamesTellOperands
===============================================================================
