------------------------- MODULE MCFunctionRegistry -------------------------
EXTENDS FunctionRegistry, TLC

\* One built-in stands for the five.
MCBuiltins == [name \in ValidNames |->
    IF name = "length"
    THEN [name |-> "length", params |-> <<"Value">>, resultType |-> "Value", call |-> "length"]
    ELSE Absent]

\* A function, another of the same name, one without a callback and one named
\* like a built-in; the zero Function has a name that is not valid.
MCDefinitions ==
    {[name |-> "f", resultType |-> "Value", call |-> "c1"],
     [name |-> "f", resultType |-> "Logical", call |-> "c2"],
     [name |-> "g", resultType |-> "Value", call |-> "nil"],
     [name |-> "length", resultType |-> "Value", call |-> "c1"]}

MCParamLists == {<<>>, <<"invalid">>}

\* Goroutines are interchangeable.
Symm == Permutations(Goroutines)
=============================================================================
