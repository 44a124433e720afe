\* Integers and variables.
CONSTANTS
    N = 3
    Values = {1}
    Junk = Junk
    Types = {"Int", "Variable"}
    Tags = {f}
    MaxAnnotated = 0
    MaxTodo = 8
CHECK_DEADLOCK FALSE
SPECIFICATION Spec
INVARIANTS EveryChainEnds
