\* A head f(t1, t2) and a call f(t3, t4) with annotated and unset integers.
CONSTANTS
    N = 5
    Values = {1}
    Junk = Junk
    Types = {"Int", "FunctionSymbol"}
    Tags = {f}
    MaxAnnotated = 1
    MaxTodo = 8
CHECK_DEADLOCK FALSE
SPECIFICATION CallSpec
INVARIANTS CheckedInTheEnd
