\* A head f(t1, t2) and a call f(t3, t4) with annotated integers and variables.
CONSTANTS
    N = 5
    Values = {1}
    Junk = Junk
    Types = {"Int", "Variable", "FunctionSymbol"}
    Tags = {f}
    MaxAnnotated = 1
    MaxTodo = 8
CHECK_DEADLOCK FALSE
SPECIFICATION CallSpec
INVARIANTS AnnotatedHaveValues
