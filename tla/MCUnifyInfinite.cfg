\* Variables and function symbols.
CONSTANTS
    N = 3
    Values = {1}
    Junk = Junk
    Types = {"Variable", "FunctionSymbol"}
    Tags = {f}
    MaxAnnotated = 0
    MaxTodo = 8
CHECK_DEADLOCK FALSE
SPECIFICATION Spec
INVARIANTS NoInfiniteTerms
