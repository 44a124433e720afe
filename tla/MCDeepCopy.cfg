\* Copies of terms of up to two representations, in a heap of four addresses.
CONSTANTS
    Addr = {a1, a2, a3, a4}
    Values = {one}
    Junk = Junk
    Free = Free
    FunctionLists = {callees}
    Types = {"FunctionSymbol", "Variable"}
    Annotations = {TRUE}
    MaxFields = 1
    MaxLog = 5
    MaxFrames = 2
    MaxGoals = 0
    MaxCopy = 2
SYMMETRY Symmetry
SPECIFICATION Spec
INVARIANTS LogIsExact
PROPERTIES Backtracks
