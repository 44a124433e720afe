\* Nested calls over a heap of three addresses.
CONSTANTS
    Addr = {a1, a2, a3}
    Values = {one}
    Junk = Junk
    Free = Free
    FunctionLists = {callees}
    Types = {"Ptr", "FunctionSymbol", "Variable"}
    Annotations = {TRUE}
    MaxFields = 1
    MaxLog = 5
    MaxFrames = 3
    MaxGoals = 1
    MaxCopy = 2
SYMMETRY Symmetry
SPECIFICATION Spec
INVARIANTS TypeOK LogIsExact MarkersNest LogOwnsHeap NoDangling ChainsEnd
PROPERTIES BindingsLast Backtracks
