\* All pairs of terms in a heap of four representations.
CONSTANTS
    N = 4
    Values = {1, 2}
    Junk = Junk
    Types = {"Int", "Variable", "FunctionSymbol"}
    Tags = {f, g}
    MaxAnnotated = 1
    MaxTodo = 8
CHECK_DEADLOCK FALSE
SPECIFICATION Spec
INVARIANTS TypeOK Sound Complete MostGeneral UnifiedAreEqual AnnotatedRootsHaveValues
PROPERTIES OnlyBinds
