\* The sample program try-failed-workaround.di.
CONSTANTS
    Names = {"iterate", "lt", "edge", "path"}
    Exported = {"iterate"}
    One = One
    Two = Two
    Values = {One, Two}
    Unset = Unset
    Failed = Failed
    Programs <- Sample
    MaxNative = 1
    Depth = 60
CHECK_DEADLOCK FALSE
SPECIFICATION Spec
INVARIANTS IndexInRange
