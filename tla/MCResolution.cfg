\* All programs of the family, called from C; C code calls back p or q.
CONSTANTS
    Names = {"p", "q", "r"}
    Exported = {"p", "q"}
    One = One
    Two = Two
    Values = {One, Two}
    Unset = Unset
    Failed = Failed
    Programs <- Family
    MaxNative = 2
    Depth = 60
CHECK_DEADLOCK FALSE
SPECIFICATION Spec
INVARIANTS TypeOK LoopIsNotNecessary SuccessSolvesAll RetriesFromStart CallsFromCLeaveNoTrace FollowsProcedure
PROPERTIES Terminates
