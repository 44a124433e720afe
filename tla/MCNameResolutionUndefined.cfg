\* Functions with nested statements and three variables.
CONSTANTS
    int = int
    point = point
    x = x
    Names = {int, point, x}
    Builtins <- Builtin
    Undefined = Undefined
    Wild = Wild
    Crash = Crash
    Absent = Absent
    MaxScopes = 6
    MaxDefinitions = 3
SYMMETRY Symmetry
CHECK_DEADLOCK FALSE
SPECIFICATION Spec

PROPERTIES UndefinedIsReported
