CONSTANTS
    c1 = c1
    c2 = c2
    None = None
    Callers = {c1, c2}
    MaxPushes = 2
    MaxCalls = 2
SPECIFICATION Spec
INVARIANTS
    ServedInOrder
    PanicEndsTheFake
CHECK_DEADLOCK FALSE
