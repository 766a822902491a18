SPECIFICATION Spec
CONSTANTS
    c1 = c1
    c2 = c2
    e1 = e1
    e2 = e2
    e3 = e3
    Callers = {c1, c2}
    Events = {e1, e2}
    MaxWait = 2
    MaxFuncs = 2
    Loads <- Mixed
    MaxRaces = 1
    FuncCalls = {"none", "add", "remove"}
    OnEventCalls = {"none", "add", "remove"}
SYMMETRY Symmetry
INVARIANTS
    FuncsInOrder
    NeverTorn
    NoEventTwice
    StaleOnce
CHECK_DEADLOCK FALSE
