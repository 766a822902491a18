SPECIFICATION FairSpec
CONSTANTS
    c1 = c1
    e1 = e1
    e2 = e2
    e3 = e3
    Callers = {c1}
    Events = {e1, e2, e3}
    MaxWait = 2
    MaxFuncs = 2
    Loads <- Apart
    MaxRaces = 0
    FuncCalls = {"none", "add", "remove"}
    OnEventCalls = {"none"}
PROPERTIES
    CallsReturn
    FuncsRun
    EventServed
CHECK_DEADLOCK FALSE
