SPECIFICATION Spec
CONSTANTS
    Names = {nA}
    Nets = {o1, o2}
    Callers = {c1, c2}
    None = None
    LeaveFirst = FALSE
    MaxCalls = 1
    MaxPolls = 1
PROPERTIES
    EveryCallReturns
CHECK_DEADLOCK FALSE
