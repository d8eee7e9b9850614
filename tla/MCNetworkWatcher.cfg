SPECIFICATION SafetySpec
CONSTANTS
    Names = {nA, nB}
    Nets = {o1, o2, o3}
    Callers = {c1, c2}
    None = None
    LeaveFirst = TRUE
    MaxCalls = 1
    MaxPolls = 1
SYMMETRY Interchangeable
INVARIANTS
    CacheExact
    AnswersFresh
    UpdateNeverFails
CHECK_DEADLOCK FALSE
