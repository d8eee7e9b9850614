SPECIFICATION MCSpec
CONSTANTS
    n1 = n1  n2 = n2  o1 = o1  i1 = i1
    Objects = {o1, o2}
    Names = {n1, n2}
    Ids = {i1, i2, i3}
    Wanted <- MCWanted
    MaxTries = 2
    MaxPasses = 2
    Foreign = Foreign
    None = None
INVARIANTS TypeOK NoForeignTags NoTagLeak
PROPERTIES CommandsEndAlone
CHECK_DEADLOCK FALSE
