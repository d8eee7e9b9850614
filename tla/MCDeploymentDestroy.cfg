SPECIFICATION Spec
CONSTANTS
    a1 = a1
    a2 = a2
    a3 = a3
    p1 = p1
    p2 = p2
    sandbox = sandbox
    n1 = n1
    n2 = n2
    n3 = n3
    Nobody = Nobody
    Apps = {a1, a2}
    Procs = {p1, p2}
    Sandboxes = {sandbox}
    Names = {n1, n2, n3}
    ProcOf <- TwoProcesses
    SandboxOf <- OneSandbox
    NameOf <- OwnName
    Image = {}
    WithSpec = {}
    Faults <- OnlyNoFaults
PROPERTY NonEmptyFolderKept
CHECK_DEADLOCK FALSE
