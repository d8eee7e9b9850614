SPECIFICATION SafetySpec
CONSTANTS
    v1 = v1  v2 = v2  v3 = v3  h1 = h1  h2 = h2
    mine = mine  other = other  vlan = vlan
    Flows = {f1}
    Vms = {v1, v2}
    Hosts = {h1, h2}
    Sandboxes = {mine, other}
    Shared = {s}
    Exclusive = {}
    Existing = {}
    Holding = Holding
    Distributed = FALSE
    HostOf <- MCHostOf
    SandboxOf <- MCSandboxOf
    VlanOf <- MCVlanOf
    Requests <- RemoveBoth
    Deletable = {}
    Nobody = Nobody
    None = None
CHECK_DEADLOCK FALSE
INVARIANTS RemovedFromEveryUsedHost
