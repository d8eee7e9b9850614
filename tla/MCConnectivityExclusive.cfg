SPECIFICATION UnusedSpec
CONSTANTS
    v1 = v1  v2 = v2  v3 = v3  h1 = h1  h2 = h2
    mine = mine  other = other  vlan = vlan
    Flows = {f1, f2}
    Vms = {v1, v3}
    Hosts = {h1, h2}
    Sandboxes = {mine, other}
    Shared = {s}
    Exclusive = {e}
    Existing = {}
    Holding = Holding
    Distributed = TRUE
    HostOf <- MCHostOf
    SandboxOf <- MCSandboxOf
    VlanOf <- MCVlanOf
    Requests <- AnyRequest
    Deletable = {}
    Nobody = Nobody
    None = None
CHECK_DEADLOCK FALSE
INVARIANTS ExclusiveVlan
