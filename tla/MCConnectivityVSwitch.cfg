SPECIFICATION SafetySpec
CONSTANTS
    v1 = v1  v2 = v2  v3 = v3  h1 = h1  h2 = h2
    mine = mine  other = other  vlan = vlan
    Flows = {f1, f2}
    Vms = {v1, v3}
    Hosts = {h1, h2}
    Sandboxes = {mine, other}
    Shared = {s}
    Exclusive = {e}
    Existing = {net}
    Holding = Holding
    Distributed = FALSE
    HostOf <- MCHostOf
    SandboxOf <- MCSandboxOf
    VlanOf <- MCVlanOf
    Requests <- AnyRequest
    Deletable = {v3}
    Nobody = Nobody
    None = None
CHECK_DEADLOCK FALSE
SYMMETRY Interchangeable
INVARIANTS ClearedUnlessRaced
