CONSTANTS
    Cmds <- MCCmds
    PowerAsks <- MCPowerAsks
    DiskAsks <- MCDiskAsks
    RuleAsks <- MCRuleAsks
    SnapshotAsks <- MCSnapshotAsks
    SaveAsks <- MCSaveAsks
    AddressAsks <- MCAddressAsks
    MaxVnics = 2
    MaxAhead = 1
    VMs <- MCVMs
    MaxUnits = 5
    ReservedUnit = 1
    Generate = 99
    Vms <- MCVms
    Guests <- MCGuests
    V4 <- MCV4
    V6 <- MCV6
    Matching <- MCMatching
    MaxChanges = 1
    Apps <- MCApps
    SpecRequests <- MCSpecRequests
    GuestIds <- MCGuestIds
    MaxRequests = 3
    Vnics <- MCVnics
    SandboxOf <- MCSandboxOf
    VlanRequests <- MCVlanRequests
    DefaultSwitch <- MCDefaultSwitch
    DefaultFlags <- MCDefaultFlags
    Old <- MCOld
    ReservedNames <- MCReservedNames
    MaxLength = 3
SPECIFICATION Spec
INVARIANTS
    SpecComplete
    PoweredOnIsCustomized
    NewDisksFit
    ReconfiguredAsAsked
    Serialised
    RuleHasVms
    PathFindsSnapshot
    HintsOfChain
    NoEmptyFolderLeft
    AddressFound
    SpecAsAsked
    RightNetwork
    ExclusiveAlone
PROPERTIES
    PowerRestored
    EveryCommandEnds
CHECK_DEADLOCK FALSE
