----------------------------- MODULE Components -----------------------------
(***************************************************************************)
(* The components that share nothing with one another: those whose         *)
(* commands work on a VM or on a cluster at once, and, at the end, two that *)
(* are sequential.  The initial state chooses one of them, `part`; the     *)
(* variables have the names they have in the parts, and what a part does   *)
(* not use stays 0 (`job`: no job).                                        *)
(***************************************************************************)
EXTENDS Naturals, Sequences

CONSTANTS
    Cmds,
    PowerAsks, DiskAsks, RuleAsks, SnapshotAsks, SaveAsks, AddressAsks,
                            \* what each command may ask for, in each part
    MaxVnics, MaxAhead,     \* power (and specs)
    VMs, MaxUnits, ReservedUnit,                        \* disks
    Generate,                                           \* rules
    Vms,                                                \* saves
    Guests, V4, V6, Matching, MaxChanges,               \* address
    Apps, SpecRequests, GuestIds, MaxRequests,          \* specs
    Vnics, SandboxOf, VlanRequests, DefaultSwitch, DefaultFlags, Old, ReservedNames,
    MaxLength                                           \* networks

VARIABLES
    part, job,
    power, guest, spec, made, vnics, asked,     \* of more than one part
    events, kept, raced,                        \* power
    vm, locks, holder,                          \* disks
    rules,                                      \* rules
    snaps, current, tangled,                    \* snapshots
    folder, clones,                             \* saves
    changes, private,                           \* address
    os, count, last,                            \* specs
    pgs, conn                                   \* networks

powers == <<events, kept, raced>>
disks == <<vm, locks, holder>>
trees == <<snaps, current, tangled>>
saves == <<folder, clones>>
addresses == <<changes, private>>
systems == <<os, count, last>>
networks == <<pgs, conn>>
vars == <<part, job, power, guest, spec, made, vnics, asked, powers, disks, rules, trees,
          saves, addresses, systems, networks>>

Power == INSTANCE GuestCustomization WITH Asks <- PowerAsks
Disks == INSTANCE VmReconfigure WITH Asks <- DiskAsks, Reserved <- ReservedUnit
Rules == INSTANCE AffinityRules WITH Asks <- RuleAsks
Snaps == INSTANCE Snapshots WITH Asks <- SnapshotAsks
Saves == INSTANCE SaveApps WITH Asks <- SaveAsks
Addr == INSTANCE GuestNetwork WITH Asks <- AddressAsks
Specs == INSTANCE CustomSpecs WITH Requests <- SpecRequests
Nets == INSTANCE PortGroupNames WITH Requests <- VlanRequests, Reserved <- ReservedNames

ASSUME PowerAssumption == Power!AsksAssumption
ASSUME DisksAssumption == Disks!ReconfigureAssumption /\ Disks!RequestsAssumption
ASSUME NamesAssumption == Rules!RulesAssumption
ASSUME SnapshotsAssumption == Snaps!AsksAssumption
ASSUME SavedVmsAssumption == Saves!SavesAssumption
ASSUME AddressesAssumption == Addr!GuestsAssumption
ASSUME LibrarySpecsAssumption == Specs!LibraryAssumption
ASSUME VlansAssumption == Nets!RequestsAssumption

-----------------------------------------------------------------------------
NoPowers == events = 0 /\ kept = 0 /\ raced = 0
NoDisks == vm = 0 /\ locks = 0 /\ holder = 0
NoRules == rules = 0
NoTrees == snaps = 0 /\ current = 0 /\ tangled = 0
NoSaves == folder = 0 /\ clones = 0
NoAddresses == changes = 0 /\ private = 0
NoSystems == os = 0 /\ count = 0 /\ last = 0
NoNetworks == pgs = 0 /\ conn = 0
NoVm == power = 0 /\ guest = 0
NoSpecs == spec = 0 /\ vnics = 0

Init ==
    \/ /\ part = "power" /\ Power!Init
       /\ asked = 0 /\ NoDisks /\ NoRules /\ NoTrees /\ NoSaves /\ NoAddresses /\ NoSystems
       /\ NoNetworks
    \/ /\ part = "disks" /\ Disks!Init
       /\ NoVm /\ NoSpecs /\ made = 0 /\ asked = 0
       /\ NoPowers /\ NoRules /\ NoTrees /\ NoSaves /\ NoAddresses /\ NoSystems /\ NoNetworks
    \/ /\ part = "rules" /\ Rules!Init
       /\ NoVm /\ NoSpecs /\ made = 0 /\ asked = 0
       /\ NoPowers /\ NoDisks /\ NoTrees /\ NoSaves /\ NoAddresses /\ NoSystems /\ NoNetworks
    \/ /\ part = "snapshots" /\ Snaps!Init
       /\ NoVm /\ NoSpecs /\ asked = 0
       /\ NoPowers /\ NoDisks /\ NoRules /\ NoSaves /\ NoAddresses /\ NoSystems /\ NoNetworks
    \/ /\ part = "saves" /\ Saves!Init
       /\ guest = 0 /\ NoSpecs /\ asked = 0
       /\ NoPowers /\ NoDisks /\ NoRules /\ NoTrees /\ NoAddresses /\ NoSystems /\ NoNetworks
    \/ /\ part = "address" /\ Addr!Init
       /\ NoSpecs /\ made = 0 /\ asked = 0
       /\ NoPowers /\ NoDisks /\ NoRules /\ NoTrees /\ NoSaves /\ NoSystems /\ NoNetworks
    \/ /\ part = "specs" /\ Specs!Init /\ job = <<>>
       /\ NoVm /\ made = 0
       /\ NoPowers /\ NoDisks /\ NoRules /\ NoTrees /\ NoSaves /\ NoAddresses /\ NoNetworks
    \/ /\ part = "networks" /\ Nets!Init /\ job = <<>>
       /\ NoVm /\ NoSpecs /\ made = 0
       /\ NoPowers /\ NoDisks /\ NoRules /\ NoTrees /\ NoSaves /\ NoAddresses /\ NoSystems

KeepPower ==
    UNCHANGED <<asked, disks, rules, trees, saves, addresses, systems, networks>>
KeepDisks ==
    UNCHANGED <<power, guest, spec, made, vnics, asked, powers, rules, trees, saves,
                addresses, systems, networks>>
KeepRules ==
    UNCHANGED <<power, guest, spec, made, vnics, asked, powers, disks, trees, saves,
                addresses, systems, networks>>
KeepSnapshots ==
    UNCHANGED <<power, guest, spec, vnics, asked, powers, disks, rules, saves, addresses,
                systems, networks>>
KeepSaves ==
    UNCHANGED <<guest, spec, vnics, asked, powers, disks, rules, trees, addresses, systems,
                networks>>
KeepAddress ==
    UNCHANGED <<spec, made, vnics, asked, powers, disks, rules, trees, saves, systems,
                networks>>
KeepSpecs ==
    UNCHANGED <<job, power, guest, made, powers, disks, rules, trees, saves, addresses,
                networks>>
KeepNetworks ==
    UNCHANGED <<job, power, guest, spec, made, vnics, powers, disks, rules, trees, saves,
                addresses, systems>>

Next ==
    /\ UNCHANGED part
    /\ \/ part = "power" /\ Power!Next /\ KeepPower
       \/ part = "disks" /\ Disks!Next /\ KeepDisks
       \/ part = "rules" /\ Rules!Next /\ KeepRules
       \/ part = "snapshots" /\ Snaps!Next /\ KeepSnapshots
       \/ part = "saves" /\ Saves!Next /\ KeepSaves
       \/ part = "address" /\ Addr!Next /\ KeepAddress
       \/ part = "specs" /\ Specs!Next /\ KeepSpecs
       \/ part = "networks" /\ Nets!Next /\ KeepNetworks

(* A command runs on, as in the specifications of the parts.                *)
Working(c) ==
    /\ UNCHANGED part
    /\ \/ part = "power" /\ Power!Working(c) /\ KeepPower
       \/ part = "disks" /\ Disks!Working(c) /\ KeepDisks
       \/ part = "rules" /\ Rules!Working(c) /\ KeepRules
       \/ part = "snapshots" /\ Snaps!Working(c) /\ KeepSnapshots
       \/ part = "saves" /\ Saves!Working(c) /\ KeepSaves
       \/ part = "address" /\ Addr!Working(c) /\ KeepAddress

Fairness == \A c \in Cmds : WF_vars(Working(c))
Spec == Init /\ [][Next]_vars /\ Fairness

-----------------------------------------------------------------------------
\* No command loses another's parameters or adapters of the VM's spec.
SpecComplete == part = "power" => Power!SpecComplete

\* A power-on that applied a spec and powered the VM has seen its own
\* customization begin.
PoweredOnIsCustomized == part = "power" => Power!PoweredOnIsCustomized

\* New disks get keys of their own, and units that no device with a file has.
NewDisksFit == part = "disks" => Disks!NewDisksFit

\* A reconfiguration that succeeds has made the disks as asked.
ReconfiguredAsAsked == part = "disks" => Disks!ReconfiguredAsAsked

\* Reconfigurations of a VM exclude each other unless both found no lock.
Serialised == part = "disks" => Disks!Serialised

\* VMs stay in the rule they were put into, a generated name is new.
RuleHasVms == part = "rules" => Rules!RuleHasVms

\* The path of a new snapshot is that snapshot's alone.
PathFindsSnapshot == part = "snapshots" => Snaps!PathFindsSnapshot

\* The hint for a snapshot is its path in a chain of snapshots only.
HintsOfChain == part = "snapshots" => Snaps!HintsOfChain

\* A save that succeeds leaves its VM powered as it was.
PowerRestored ==
    [][part = "saves" =>
          \A c \in Cmds :
             Saves!At(c, "result") /\ job'[c].pc = "done" /\ ~job[c].shared
                 => power'[job[c].ask.vm] = job[c].on]_vars

\* No folder of saved apps stays without an app in it.
NoEmptyFolderLeft == part = "saves" => Saves!NoEmptyFolderLeft

\* An address found fits, an address that is there all the time is found.
AddressFound == part = "address" => Addr!AddressFound

\* A spec says what was asked for last, and names one membership.
SpecAsAsked == part = "specs" => Specs!SpecAsAsked

\* Fixed addresses in customization parameters are accepted.
FixedAddressAccepted == part = "specs" => Specs!FixedAddressAccepted

\* A vNIC is, and stays, on a network with the settings asked for.
RightNetwork == part = "networks" => Nets!RightNetwork

\* An exclusive network is alone on its VLAN.
ExclusiveAlone == part = "networks" => Nets!ExclusiveAlone

\* There comes a time when no command is at work any more (each one is issued
\* once), in each of the parts: whether or not the
\* guest is ever customized or gets an address, however many generated names
\* are taken, and with the VM's lock released on every path
\* (event_manager.py:55-71, vm_network.py:101-102, affinity_rules_flow.py:66-75,
\* vm_handler.py:250-258).
EveryCommandEnds ==
    <>[](\A c \in DOMAIN job : job[c].pc \in {"new", "done", "failed", "timedout"})
=============================================================================
