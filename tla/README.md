# TLA+ models of cloudshell-cp-vcenter

CloudShell's vCenter cloud provider deploys apps as VMs, wires their vNICs to
VLAN networks, tags what it creates, powers, saves and deletes it again. A
driver process serves the commands of all sandboxes with threads; several
processes (one per resource or execution server) may talk to one vCenter. All
lasting state is vCenter's inventory; a process adds caches and locks. So the
questions worth a model are about interleavings of commands on the shared
inventory, about caches that lag behind it, and about what is left after a call
in the middle of a flow has raised.

Paths below are relative to `src/cloudshell/cp/vcenter/`.

## 1. Inventory

### Components

| component | state | operations | properties that make it correct |
|---|---|---|---|
| Named locks, `utils/threading.py` | dictionary name → Lock, `creation_lock` | `lock(name)` | one mutex per name; a lock is never replaced; nobody is left waiting |
| Network watcher, `utils/network_watcher.py` | two dictionaries that cache networks, a lock, the collector's version | `populate_in_bg`, `get_network`, `find_networks`, `find_network_names`, `wait_appears` | the cache is what was reported, answers were true during the call, every call returns |
| Connectivity, `flows/connectivity_flow.py` with the network, switch, host and vNIC handlers | networks made by the batch, locks per network, cache of switches; vCenter: port groups, vNIC connections | `pre_connectivity`, `set_vlan`, `remove_vlan`, `clear`, `post_connectivity` | a network is created once, an exclusive VLAN is isolated, unused networks are removed, locks are released |
| Tags, `handlers/vsphere_sdk_handler.py`, `tag_cache.py`, `vsphere_api_handler.py` | cache name ↔ id per category; vCenter: tags and associations | `assign_tags`, `get_attached_tags`, `delete_unused_tags` | only an object's own tags, unused tags go, used tags stay |
| Deploy, `flows/deploy_vm/` and `handlers/folder_handler.py` | rollback commands, `FOLDER_LOCK`; vCenter: folder, VM, customization spec | folder, spec, clone or ovftool, reconfigure, tag, rollback | a failed deploy leaves nothing, concurrent deploys do not disturb each other |
| Delete, `flows/delete_instance.py` | `folder_delete_lock` | spec, tags, VM, folder | the VM goes whatever raises, the last one removes the folder, VMs of others stay |
| Power and guest customization, `flows/power_flow.py`, `customize_guest_os.py`, `common/vcenter/event_manager.py` | the spec named like the VM; VM's power and event history | `power_on`, `power_off`, `customize_guest_os` | a spec is applied once and only deleted when used |
| Save and restore, `flows/save_restore_app.py` | folder of saved apps, VM power | `save_apps`, `delete_saved_apps` | the source VM's power comes back, saved folders go with their last VM |
| Affinity rules, `flows/affinity_rules_flow.py`, `handlers/cluster_specs.py` | rules of the cluster | `add_vms_to_affinity_rule` | no VM lost by concurrent additions, names distinct |
| Snapshots, `flows/snapshots.py`, `handlers/snapshot_handler.py` | snapshot tree and current snapshot | save, restore, remove | the path returned is the snapshot made, paths stay unique |
| Reconfiguration, `handlers/config_spec_handler.py` | VM's disks and unit numbers | `get_spec_for_vm` | unit numbers distinct, disks only grow |
| Port-group names, `utils/connectivity_helpers.py` | names of port groups in vCenter | generate, match, choose and replace by name | a vNIC gets a network with the settings asked for, an exclusive one is alone |
| IP address, `actions/vm_network.py`, `actions/vm_details.py`, `flows/refresh_ip.py` | the app's private IP | poll until an address matches or the time is over | ends, returns an address of the right network, finds one that stays |
| What specs say, `handlers/custom_spec_handler.py`, `models/custom_spec.py` | fields and adapters of a spec | deploy, customize, add a vNIC | a spec says what was asked for last |
| Lookups, validation, console, usage, other hints, OVF tool, models | none | reads and conversions | (see "Not modelled") |

### How they interact

* Connectivity's threads (one per action, `ThreadPoolExecutor`) share one flow
  object: its `LockHandler` (one lock per network name), its dictionary of
  networks and the `NetworkWatcher`. Several flow objects, in one process or
  more, meet only in vCenter.
* The network watcher hears of networks through vCenter's property collector;
  connectivity asks it for a network before creating one and waits until a new
  one appears.
* Deploying calls the folder handler, which has a lock per process for making
  folders; tags are assigned to folders and VMs by the tag handler; the
  customization spec created by a deploy is read by `power_on` and deleted by
  it, by the rollback, or by the deletion.
* Deleting removes VM, folder and the tags that nobody uses any more, the
  folder under a second lock per process.
* Cancellation is polled when commands begin and end and from the progress
  callback of tasks, which cancels the task.

### What is hard here

Double-checked creation of locks; cache maintenance from ordered update sets;
locks keyed by something narrower than what they protect; look-then-act on
vCenter without a lock (folder empty → destroy, tag unused → delete, vNIC's
network → move); rollback commands that do not know yet what they have made;
`finally` chains in which the first exception decides what later steps know;
caches that outlive what other processes delete. `PROJECT.json` lists each at
its line with the properties that are about it.

## 2. Modules

| module | models | extends / instantiates |
|---|---|---|
| `NamedMutex` | abstract: one mutex per name | |
| `LockHandler` | `utils/threading.py` | implements `NamedMutex` |
| `NetworkWatcher` | `utils/network_watcher.py` and the collector | |
| `Connectivity` | `flows/connectivity_flow.py` and the handlers it drives | |
| `Tags` | tag handler, tag cache, tag REST calls, tagging life of objects | |
| `Deployment` | deploy flows, rollback commands, folder handler, delete flow | |
| `GuestCustomization` | `flows/power_flow.py`, `customize_guest_os.py`, event manager, life of the spec | |
| `CustomSpecs` | what a spec says: `custom_spec_handler.py`, `models/custom_spec.py` | |
| `VmReconfigure` | `handlers/config_spec_handler.py`, `_reconfigure` and the VM's lock | |
| `SaveApps` | `flows/save_restore_app.py` | |
| `AffinityRules` | `flows/affinity_rules_flow.py`, `cluster_specs.py` | |
| `Snapshots` | `flows/snapshots.py`, snapshot handler, snapshot hints | |
| `GuestNetwork` | `actions/vm_network.py`, `vm_details.py`, `flows/refresh_ip.py` | |
| `PortGroupNames` | `utils/connectivity_helpers.py` and what is decided by names | |
| `Components` | the last eight, each on its own | instantiates them |
| `*Proofs` | theorems about the module they are named after; `VmReconfigureProofs` and `SaveAppsProofs` are used by `ComponentsProofs` | the module, `TLAPS` |
| `MC*` | instances for TLC; `MCDeployment` also assumes what the theorems about `Deployment` do | the module they are named after |

Correspondence of state and actions:

* **LockHandler**: `locks` is the dictionary, `creation` the holder of
  `creation_lock`, `holder` the owner of each lock object, `pc`, `name`, `local` the
  threads. An action is what runs between two points at which another thread
  can be seen: the first look, entering the creation lock, the second look with
  the store, acquiring, releasing.
* **NetworkWatcher**: `live` is vCenter; `reported` what the collector's version
  covers; `networks` and `networkToName` the two dictionaries; `lockOwner` and
  `batch` the lock and the rest of the update set being applied. Entering and
  leaving networks are applied one by one as the loop does, with readers in
  between. `seen` is a history variable: everything the name meant since the
  call began. `LeaveFirst` says whether an update set delivers the removal of
  a name's old network before its new one.
* **Connectivity**: a flow is one batch of one action on a set of VMs; `holder`
  is the lock of each network name, `pg` where each network exists (the one
  switch if `Distributed`, else the hosts), `conn` what every vNIC is connected
  to, `flow` each batch's locals. Before the
  action: lock, clear conflicting networks (all of them when the network is
  exclusive, exclusive ones otherwise), get or create, store. Then the action
  itself, then the removal of networks nobody uses any more.
* **Tags**: `exist`, `nameOf` and `attached` are vCenter; `nameToId`, `idToName` the
  cache's two dictionaries (one process); `job` the command of each object.
  What the cache knows of an id and the request for the rest are two steps
  (`ScanTag`, `DescribeTag`). The other process makes tags, puts existing ones on
  its objects, takes them off and deletes them by actions of its own (`Foreign`),
  each of several calls at once. Associations go with their object at once: that
  vCenter lags behind, for which `delete_unused_tags` looks more than once, is not
  modelled, and its retries are met when others use the tag.
* **Deployment**: `folder` is the incarnation of a sandbox folder (0: none),
  so that a handle to a folder that was removed and made again is told from the
  new one; `home` the folder incarnation a VM is in; `specs` the names of specs;
  `cmd` the locals of each app's command. An app's `faults`, chosen by the initial
  state, name the calls of its command that may raise; a task also fails
  when it is cancelled while it reports progress (`TaskMayFail`). `destroy` of
  a folder is two actions, `CheckEmpty` and `KillFolder`.
* **GuestCustomization**: one VM and the spec with its name. The spec has a
  version, as vCenter's `changeVersion`: what is written back over a newer one is
  refused. `events` is the VM's event history, and `job[c].mark` the time from which
  a power-on asks for events, as a position in it. It is that of the power
  task's end, by vCenter's clock, if the command powered the VM (`job[c].own`, history). A VM
  found on gives the driver's `datetime.now()`, a time without a zone
  (`handlers/vm_handler.py:302`): that may be any position, also one to come
  (`MaxAhead`). `guest.of` and `guest.begun` are history: whose spec the guest waits to
  apply, and whose have begun. The guest is customized, fails or stays
  silent by actions of its own; a user may suspend the VM, which then is neither on nor
  off. Powering, customizing and adding a vNIC are separate commands that share
  nothing but vCenter.
* **CustomSpecs**: the fields of that spec, each with the request that set
  it, so that "the last one counts" can be said; a field that is set is one
  `Extend`. Commands run one after the other.
* **VmReconfigure**: the plan is computed from the VM as it is before the
  lock is taken (`MakeSpec`), one request after the other (`PlanOne`); which VM it
  is at first is a parameter. Devices have a file or not (a network card, a device
  passed through, a raw disk): only the units of those with a file are left out for new disks. `_get_vm_lock` is three steps, look, store, read.
  `missed` is history: a command stored a lock although there was one by then.
* **SaveApps**: `power` and the folder's incarnation as in Deployment; `clones`
  the saves whose clones exist. Every call may raise. `on` and `shared` are
  history. Saves find the folder by the app's VM Location, deletions by the
  resource's; they are one, since `actions/validation.py:73` demands the latter and
  `flows/save_restore_app.py:101` puts it in place of the former. A folder that is gone when it
  is to be destroyed may end the deletion with an error: the first thing
  `destroy` does is to log its name.
* **AffinityRules**: rules are read, extended and written back by key. `with`
  is history: the commands that were at work at the same time. A rule's `enabled`
  is read and written back with its VMs.
* **Snapshots**: the tree by parents; a name is the sequence of its parts
  between slashes, a path the concatenation of names, so that `a/b` the name
  and `a`/`b` the path are one.
* **GuestNetwork**: a look at each place an address may be, and the read that
  returns it, are separate steps. `steady` is history: what has been on offer
  during the whole search.
* **PortGroupNames**: names are sequences of pieces that are cut and compared
  as the code cuts and compares strings. `pgs` keeps with each name the settings
  it was made for, `asked` what each vNIC was last connected for; `MayLose` says
  for which networks it may lose that. Commands run one after the other.

vCenter, the guest, the rollback and cancellation managers and the connectivity
library are external: modelled by what this repository's code relies on. Every
vCenter call is atomic; the rollback manager rolls back every command
registered, in any order, and goes on after an exception.

`Components` puts the eight that share no state into one specification. Its initial
state chooses one of them, `part`, and only that one moves: the state space is the sum
of the eight and not their product. Its variables are those of the parts, by the
same names; parts that use one name (`job`, `power`, `made`, `asked`) take turns, and
what a part does not use stays 0. Each property is the part's property, guarded by
`part`. Commands are numbers; those a part has no use for ask for nothing.

Where a proof has to compute with a conversion, the modules say it by a function or a
concatenation (`CustomSpecs!Extend`, `PortGroupNames!Flags`) and not by a library
operator that is defined by recursion, of which the provers know nothing.

## 3. Runs

| run | instance | shows |
|---|---|---|
| `locks` | 3 threads, 2 names, 3 lock objects | type, exclusion, no lock replaced, no waiter forgotten, implements `NamedMutex` |
| `watcher` | 2 threads, 2 names, 3 networks, `LeaveFirst` | cache exact, answers fresh, updates never raise |
| `watcher_live` | 2 threads, any order of updates | every call returns even when applying raises |
| `connect` | 2 batches, 2 VMs of 2 sandboxes, a shared and an exclusive network of one VLAN, DvSwitch | created once, connecting alone never fails, an undisturbed connect isolates its VLAN, no network leaks, every batch ends |
| `vswitch` | the same with port groups per host, an existing network, a VM that may vanish | isolation where hosts differ |
| `exclusive_vlan` | as `connect`, nothing connected yet | `ExclusiveVlan` **violated**: two networks on an exclusive VLAN |
| `every_host` | one batch that disconnects two VMs on two hosts | `RemovedFromEveryUsedHost` **violated**: one host keeps its port group |
| `tags` | 2 objects, 2 names, 3 ids; alone, or beside another process | own tags only; alone also: no tag leaks, every command ends |
| `deploy` | 3 apps in 2 processes: no faults, or a clone with a spec and an image with all faults that have a rollback | concurrent deploys succeed, failed deploys leave nothing, deletions remove the VM, no empty folder stays, every command ends |
| `deploy_destroy` | 2 apps in 2 processes | `NonEmptyFolderKept` **violated**: a folder is destroyed with another's VM |
| `components` | one part per initial state, below | the parts keep what their commands promise, every command ends |
| `static_network` | part `specs` | `FixedAddressAccepted` **violated**: a fixed address in customization parameters raises |

| part of `components` | instance | shows |
|---|---|---|
| `power` | 3 commands: power on or add a vNIC; customize from any source; one of these or power off | `SpecComplete`: no command loses another's parameters or adapters; `PoweredOnIsCustomized`: a power-on that powered the VM is done after the guest has begun with its own spec |
| `disks` | 2 commands, a VM with no disk, one, a raw one, a linked one or no controller, devices with a file and without, disks grown, shrunk, added one or several at once, 5 units with one reserved | `NewDisksFit`, `ReconfiguredAsAsked`, `Serialised` |
| `rules` | 3 commands with a VM each, generated names or one name | `RuleHasVms` |
| `snapshots` | 4 commands: two make snapshots, one restores or lists, one removes | `PathFindsSnapshot`, `HintsOfChain` |
| `saves` | 4 commands: two apps or one app twice saved, both deleted | `PowerRestored`, `NoEmptyFolderLeft` |
| `address` | 1 command, 2 vNICs on every kind of network, the guest changes once | `AddressFound` |
| `specs` | 3 requests and a vNIC, every kind of guest, no spec or one of two from the library | `SpecAsAsked` |
| `networks` | 3 vNICs of 2 sandboxes, switches with names that are short, truncated alike or end alike | `RightNetwork`, `ExclusiveAlone` |

The violated runs are listed with the text they contradict under `findings`.
More was met while modelling that has no run, for no text says otherwise or it
depends on what vCenter sends:

* the watcher loses the entry of a name if one update set reports its new
  network before the removal of the old one (`LeaveFirst` excludes this);
* of two concurrent removals of a network the second raises;
* a tag found unused may be attached by another command just before it is
  deleted, and a cached tag id may be dead;
* two commands that extend one affinity rule at once lose one's VMs
  (`RuleHasVms` speaks of commands that were alone when they ran);
* a save that raises leaves its VM powered off, and a deploy that fails after
  the rollback manager was left leaves its VM;
* a network's name has the first 60 characters of its switch's, but conflicts are
  looked for by the whole name: an exclusive network on a long-named switch does
  not drive out others (`ExclusiveAlone` excepts it). `MAX_DVSWITCH_LENGTH_V2` is
  used nowhere;
* conflicting networks are looked for by a part of their names: a request for
  switch `s` drives vNICs off the network of a switch `x_s`
  (`PortGroupNames!Mistaken`, which `RightNetwork` allows), and the shared networks
  of a switch called after an exclusive mode, such as `Access_E`, look exclusive
  (`RequestsAssumption` excludes such switches);
* a power-on that finds the VM on asks for events since the driver's local time,
  which vCenter takes for its own: with a clock or a zone ahead it waits for an event
  that has been, and fails; with one behind it takes the event of an earlier customization for its own
  (`PoweredOnIsCustomized` excepts it);
* the generator of unit numbers says "next available" (`config_spec_handler.py:76`)
  but leaves out only the units of devices with a file: a new disk may get the unit
  of a raw disk, and vCenter refuses the spec (`NewDisksFit` speaks of devices with a file);
* `VcenterPath` strips slashes at the ends of a path it has put together, but not of
  the first snapshot's name: the path returned for a first snapshot `a/` does not
  find it (`AsksAssumption` excludes such names);
* the hint of a snapshot that comes after a sibling is not its path
  (`HintsOfChain` says exactly when);
* `flows/save_restore_app.py:167` stores the string `"False"`, which is true;
* the schema of customization parameters allows `timezone`, which no parameter
  class has.

### Bounds, and why they are enough

* Threads, batches, apps, commands: two actors exhibit every race between two
  steps; a third (or fourth) is there where one actor's clean-up can hit between
  the steps of two others and the instance stays small (locks, a shared
  folder, the spec of a VM, saved apps).
* Names and networks: two names separate "same" from "other"; three network
  objects let a name be reused while the second is untouched.
* `MaxCalls`, `MaxPolls` (watcher): one call per thread and one
  poll before `wait_appears` gives up; more calls start from cache states that
  the other thread has produced already.
* `MaxTries`, `MaxPasses` (tags): the code's five attempts to get or create a
  tag and its passes over tags in use, shortened to 2: enough for failing once
  and succeeding and for failing for good.
* Ids are never used again; their number bounds how often a tag is re-created.
* Every app is deployed and deleted once; a batch runs once; a command of
  `components` is issued once.
* `MaxUnits` 5 with 1 reserved stands for 16 with 7: the requests go over the
  end and across the reserved number. `MaxVnics` 2 stands for 10, `MaxAhead` 1 for
  clocks ahead of vCenter's: one event to come is waited for in vain, or comes, `MaxLength` 3
  pieces for 60 characters.
* `MaxChanges` 1: the guest's addresses change once during a search, at any
  point. Timeouts are 0 or 1 delays; a search that starts within the time may
  end after it.
* `MaxRequests` 3: two customizations after a deployment can set, set otherwise
  and leave out each field.
* Deadlock is not checked where commands simply end.
* Symmetry is declared for interchangeable actors and values, in runs of
  invariants only.

### Fairness

Weak fairness of each thread's or command's next step: threads are preemptive
and every vCenter call is assumed to answer. vCenter's own changes, the guest,
other processes and the arrival of new commands have no fairness, so an
awaited event or address may never come and the timeout must end the wait.
Locks need no strong fairness: in
`LockHandler` the property is that somebody proceeds, elsewhere each command
takes a lock a bounded number of times.

## 4. Proofs

All theorems are checked by TLAPS for any constants that satisfy the modules'
assumptions (distinct sentinel values, functions with the right domains). Those of
the eight parts are operators of their modules, which `Components` assumes
(`PowerAssumption`, `DisksAssumption`, `NamesAssumption`, `SnapshotsAssumption`,
`SavedVmsAssumption`, `AddressesAssumption`, `LibrarySpecsAssumption`,
`VlansAssumption`), so that TLC evaluates each on the instance it checks.

Every safety property that a passing run checks is proved. The theorems of
`ComponentsProofs` are about `Components!Spec`: one inductive invariant, which is the
invariant of the part chosen, for any number of commands and any requests. What is
proved of reconfigurations and saves is in modules of their own and cited there.

| theorem | property | argument |
|---|---|---|
| `LockHandlerProofs!TypeCorrect`, `Exclusion`, `NeverReplaced` | `TypeOK`, `MutualExclusion`, `LockNeverReplaced` | inductive invariant: at most one thread is past `EnterCreation`, registered locks are pairwise distinct, a thread's local lock is the registered one, an owned lock's owner is in the block |
| `LockHandlerProofs!Refinement` | `ImplementsNamedMutex` | from that invariant, every step is an `Enter`, a `Leave` or a stutter |
| `NetworkWatcherProofs!CacheIsExact`, `LookupsFresh`, `UpdatesSucceed` | `CacheExact`, `AnswersFresh`, `UpdateNeverFails` | under `LeaveFirst`: the lock owner alone writes the cache, the pending batch is what separates the cache from what was reported, the dictionaries are inverse at every step, what a reader reads is in `seen` |
| `ConnectivityProofs!TypeCorrect`, `CreatesOnce` | `TypeOK`, `NoDuplicateCreate` | a batch between locking and storing holds its network's lock, and a port group only grows by the holder's creation |
| `ConnectivityProofs!NothingLeaks` | `NoLeak`, if `Distributed` | `Attended`: an unused network has a batch that will still plug a VM into it, or will look whether it is used, or is about to remove that very incarnation of it |
| `ConnectivityProofs!ClearedVlan` | `ClearedUnlessRaced` | `AllClearing`: while no other batch connects, what is in the way of the network is among what the batch still has to clear, and is the object it has looked up; it never comes back |
| `ConnectivityProofs!ConnectsSucceed` | `ConcurrentConnectsSucceed` | `Smooth`: what a connect has found or created is still there, in all places of its VMs, when it plugs them in |
| `TagsProofs!TypeCorrect`, `NoWrongTags` | `TypeOK`, `NoForeignTags` | every entry of the cache names the id as vCenter did when the tag was made, ids never get another name, what a command has gathered is wanted |
| `TagsProofs!NoTagLeaks` | `NoTagLeak` | `Attended`: a tag that no object carries has been collected by a command that will attach it, or is among what a command still has to check or delete. What was found in use need not be checked again: the object that carried it goes with a command that has the tag on its own list |
| `DeploymentProofs!FailedLeavesNothing` | `FailedDeployLeavesNothing`, if `UniqueNames` and `LookupSucceeds` | `Sound`: which rollback commands are registered at each step and what they know; `SpecsOwned`: every spec has a command that will remove it |
| `DeploymentProofs!DeletionRemovesVm` | `DeleteRemovesVm`, if `PowerOffSucceeds` | `Sound`: past the removal the VM is in no folder, also after the failure of an earlier call |
| `DeploymentProofs!LastLeavesNoFolder` | `NoEmptyFolder` | `Watched`: an empty folder has a command that will still look into this incarnation of it, or one that failed |
| `DeploymentProofs!DeploysSucceed` | `ConcurrentDeploysSucceed`, if `UniqueNames` | `Smooth`: while nothing raises and nothing is deleted the folder a deploy has found stays |
| `ComponentsProofs!ReconfigurationsSerialised` | `Serialised` | `OneLock`: until a stored lock is overwritten there is one lock at most, everybody past the look knows that one, and whoever is inside holds it |
| `ComponentsProofs!NewDisksGetFreePlaces` | `NewDisksFit` | by induction over the requests (`PlanAnswers`): keys of new disks go up from the last disk's and avoid all others (`NextKeyFree`: among more numbers than the VM has keys one is free), units come from the free ones, which leave out the controller's and those of all devices with a file |
| `ComponentsProofs!DisksAsAsked` | `ReconfiguredAsAsked` | `Follows`: an accepted plan answers every request with a disk that is large enough, an edit or a new disk; the VM has only grown since the command saw it (`TaskGrows`), so a spec that vCenter accepts still does what was asked, and nothing undoes it |
| `ComponentsProofs!SpecsStayComplete` | `SpecComplete` | `PwHolds`: a command that still has the spec's newest version has every parameter written so far, any other is refused; `PwAdapters`: until preparations overlap, a spec covers the vNICs or the command that adds one is about to write the spec that does |
| `ComponentsProofs!PowerOnsSeeCustomization` | `PoweredOnIsCustomized` | `PwBoots`: from the moment a spec is applied until the guest begins with it, the guest waits for that very spec and no other can be applied; the mark of a power-on that powered the VM lies at or behind every start event there has been, so one behind it means that the guest no longer waits |
| `ComponentsProofs!RulesKeepVms` | `RuleHasVms` | `RuKept`: some rule of the name holds the VMs, every edit of it that is under way has read them, and nobody is about to add a rule of a generated name; `RuOverlap`: of two commands at work each knows |
| `ComponentsProofs!PathsFindSnapshots` | `PathFindsSnapshot` | `SnGrown`: parents are older than their children, so that `Path` exists and is the parent's followed by the name; until commands overlap, or a removal keeps children, no two snapshots have one path, and the path found free is the one the snapshot gets |
| `ComponentsProofs!HintsOfFirstChildren` | `HintsOfChain` | by induction over the tree (`SnFits`): the hint is the path spelled out if neither the snapshot nor one above it has an elder sibling, and is longer otherwise, so it is not the path by accident; `SnListed`: what a command lists is such a tree |
| `ComponentsProofs!LastOneCleansUp` | `NoEmptyFolderLeft` | `Watched`: while the folder exists and is empty, some command has raised or still has to look at that very incarnation |
| `ComponentsProofs!SavesRestorePower` | `PowerRestored` (an action property) | `PowerKept`: a save that is alone on its VM knows at each step how the VM is powered and how it was; of two saves of a VM at work both are marked |
| `ComponentsProofs!AddressesFit` | `AddressFound` | `AdHolds`: what has been on offer since the search began is still on offer, and lies ahead of the search; while the guest does not change, what was checked is what is taken |
| `ComponentsProofs!SpecsSayWhatWasAsked` | `SpecAsAsked` | the setters one after the other: which of the two memberships each leaves (`CsMember`), which fields it keeps, and that what was asked last is what the last setter of a field wrote |
| `ComponentsProofs!NetworksAsAsked` | `RightNetwork` | `NwServed`: a vNIC's network is the one named after what it was asked for; names tell settings apart, since a VLAN has no `_`, the mode follows it and the flags come last; a name found to be of a request's VLAN (`SameVlan`) spells that VLAN, on that switch or on one whose name contains it (`Mistaken`) |
| `ComponentsProofs!ExclusiveOnesAlone` | `ExclusiveAlone` | `NwKnown`: every network was named after its settings, so one in the way of a request is found by its name, and what is not found is of another VLAN, or truncated |

The library's induction theorems take an operator and cannot be used here. What
the plan of a reconfiguration computes, and the paths and hints of a tree of any
depth, is proved all the same: `Induction` is derived for a *set* of numbers from the
well-foundedness of inclusion between intervals (`Least`). It shows first that the
recursive function exists (`PlanSteps`; for trees, whose snapshots have numbers, one
function after the other), then what each of its values does.

Invariants alone are not inductive. Mutual exclusion does not follow from itself,
because a thread that still has to store its lock could store a second one; that a
rule has the VMs does not, because a command could be about to write back what it
read earlier; that no network, tag or empty folder is left says nothing while
somebody is at work. The strengthenings say who may be where, with which lock,
entry or handle, and, for what must not be left behind, who is responsible for it
until it is gone. TLC has checked each of them on the runs' instances before it
was proved.

What the theorems assume beyond the constants' types:

* `Distributed` (`NoLeak`): on vSwitches the property is false, as the run
  `every_host` shows.
* `UniqueNames` (`FailedDeployLeavesNothing`, `ConcurrentDeploysSucceed`): VMs and
  their specs have generated names, which are unique.
* `LookupSucceeds`: when the lookup after ovftool fails, the rollback does not know
  the VM that ovftool made (`deploy_vm_from_image.py`), and it stays.
* `PowerOffSucceeds`: a VM that cannot be powered off is not removed either.
* `LeaveFirst`: the order in which an update set reports a name's new use.
* `SavesAssumption`, `RulesAssumption`, `ReconfigureAssumption`: the VMs saved are
  vCenter's, names and commands are told apart.
* `VmReconfigure!RequestsAssumption`: the VM's disks and devices have numbers, keys
  and units, finitely many, and a request is a sequence of disk numbers and sizes.
* `GuestCustomization!AsksAssumption`, `Snapshots!AsksAssumption`: requests are those
  the commands know; the name of a snapshot neither is empty nor begins or ends
  with a slash (see section 3).
* `GuestsAssumption`: a guest's vNICs have a network and addresses.
* `LibraryAssumption`: a Windows spec from vCenter's library joins a domain or a
  workgroup and not both, as vCenter demands.
* `PortGroupNames!RequestsAssumption`: no VLAN contains `_` or `VLAN`, a mode is Access
  or Trunk, networks of earlier versions are shared, no switch is called after an
  exclusive mode.

`ConcurrentConnectsSucceed` demands that no exclusive network has *ever* been
there, not only that none is there now: with two shared networks of one VLAN, two
batches may both find the same exclusive network in their way, one removes it, and
the other raises when it uses what it has found
(`flows/connectivity_flow.py:419-430`). The attempt to prove the weaker premise
showed this, and TLC confirmed it on an instance with a second shared network.

Only model-checked: liveness (`WaitersProgress`, `EveryCallReturns`,
`FlowsFinish`, `CommandsEnd`, `CommandsEndAlone`, `EveryCommandEnds`), which the
prover does not reach, and the violated runs.

## 5. Not modelled

* Categories of tags (made once per vCenter), `get_tags_cache`'s creation of a
  cache, tags of networks, the cache of switches in the connectivity flow and
  how a port group's settings get from its name into vCenter.
* Deploy: which template, datastore, pool or snapshot is chosen; retries of
  `_clone_vm` without side effects; the library's handling of results. In
  `deploy` the lookup after ovftool and the preparation of the details have no
  clean-up in the code: a VM stays, no property claims otherwise.
* Processors and memory of a reconfiguration, which pass through; the
  attributes by which a saved app is described; the live status that snapshots,
  saves and power flows report.
* The shared `requests` session of the REST client: its hazard is one assignment,
  and which client made it last.
* Validation and autoload, inventory lookups, console links, usage, the hints
  other than those of snapshots, the OVF tool and the data classes: no state,
  or formatting. Helpers that nothing in `src/` calls
  (`get_available_vnic`, `is_vnic_network_can_be_replaced`,
  `_validate_app_attrs`, `_get_all_tags`).

## 6. Plan

Written in this order, the most shared state first: `LockHandler`,
`NetworkWatcher`, `Connectivity`, `Tags`, `Deployment`, then the components that
share nothing with them, which `Components` puts together, then the theorems of
section 4. Nothing of that plan is left. What could follow when the code changes:

1. A property for the hazards of `PROJECT.json` that have none, once the code
   cleans up there: the lookup after ovftool, the details prepared after the rollback
   manager is left, an exception between the removal of the VM and of its folder.
2. `NoLeak` on vSwitches, once a network is removed from every host that has it.
