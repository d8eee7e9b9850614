---------------------------- MODULE Connectivity ----------------------------
(***************************************************************************)
(* flows/connectivity_flow.py: command threads of one driver process that  *)
(* connect VMs to VLAN networks and disconnect them, creating a network's  *)
(* port groups on first use and removing them after the last.              *)
(*                                                                         *)
(* Flows interact through vCenter (external: port groups and the network a *)
(* vNIC is plugged into) and through the module-level `network_lock`, the  *)
(* NamedMutex that LockHandler implements: `holder` is its state.  Reading *)
(* the network watcher is reading vCenter, as NetworkWatcher's             *)
(* AnswersFresh allows.  The order pre_connectivity, clear and set_vlan or *)
(* remove_vlan, post_connectivity is the library's (external).             *)
(*                                                                         *)
(* A flow serves one request: one network for some VMs of one sandbox, one *)
(* vNIC per VM.  All networks hang off one switch: a DvSwitch (Distributed)*)
(* or the vSwitch of the same name on every host.                          *)
(***************************************************************************)
EXTENDS Naturals, FiniteSets

CONSTANTS Flows, Vms, Hosts, Sandboxes,
          Shared, Exclusive,     \* generated network names, by isolation level
          Existing,              \* networks the user names in the service
          Holding,               \* the holding network
          Distributed,           \* is the switch a DvSwitch?
          HostOf, SandboxOf,     \* of every VM
          VlanOf,                \* of every generated network
          Requests,              \* what the flows may be asked
          Deletable,             \* VMs other commands may delete meanwhile
          Nobody, None

Generated == Shared \cup Exclusive
Networks == Generated \cup Existing \cup {Holding}
Dvs == "dvs"
Places == IF Distributed THEN {Dvs} ELSE Hosts
PlaceOf(v) == IF Distributed THEN Dvs ELSE HostOf[v]

ASSUME ConnectivityAssumption ==
    /\ Shared \cap Exclusive = {}
    /\ Generated \cap (Existing \cup {Holding}) = {}
    /\ Distributed \in BOOLEAN
    /\ HostOf \in [Vms -> Hosts]
    /\ SandboxOf \in [Vms -> Sandboxes]
    /\ Requests \subseteq [kind : {"set", "remove"}, net : Generated \cup Existing,
                           vms : (SUBSET Vms) \ {{}}]
    /\ Deletable \subseteq Vms
    /\ None \notin Networks
    /\ Nobody \notin Flows

VARIABLES
    pg,         \* vCenter: network -> places that have its port group
    born,       \* vCenter: network -> how often its object was created
    conn,       \* vCenter: VM -> network of its vNIC, None once deleted
    holder,     \* network_lock
    flow        \* per flow: its locals, see FlowRecord

vars == <<pg, born, conn, holder, flow>>

Terminal == {"done", "aborted", "broken"}
PreSteps == {"clear", "migrate", "move", "wait", "destroy", "unhost", "validate",
             "create", "recreate", "appear", "store"}
Labels == {"idle", "pre", "act", "post", "postwait", "postdestroy", "postunhost"}
              \cup PreSteps \cup Terminal

FlowRecord ==
    [pc : Labels,
     kind : {"set", "remove"},
     net : Networks,
     vms : SUBSET Vms,
     gone : SUBSET Vms,          \* load_target found no such VM
     places : SUBSET Places,     \* net_to_create: places still to prepare
     place : Places \cup {None}, \* the one being prepared under the lock
     preFailed : BOOLEAN,        \* an item of executor.map has raised
     todo : SUBSET Generated,    \* conflicting networks still to clear
     cur : Generated \cup {None},
     ref : Nat,                  \* incarnation behind the handle in use
     got : Nat,                  \* incarnation in self._networks
     vmsLeft : SUBSET Vms,       \* VMs of `cur` still to migrate
     victim : Vms \cup {None},
     hosts : SUBSET Hosts,       \* rest of _delete_pg_from_every_host
     cleared : SUBSET Vms,
     left : SUBSET Vms,          \* actions not executed yet
     failed : SUBSET Vms]

TypeOK ==
    /\ pg \in [Generated -> SUBSET Places]
    /\ born \in [Generated -> Nat]
    /\ conn \in [Vms -> Networks \cup {None}]
    /\ holder \in [Generated -> Flows \cup {Nobody}]
    /\ flow \in [Flows -> FlowRecord]

Exists(n) == pg[n] # {}
Attached(n) == \E v \in Vms : conn[v] = n
AttachedAt(n, p) == \E v \in Vms : conn[v] = n /\ PlaceOf(v) = p

IdleFlow ==
    [pc |-> "idle", kind |-> "set", net |-> Holding,
     vms |-> {}, gone |-> {}, places |-> {}, place |-> None, preFailed |-> FALSE,
     todo |-> {}, cur |-> None, ref |-> 0, got |-> 0, vmsLeft |-> {},
     victim |-> None, hosts |-> {}, cleared |-> {}, left |-> {}, failed |-> {}]

(* Every generated network that exists is used by the VMs connected to it.  *)
Init ==
    /\ conn \in [Vms -> Networks]
    /\ pg = [n \in Generated |-> {PlaceOf(v) : v \in {w \in Vms : conn[w] = n}}]
    /\ born = [n \in Generated |-> IF Attached(n) THEN 1 ELSE 0]
    /\ holder = [n \in Generated |-> Nobody]
    /\ flow = [f \in Flows |-> IdleFlow]

Update(f, r) == flow' = [flow EXCEPT ![f] = r]
At(f, label) == flow[f].pc = label
Goto(f, label) == Update(f, [flow[f] EXCEPT !.pc = label])
vcenter == <<pg, born, conn>>

(* The handle a flow got from the watcher still denotes a living object. *)
Alive(n, ref) == Exists(n) /\ born[n] = ref

-----------------------------------------------------------------------------
(* External: another command deletes a VM. *)
DeleteVm(v) ==
    /\ v \in Deletable
    /\ conn[v] # None
    /\ conn' = [conn EXCEPT ![v] = None]
    /\ UNCHANGED <<pg, born, holder, flow>>

(* Targets are loaded; pre_connectivity collects what has to be created:    *)
(* one port group on a DvSwitch, one per host in use on a vSwitch.  Asking  *)
(* for the switch of a VM that is not there raises.                        *)
Start(f, r) ==
    LET gone == {v \in r.vms : conn[v] = None}
        creates == r.kind = "set" /\ r.net \in Generated
    IN
    /\ At(f, "idle")
    /\ Update(f, [IdleFlow EXCEPT
            !.kind = r.kind, !.net = r.net, !.vms = r.vms, !.left = r.vms,
            !.gone = gone,
            !.places = IF creates THEN {PlaceOf(v) : v \in r.vms} ELSE {},
            !.pc = IF ~creates THEN "act"
                   ELSE IF gone = {} THEN "pre" ELSE "aborted"])
    /\ UNCHANGED <<vcenter, holder>>

-----------------------------------------------------------------------------
(* _get_or_create_network, under network_lock.lock(net_settings.name).      *)

OtherSandbox(f, v) == \A w \in flow[f].vms : SandboxOf[v] # SandboxOf[w]

SameVlan(n) == {m \in Generated : Exists(m) /\ VlanOf[m] = VlanOf[n]}
(* Fault: a shared network leaves the exclusive ones of its VLAN alone. *)
ConflictingOfExclusive(n) == IF n \in Exclusive THEN SameVlan(n) ELSE {}

Conflicting(n) ==
    IF n \in Exclusive THEN SameVlan(n) ELSE SameVlan(n) \cap Exclusive

(* Fault: the lock is not waited for. *)
LockNetworkAnyway(f) ==
    LET n == flow[f].net IN
    /\ At(f, "pre")
    /\ holder' = [holder EXCEPT ![n] = f]
    /\ \E p \in flow[f].places :
          Update(f, [flow[f] EXCEPT !.pc = "clear", !.place = p,
                                    !.places = @ \ {p}, !.todo = Conflicting(n)])
    /\ UNCHANGED vcenter

(* One item of executor.map: take the lock and list what has to be cleared. *)
LockNetwork(f) ==
    LET n == flow[f].net IN
    /\ At(f, "pre")
    /\ holder[n] = Nobody
    /\ holder' = [holder EXCEPT ![n] = f]
    /\ \E p \in flow[f].places :
          Update(f, [flow[f] EXCEPT !.pc = "clear", !.place = p,
                                    !.places = @ \ {p}, !.todo = Conflicting(n)])
    /\ UNCHANGED vcenter

(* The next item after this one, or the end of executor.map: if an item has *)
(* raised, so does pre_connectivity; whether the library then goes on to    *)
(* post_connectivity with every action failed is its own choice.           *)
EndItem(f, r) ==
    IF r.places # {} THEN Update(f, [r EXCEPT !.pc = "pre"])
    ELSE IF ~r.preFailed THEN Update(f, [r EXCEPT !.pc = "act"])
    ELSE \/ Update(f, [r EXCEPT !.pc = "aborted"])
         \/ Update(f, [r EXCEPT !.pc = "act", !.left = {}, !.failed = r.vms])

Unlock(f) == holder' = [holder EXCEPT ![flow[f].net] = Nobody]

Reset(f) == [flow[f] EXCEPT !.preFailed = TRUE, !.place = None, !.todo = {},
                            !.cur = None, !.vmsLeft = {}, !.victim = None, !.hosts = {}]

(* The item raises: the lock is released on the way out. *)
ItemRaises(f) ==
    /\ EndItem(f, Reset(f))
    /\ Unlock(f)
    /\ UNCHANGED vcenter

(* find_networks yields the next conflicting network; if it has vanished    *)
(* from the watcher's cache or from vCenter meanwhile, the item raises.     *)
PickConflict(f, m) ==
    /\ At(f, "clear")
    /\ m \in flow[f].todo
    /\ IF ~Exists(m) THEN ItemRaises(f)
       ELSE /\ Update(f, [flow[f] EXCEPT
                 !.pc = "migrate", !.cur = m, !.ref = born[m], !.todo = @ \ {m},
                 !.vmsLeft = {v \in Vms : /\ conn[v] = m
                                          /\ m = flow[f].net => OtherSandbox(f, v)}])
            /\ UNCHANGED <<vcenter, holder>>

(* is_connected_to_network: a deleted VM is skipped. *)
CheckVnic(f, v) ==
    /\ At(f, "migrate")
    /\ v \in flow[f].vmsLeft
    /\ IF conn[v] = flow[f].cur /\ Alive(flow[f].cur, flow[f].ref)
       THEN Update(f, [flow[f] EXCEPT !.pc = "move", !.victim = v])
       ELSE Update(f, [flow[f] EXCEPT !.vmsLeft = @ \ {v}])
    /\ UNCHANGED <<vcenter, holder>>

Plug(v, n) == conn' = [conn EXCEPT ![v] = IF conn[v] = None THEN None ELSE n]

(* vnic.connect(holding): the vNIC may have been plugged elsewhere by now. *)
MoveVnic(f) ==
    LET v == flow[f].victim IN
    /\ At(f, "move")
    /\ Plug(v, Holding)
    /\ Update(f, [flow[f] EXCEPT !.pc = "migrate", !.vmsLeft = @ \ {v},
                                 !.victim = None])
    /\ UNCHANGED <<pg, born, holder>>

(* The flow's own network is kept; the others are waited for and removed. *)
Migrated(f) ==
    /\ At(f, "migrate")
    /\ flow[f].vmsLeft = {}
    /\ IF flow[f].cur = flow[f].net
       THEN Update(f, [flow[f] EXCEPT !.pc = "clear", !.cur = None])
       ELSE Goto(f, "wait")
    /\ UNCHANGED <<vcenter, holder>>

(* wait_network_become_free() gives up silently after its timeout. *)
WaitFree(f) ==
    /\ At(f, "wait")
    /\ IF Alive(flow[f].cur, flow[f].ref)
       THEN /\ Goto(f, IF Distributed THEN "destroy" ELSE "unhost")
            /\ UNCHANGED <<vcenter, holder>>
       ELSE ItemRaises(f)

Cleared(f) == Update(f, [flow[f] EXCEPT !.pc = "clear", !.cur = None, !.hosts = {}])

(* DVPortGroupHandler.destroy: gone already is fine, in use is not. *)
DestroyConflict(f) ==
    LET m == flow[f].cur IN
    /\ At(f, "destroy")
    /\ IF ~Alive(m, flow[f].ref)
       THEN Cleared(f) /\ UNCHANGED <<vcenter, holder>>
       ELSE IF Attached(m) THEN ItemRaises(f)
       ELSE /\ pg' = [pg EXCEPT ![m] = {}]
            /\ Cleared(f)
            /\ UNCHANGED <<born, conn, holder>>

(* host.remove_port_group: by name, absence and use are tolerated here. *)
RemoveAt(n, p) ==
    pg' = [pg EXCEPT ![n] = IF AttachedAt(n, p) THEN @ ELSE @ \ {p}]

(* _delete_pg_from_every_host: `hosts` are those already visited. *)
ClearFromHost(f, h) ==
    /\ At(f, "unhost")
    /\ h \in Hosts \ flow[f].hosts
    /\ RemoveAt(flow[f].cur, h)
    /\ IF flow[f].hosts \cup {h} = Hosts
       THEN Cleared(f)
       ELSE Update(f, [flow[f] EXCEPT !.hosts = @ \cup {h}])
    /\ UNCHANGED <<born, conn, holder>>

(* Fault: a network that is not found is stored as None. *)
GetNetworkOrNone(f) ==
    LET n == flow[f].net IN
    /\ At(f, "clear")
    /\ flow[f].todo = {}
    /\ Update(f, [flow[f] EXCEPT !.ref = IF Exists(n) THEN born[n] ELSE None,
                                 !.pc = "store"])
    /\ UNCHANGED <<vcenter, holder>>

(* Nothing left to clear: get the network earlier created, or create it. *)
GetNetwork(f) ==
    LET n == flow[f].net IN
    /\ At(f, "clear")
    /\ flow[f].todo = {}
    /\ IF ~Exists(n) THEN Goto(f, "create")
       ELSE Update(f, [flow[f] EXCEPT !.ref = born[n],
                          !.pc = IF Distributed THEN "store" ELSE "validate"])
    /\ UNCHANGED <<vcenter, holder>>

(* _validate_network: the host of this VM may not have the port group. *)
Validate(f) ==
    LET n == flow[f].net IN
    /\ At(f, "validate")
    /\ IF ~Alive(n, flow[f].ref) THEN ItemRaises(f)
       ELSE /\ Goto(f, IF flow[f].place \in pg[n] THEN "store" ELSE "recreate")
            /\ UNCHANGED <<vcenter, holder>>

AddPortGroup(f) ==
    LET n == flow[f].net IN
    /\ pg' = [pg EXCEPT ![n] = @ \cup {flow[f].place}]
    /\ born' = [born EXCEPT ![n] = IF Exists(n) THEN @ ELSE @ + 1]
    /\ UNCHANGED <<conn, holder>>

Duplicate(f) == flow[f].place \in pg[flow[f].net]

(* _create_network: PortGroupExists of a host is ignored, the failed task   *)
(* of a DvSwitch is not.                                                   *)
Create(f) ==
    /\ At(f, "create")
    /\ IF ~Duplicate(f) THEN AddPortGroup(f) /\ Goto(f, "appear")
       ELSE IF Distributed THEN ItemRaises(f)
       ELSE Goto(f, "appear") /\ UNCHANGED <<vcenter, holder>>

(* The same call from _validate_network tolerates no PortGroupExists. *)
Recreate(f) ==
    /\ At(f, "recreate")
    /\ IF Duplicate(f) THEN ItemRaises(f)
       ELSE AddPortGroup(f) /\ Goto(f, "store")

(* wait_appears: another flow may have removed the new network already. *)
WaitAppears(f) ==
    LET n == flow[f].net IN
    /\ At(f, "appear")
    /\ IF ~Exists(n) THEN ItemRaises(f)
       ELSE /\ Update(f, [flow[f] EXCEPT !.pc = "store", !.ref = born[n]])
            /\ UNCHANGED <<vcenter, holder>>

(* Fault: the lock is not released when the network is returned. *)
StoreLocked(f) ==
    /\ At(f, "store")
    /\ EndItem(f, [flow[f] EXCEPT !.got = flow[f].ref, !.place = None])
    /\ UNCHANGED <<vcenter, holder>>

(* self._networks[name] = network, and out of the lock. *)
Store(f) ==
    /\ At(f, "store")
    /\ EndItem(f, [flow[f] EXCEPT !.got = flow[f].ref, !.place = None])
    /\ Unlock(f)
    /\ UNCHANGED vcenter

-----------------------------------------------------------------------------
(* The actions of the request, one per VM; a VM that is gone fails its own. *)

ActionDone(f, v, ok) ==
    Update(f, [flow[f] EXCEPT !.left = @ \ {v},
                              !.failed = IF ok THEN @ ELSE @ \cup {v}])

(* remove_vlan: a VM that was not found at load time is skipped. *)
RemoveVlan(f, v) ==
    /\ At(f, "act")
    /\ flow[f].kind = "remove"
    /\ v \in flow[f].left
    /\ Plug(v, Holding)
    /\ ActionDone(f, v, v \in flow[f].gone \/ conn[v] # None)
    /\ UNCHANGED <<pg, born, holder>>

(* clear: disconnect before connecting. *)
Clear(f, v) ==
    /\ At(f, "act")
    /\ flow[f].kind = "set"
    /\ v \in flow[f].left \ flow[f].cleared
    /\ IF conn[v] = None
       THEN ActionDone(f, v, FALSE) /\ UNCHANGED conn
       ELSE /\ Plug(v, Holding)
            /\ Update(f, [flow[f] EXCEPT !.cleared = @ \cup {v}])
    /\ UNCHANGED <<pg, born, holder>>

(* Can vCenter plug v into the network object the flow holds? *)
Usable(f, v) ==
    LET n == flow[f].net IN
    /\ conn[v] # None
    /\ n \in Generated => Alive(n, flow[f].got) /\ PlaceOf(v) \in pg[n]

(* set_vlan; rolling a failure back clears the vNIC once more. *)
SetVlan(f, v) ==
    /\ At(f, "act")
    /\ flow[f].kind = "set"
    /\ v \in flow[f].left \cap flow[f].cleared
    /\ Plug(v, IF Usable(f, v) THEN flow[f].net ELSE Holding)
    /\ ActionDone(f, v, Usable(f, v))
    /\ UNCHANGED <<pg, born, holder>>

(* Fault: only failed actions are cleaned up after. *)
DisusedByFailure(f) == flow[f].failed

(* post_connectivity: generated networks of removed and failed actions are  *)
(* candidates.  `getattr(vm, "host.name", None)` is None for every VM, so   *)
(* one settings object per name survives, that of the last action.         *)
Disused(f) == IF flow[f].kind = "remove" THEN flow[f].vms ELSE flow[f].failed

ToRemove(f) == IF flow[f].net \in Generated THEN Disused(f) ELSE {}

ActionsDone(f) ==
    /\ At(f, "act")
    /\ flow[f].left = {}
    /\ IF ToRemove(f) = {} THEN Goto(f, "done")
       ELSE \E v \in ToRemove(f) :
               Update(f, [flow[f] EXCEPT !.pc = "post", !.victim = v])
    /\ UNCHANGED <<vcenter, holder>>

(* _remove_pg: not found under the new or the old name is fine. *)
PostGet(f) ==
    LET n == flow[f].net IN
    /\ At(f, "post")
    /\ IF Exists(n)
       THEN Update(f, [flow[f] EXCEPT !.pc = "postwait", !.ref = born[n]])
       ELSE Goto(f, "done")
    /\ UNCHANGED <<vcenter, holder>>

(* wait_network_become_free(raise_=True) asks the object behind the handle. *)
PostWait(f) ==
    LET n == flow[f].net IN
    /\ At(f, "postwait")
    /\ Goto(f, IF ~Alive(n, flow[f].ref) THEN "broken"
               ELSE IF Attached(n) THEN "done" ELSE "postdestroy")
    /\ UNCHANGED <<vcenter, holder>>

PostDestroyDv(f) ==
    LET n == flow[f].net IN
    /\ At(f, "postdestroy")
    /\ Distributed
    /\ pg' = [pg EXCEPT ![n] =
                 IF Alive(n, flow[f].ref) /\ ~Attached(n) THEN {} ELSE @]
    /\ Goto(f, "done")
    /\ UNCHANGED <<born, conn, holder>>

(* On a vSwitch the port group goes from the host of the action's VM, or    *)
(* from every host if the VM was not found.                                *)
PostDestroyHost(f) ==
    LET n == flow[f].net  v == flow[f].victim IN
    /\ At(f, "postdestroy")
    /\ ~Distributed
    /\ v \notin flow[f].gone
    /\ IF Alive(n, flow[f].ref) /\ conn[v] # None
       THEN RemoveAt(n, HostOf[v]) /\ Goto(f, "done")
       ELSE Goto(f, "broken") /\ UNCHANGED pg
    /\ UNCHANGED <<born, conn, holder>>

PostDestroyEverywhere(f) ==
    /\ At(f, "postdestroy")
    /\ ~Distributed
    /\ flow[f].victim \in flow[f].gone
    /\ Goto(f, IF Alive(flow[f].net, flow[f].ref) THEN "postunhost" ELSE "broken")
    /\ UNCHANGED <<vcenter, holder>>

PostFromHost(f, h) ==
    /\ At(f, "postunhost")
    /\ h \in Hosts \ flow[f].hosts
    /\ RemoveAt(flow[f].net, h)
    /\ Update(f, [flow[f] EXCEPT
            !.hosts = @ \cup {h},
            !.pc = IF flow[f].hosts \cup {h} = Hosts THEN "done" ELSE @])
    /\ UNCHANGED <<born, conn, holder>>

-----------------------------------------------------------------------------
Pre(f) ==
    \/ LockNetwork(f)
    \/ \E m \in Generated : PickConflict(f, m)
    \/ \E v \in Vms : CheckVnic(f, v)
    \/ MoveVnic(f)
    \/ Migrated(f)
    \/ WaitFree(f)
    \/ DestroyConflict(f)
    \/ \E h \in Hosts : ClearFromHost(f, h)
    \/ GetNetwork(f)
    \/ Validate(f)
    \/ Create(f)
    \/ Recreate(f)
    \/ WaitAppears(f)
    \/ Store(f)

Act(f) == \E v \in Vms : RemoveVlan(f, v) \/ Clear(f, v) \/ SetVlan(f, v)

Post(f) ==
    \/ ActionsDone(f)
    \/ PostGet(f)
    \/ PostWait(f)
    \/ PostDestroyDv(f)
    \/ PostDestroyHost(f)
    \/ PostDestroyEverywhere(f)
    \/ \E h \in Hosts : PostFromHost(f, h)

Next ==
    \/ \E v \in Vms : DeleteVm(v)
    \/ \E f \in Flows :
          \/ \E r \in Requests : Start(f, r)
          \/ Pre(f)
          \/ Act(f)
          \/ Post(f)

(* A command that has started runs on; waits inside it have timeouts. *)
Fairness == \A f \in Flows : WF_vars(Pre(f) \/ Act(f) \/ Post(f))

Spec == Init /\ [][Next]_vars /\ Fairness
-----------------------------------------------------------------------------
Started(f) == ~At(f, "idle")
Finished(f) == flow[f].pc \in Terminal
Over == \A f \in Flows : flow[f].pc \in {"idle", "done"}

(* No flow is about to create a port group that is there already: the       *)
(* look-up and the creation of _get_or_create_network are one step to all   *)
(* other flows of the process, so a DvSwitch never rejects a duplicate.     *)
NoDuplicateCreate ==
    \A f \in Flows :
        flow[f].pc \in {"create", "recreate"} => flow[f].place \notin pg[flow[f].net]

(* While every command only connects VMs to shared networks, and there has  *)
(* been no exclusive network in the way, none of them fails, however they   *)
(* interleave: each finds or creates the network and plugs its VMs in.  Two *)
(* that clear the same exclusive network away can fail: one removes it, the *)
(* other then misses it (connectivity_flow.py:419-430).                     *)
ConcurrentConnectsSucceed ==
    (\A f \in Flows : Started(f) =>
         flow[f].kind = "set" /\ flow[f].net \in Shared /\ flow[f].gone = {})
    /\ (\A e \in Exclusive : born[e] = 0)
    /\ (\A v \in Vms : conn[v] # None)
    => \A f \in Flows : /\ flow[f].pc \notin {"aborted", "broken"}
                        /\ flow[f].failed = {}

(* A network prepared while no other command was connecting has its VLAN as *)
(* its isolation demands: an exclusive one alone, a shared one without      *)
(* exclusive ones.  Removals may run meanwhile: they create nothing.        *)
ClearedUnlessRaced ==
    \A f \in Flows :
        /\ flow[f].kind = "set"
        /\ flow[f].got > 0
        /\ flow[f].pc \in {"act", "post", "done"}
        /\ \A g \in Flows \ {f} : Started(g) => flow[g].kind = "remove"
        => \A m \in SameVlan(flow[f].net) \ {flow[f].net} :
               {m, flow[f].net} \subseteq Shared

(* After commands about one generated network have all succeeded, it is     *)
(* used wherever it exists: post_connectivity removes what its actions      *)
(* leave unused, whichever of two concurrent commands is the last.          *)
NoLeak ==
    \A n \in Generated :
        /\ Over
        /\ \E f \in Flows : Started(f)
        /\ \A f \in Flows : Started(f) => flow[f].net = n
        /\ \A v \in Vms : conn[v] # None
        => \A p \in pg[n] : AttachedAt(n, p)

(* Every command ends: each wait has a timeout, the lock is always released.*)
FlowsFinish == \A f \in Flows : Started(f) ~> Finished(f)

(* What _clear_networks_for_exclusive says: "If network is exclusive only   *)
(* this one could use the VLAN ID."                                        *)
ExclusiveVlan ==
    \A e \in Exclusive : Attached(e) =>
        \A n \in SameVlan(e) \ {e} : ~Attached(n)

(* What post_connectivity says of its keys: "we need to remove network only *)
(* once for every used host" - so from each host its VMs were using.        *)
RemovedFromEveryUsedHost ==
    Over => \A f \in Flows : \A v \in flow[f].vms :
        At(f, "done") /\ flow[f].kind = "remove" /\ flow[f].net \in Generated
            /\ PlaceOf(v) \in pg[flow[f].net]
        => AttachedAt(flow[f].net, PlaceOf(v))
=============================================================================
