---------------------------- MODULE VmReconfigure ----------------------------
(***************************************************************************)
(* handlers/config_spec_handler.py and _reconfigure of vm_handler.py:      *)
(* commands that grow or add disks of one VM.  The spec is made from what  *)
(* the VM looks like before the VM's lock is taken; the lock is looked for *)
(* and stored in a dictionary of the process without another lock.  The VM *)
(* is vCenter's (external): a task is atomic, is refused while another one *)
(* runs, if a disk would shrink or if a unit number is taken.              *)
(*                                                                         *)
(* A command asks for disks as `sorted` leaves them: by number.  Processors*)
(* and memory are passed through and left out.                             *)
(***************************************************************************)
EXTENDS Integers, Sequences, FiniteSetsExt

CONSTANTS
    Cmds,
    VMs,        \* what the VM may be at the beginning
    Asks,       \* what each command may ask for: sequences of number and size
    MaxUnits,   \* MAX_NUMBER_OF_VM_DISKS, 16
    Reserved    \* SCSI_CONTROLLER_UNIT_NUMBER, 7

(* holder names a command by itself and nobody by 0. *)
ReconfigureAssumption == IsFiniteSet(Cmds) /\ 0 \notin Cmds

(* A VM's disks have numbers, and all its devices units and keys; `file`: the*)
(* device is backed by a file, as a network card, a pass-through device or a *)
(* raw disk is not.                                                          *)
IsVm(v) ==
    /\ v \in [disks : {v.disks}, scsi : BOOLEAN,
               other : SUBSET [unit : Nat, key : Nat, file : BOOLEAN]]
    /\ v.disks \in [DOMAIN v.disks -> [size : Nat, linked : BOOLEAN, unit : Nat, key : Nat,
                                       file : BOOLEAN]]
    /\ DOMAIN v.disks \subseteq Nat
    /\ IsFiniteSet(DOMAIN v.disks) /\ IsFiniteSet(v.other)

RequestsAssumption ==
    /\ MaxUnits \in Nat
    /\ \A v \in VMs : IsVm(v)
    /\ \A c \in Cmds : Asks[c] \subseteq Seq([num : Nat, size : Nat])

VARIABLES
    vm,         \* vCenter: disks by number, the other devices, whether there is
                \* a SCSI controller
    locks,      \* _vm_locks: the lock stored for the VM, 0: none, and those made
    holder,     \* the command that holds each lock, 0: nobody
    job         \* per command: its locals

vars == <<vm, locks, holder, job>>
Over == {"done", "failed"}
Nothing == [edits |-> <<>>, adds |-> <<>>, refused |-> FALSE]

Init ==
    /\ vm \in VMs
    /\ locks = [stored |-> 0, made |-> 0]
    /\ holder = [l \in 1 .. Cardinality(Cmds) |-> 0]
    /\ job = [c \in Cmds |-> [pc |-> "new", ask |-> <<>>, plan |-> Nothing, lock |-> 0,
                              seen |-> vm, missed |-> FALSE]]

At(c, label) == job[c].pc = label
Update(c, j) == job' = [job EXCEPT ![c] = j]
Goto(c, label) == Update(c, [job[c] EXCEPT !.pc = label])

-----------------------------------------------------------------------------
(* ConfigSpecHandler.get_spec_for_vm *)

LastNumber(disks) == Max({0} \cup DOMAIN disks)
Keys(v) == {v.disks[n].key : n \in DOMAIN v.disks} \cup {d.key : d \in v.other}

FileDisks(v) == {n \in DOMAIN v.disks : v.disks[n].file}

(* Fault: only disks take units. *)
UnitsWithoutDisks(v) ==
    (0 .. MaxUnits - 1) \ ({Reserved} \cup {v.disks[n].unit : n \in FileDisks(v)})

(* _yield_device_unit_number: units of devices with a file, on whichever    *)
(* controller, are left out; the unit of another device is not.            *)
FreeUnits(v) ==
    (0 .. MaxUnits - 1)
        \ ({Reserved} \cup {v.disks[n].unit : n \in FileDisks(v)}
                      \cup {d.unit : d \in {e \in v.other : e.file}})

(* Fault: the key after the last disk's, whoever has it. *)
NextKeyOfDisks(v, last) == last + 1

(* _yield_disk_device_key *)
NextKey(v, last) == CHOOSE k \in last + 1 .. last + 1 + Cardinality(Keys(v)) :
                        k \notin Keys(v) /\ \A i \in last + 1 .. k - 1 : i \in Keys(v)
LastKey(disks) == Max({disks[n].key : n \in DOMAIN disks})

Refused(plan) == [plan EXCEPT !.refused = TRUE]

(* Fault: any number is taken for a new disk's. *)
AddAnyDisk(v, plan, ask) ==
    LET units == FreeUnits(v) \ {plan.adds[i].unit : i \in DOMAIN plan.adds}
        last == IF plan.adds = <<>> THEN LastKey(v.disks) ELSE plan.adds[Len(plan.adds)].key
    IN  IF v.disks = <<>> \/ ~v.scsi \/ units = {} THEN Refused(plan)
        ELSE [plan EXCEPT !.adds = Append(@, [num |-> LastNumber(v.disks) + Len(@) + 1,
                                              size |-> ask.size, unit |-> Min(units),
                                              key |-> NextKey(v, last)])]

(* _create_new_hdd_spec: the number must be the next one, there must be a   *)
(* disk (max of no keys raises), a SCSI controller and a unit number.       *)
AddDisk(v, plan, ask) ==
    LET units == FreeUnits(v) \ {plan.adds[i].unit : i \in DOMAIN plan.adds}
        last == IF plan.adds = <<>> THEN LastKey(v.disks) ELSE plan.adds[Len(plan.adds)].key
    IN  IF \/ ask.num # LastNumber(v.disks) + Len(plan.adds) + 1
           \/ v.disks = <<>> \/ ~v.scsi \/ units = {}
        THEN Refused(plan)
        ELSE [plan EXCEPT !.adds = Append(@, [num |-> ask.num, size |-> ask.size,
                                              unit |-> Min(units), key |-> NextKey(v, last)])]

(* _create_update_hdd_spec: the size is set in the object that a second     *)
(* request for the disk will look at.                                       *)
EditDisk(v, plan, ask) ==
    LET earlier == {i \in DOMAIN plan.edits : plan.edits[i].num = ask.num}
        size == IF earlier = {} THEN v.disks[ask.num].size ELSE plan.edits[Max(earlier)].size
    IN  CASE size = ask.size -> plan
          [] size > ask.size -> Refused(plan)
          [] OTHER -> [plan EXCEPT !.edits = Append(@, ask)]

(* _update_hdd_specs, for one request. *)
PlanOne(v, plan, ask) ==
    IF plan.refused THEN plan
    ELSE IF ask.num \in DOMAIN v.disks THEN EditDisk(v, plan, ask)
    ELSE AddDisk(v, plan, ask)

(* _validate_hdd_spec, then _update_hdd_specs one request after the other.  *)
Plan(v, ask) ==
    LET upTo[n \in 0 .. Len(ask)] ==
            IF n = 0 THEN Nothing ELSE PlanOne(v, upTo[n - 1], ask[n])
    IN  IF \E n \in DOMAIN ask : ask[n].num \in DOMAIN v.disks /\ v.disks[ask[n].num].linked
        THEN Refused(Nothing)
        ELSE upTo[Len(ask)]

MakeSpec(c) ==
    \E ask \in Asks[c] :
        /\ At(c, "new")
        /\ LET plan == Plan(vm, ask) IN
           Update(c, [job[c] EXCEPT !.ask = ask, !.plan = plan, !.seen = vm,
                                    !.pc = IF plan.refused THEN "failed" ELSE "find"])
        /\ UNCHANGED <<vm, locks, holder>>

-----------------------------------------------------------------------------
(* _get_vm_lock: look, store, read again; then `with` the lock. *)

FindLock(c) ==
    /\ At(c, "find")
    /\ Goto(c, IF locks.stored = 0 THEN "store" ELSE "read")
    /\ UNCHANGED <<vm, locks, holder>>

(* `missed` is history: two commands found no lock at once.                 *)
StoreLock(c) ==
    /\ At(c, "store")
    /\ locks' = [stored |-> locks.made + 1, made |-> locks.made + 1]
    /\ job' = [d \in Cmds |-> [job[d] EXCEPT !.pc = IF d = c THEN "read" ELSE @,
                                             !.missed = @ \/ locks.stored # 0]]
    /\ UNCHANGED <<vm, holder>>

ReadLock(c) ==
    /\ At(c, "read")
    /\ Update(c, [job[c] EXCEPT !.pc = "lock", !.lock = locks.stored])
    /\ UNCHANGED <<vm, locks, holder>>

(* Fault: the lock is not waited for. *)
TakeLockAnyway(c) ==
    /\ At(c, "lock")
    /\ holder' = [holder EXCEPT ![job[c].lock] = c]
    /\ Goto(c, "task")
    /\ UNCHANGED <<vm, locks>>

TakeLock(c) ==
    /\ At(c, "lock")
    /\ holder[job[c].lock] = 0
    /\ holder' = [holder EXCEPT ![job[c].lock] = c]
    /\ Goto(c, "task")
    /\ UNCHANGED <<vm, locks>>

-----------------------------------------------------------------------------
(* Fault: the lock is kept. *)
LeaveLocked(c, label) ==
    /\ Goto(c, label)
    /\ UNCHANGED holder

Leave(c, label) ==
    /\ Goto(c, label)
    /\ holder' = [holder EXCEPT ![job[c].lock] = 0]

(* ReconfigVM_Task is accepted, or TaskInProgress. *)
StartTask(c) ==
    /\ At(c, "task")
    /\ IF \E d \in Cmds : At(d, "running") THEN Leave(c, "failed")
       ELSE Goto(c, "running") /\ UNCHANGED holder
    /\ UNCHANGED <<vm, locks>>

(* What vCenter is sure to refuse; it may refuse more, as the unit of a     *)
(* device that is no disk.                                                 *)
Applicable(plan) ==
    /\ \A i \in DOMAIN plan.edits : vm.disks[plan.edits[i].num].size <= plan.edits[i].size
    /\ \A i \in DOMAIN plan.adds : /\ plan.adds[i].num \notin DOMAIN vm.disks
                                   /\ \A n \in DOMAIN vm.disks :
                                        vm.disks[n].unit # plan.adds[i].unit

(* The disks of the VM with every disk of the spec.                        *)
Applied(plan) ==
    LET new == {plan.adds[i] : i \in DOMAIN plan.adds}
        grown(n) == {plan.edits[i].size : i \in {j \in DOMAIN plan.edits : plan.edits[j].num = n}}
    IN  [n \in DOMAIN vm.disks \cup {d.num : d \in new} |->
            IF n \in DOMAIN vm.disks
            THEN [vm.disks[n] EXCEPT !.size = Max({@} \cup grown(n))]
            ELSE LET d == CHOOSE d \in new : d.num = n
                 IN  [size |-> d.size, linked |-> FALSE, unit |-> d.unit, key |-> d.key,
                      file |-> TRUE]]

(* All of the spec, or nothing.                                             *)
EndTask(c) ==
    /\ At(c, "running")
    /\ \/ /\ Applicable(job[c].plan)
          /\ vm' = [vm EXCEPT !.disks = Applied(job[c].plan)]
          /\ Leave(c, "done")
       \/ Leave(c, "failed") /\ UNCHANGED vm
    /\ UNCHANGED locks

Working(c) ==
    \/ FindLock(c)
    \/ StoreLock(c)
    \/ ReadLock(c)
    \/ TakeLock(c)
    \/ StartTask(c)
    \/ EndTask(c)

Next == \E c \in Cmds : MakeSpec(c) \/ Working(c)
Fairness == \A c \in Cmds : WF_vars(Working(c))
Spec == Init /\ [][Next]_vars /\ Fairness

-----------------------------------------------------------------------------
\* The new disks of a spec get keys that no device of the VM has, and unit
\* numbers that are not the controller's and that no device with a file has, on
\* whichever controller it is; no two of them get the same. (The unit number of
\* another device may be taken once more: config_spec_handler.py:75-97.)
NewDisksFit ==
    \A c \in Cmds :
        LET adds == job[c].plan.adds  seen == job[c].seen IN
        /\ \A i \in DOMAIN adds :
              /\ adds[i].unit \in (0 .. MaxUnits - 1) \ {Reserved}
              /\ \A n \in DOMAIN seen.disks :
                    /\ adds[i].key # seen.disks[n].key
                    /\ seen.disks[n].file => adds[i].unit # seen.disks[n].unit
              /\ \A d \in seen.other :
                    adds[i].key # d.key /\ (d.file => adds[i].unit # d.unit)
        /\ \A i, j \in DOMAIN adds :
              i # j => adds[i].unit # adds[j].unit /\ adds[i].key # adds[j].key

\* A reconfiguration that succeeds has left every disk asked for at that size
\* at least, whoever else reconfigures the VM (config_spec_handler.py:125-151).
ReconfiguredAsAsked ==
    \A c \in Cmds : At(c, "done") =>
        \A n \in DOMAIN job[c].ask :
            /\ job[c].ask[n].num \in DOMAIN vm.disks
            /\ vm.disks[job[c].ask[n].num].size >= job[c].ask[n].size

\* Commands of the process do not get into each other's reconfiguration of a
\* VM, unless both found no lock for it (vm_handler.py:115-118, 250-258).
Serialised ==
    \A c, d \in Cmds :
        c # d /\ job[c].pc \in {"task", "running"} /\ job[d].pc \in {"task", "running"}
            => job[c].missed
=============================================================================
