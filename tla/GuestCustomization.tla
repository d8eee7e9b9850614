------------------------- MODULE GuestCustomization -------------------------
(***************************************************************************)
(* flows/power_flow.py, flows/customize_guest_os.py, create_new_vnic of    *)
(* utils/connectivity_helpers.py and common/vcenter/event_manager.py: one  *)
(* VM, the customization spec that has the VM's name, and the commands     *)
(* that power the VM, prepare the spec and add vNICs.  No lock separates   *)
(* them.  The VM, the spec manager and the VM's event history are vCenter's*)
(* (external): a spec carries a version that overwriting it checks, the    *)
(* guest is customized when it boots with a spec applied.                  *)
(***************************************************************************)
EXTENDS Naturals, Sequences, FiniteSetsExt

CONSTANTS
    Cmds,
    Asks,       \* what each command may ask for
    MaxVnics,   \* 10 in the code
    MaxAhead    \* events to come that the driver's clock may be ahead of (a bound)

VARIABLES
    power,      \* vCenter: "off", "on", "halting" (the guest shuts down), "suspended"
    guest,      \* vCenter: how far the customization is, and, as history, whose spec
                \* it applies and whose have begun
    events,     \* vCenter: the VM's customization events
    spec,       \* vCenter: the spec with the VM's name
    made,       \* vCenter: versions of specs so far
    vnics,      \* vCenter: number of the VM's vNICs
    job,        \* per command: its locals
    kept,       \* history: commands whose parameters went into this spec
    raced       \* history: a vNIC was added while a spec was prepared

vars == <<power, guest, events, spec, made, vnics, job, kept, raced>>
vm == <<power, guest, events, vnics>>
specs == <<spec, made, kept>>

NoSpec == [version |-> 0, params |-> {}, nics |-> 0]
Over == {"done", "failed"}

(* Source: no name, the VM's own, a spec of the library for this OS or for *)
(* another one, a name nobody knows.                                       *)
Requests ==
    [do : {"on", "soft", "hard"}]
    \cup [do : {"vnic"}, index : 1 .. MaxVnics]
    \cup [do : {"customize"}, source : {"none", "own", "library", "otherOS", "unknown"},
          params : BOOLEAN, override : BOOLEAN]
AsksAssumption ==
    MaxVnics \in Nat /\ MaxAhead \in Nat /\ \A c \in Cmds : Asks[c] \subseteq Requests

Init ==
    /\ power = "off"
    /\ guest = [phase |-> "idle", of |-> {}, begun |-> {}]
    /\ events = <<"started", "ended">>          \* of an earlier power-on
    /\ vnics \in 0 .. 1
    /\ spec \in {NoSpec, [version |-> 1, params |-> {}, nics |-> vnics]}   \* by the deploy
    /\ made = 1 /\ kept = {}
    /\ job = [c \in Cmds |-> [pc |-> "new", ask |-> [do |-> "on"], source |-> "none",
                              spec |-> NoSpec, mark |-> 0, own |-> FALSE]]
    /\ raced = FALSE

At(c, label) == job[c].pc = label
Update(c, j) == job' = [job EXCEPT ![c] = j]
Goto(c, label) == Update(c, [job[c] EXCEPT !.pc = label])
Running(d, kinds) == job[d].pc \notin {"new"} \cup Over /\ job[d].ask.do \in kinds

Begin(c) ==
    \E r \in Asks[c] :
        /\ At(c, "new")
        /\ Update(c, [job[c] EXCEPT
                !.ask = r,
                !.source = IF r.do = "customize" THEN r.source ELSE "none",
                !.pc = CASE r.do = "on" -> "find"
                         [] r.do \in {"soft", "hard"} -> "state"
                         [] r.do = "vnic" -> "nic"
                         [] r.do = "customize" -> IF r.override THEN "clear" ELSE "look"])
        /\ raced' = (raced \/ \E d \in Cmds :
                        \/ r.do = "vnic" /\ Running(d, {"vnic", "customize"})
                        \/ r.do = "customize" /\ Running(d, {"vnic"}))
        /\ UNCHANGED <<vm, specs>>

-----------------------------------------------------------------------------
(* VCenterPowerFlow.power_on *)

FindSpec(c) ==
    /\ At(c, "find")
    /\ Update(c, [job[c] EXCEPT !.spec = spec,
                                !.pc = IF spec = NoSpec THEN "state" ELSE "apply"])
    /\ UNCHANGED <<vm, specs, raced>>

(* CustomizeVM_Task is refused on a VM that runs or waits for a spec.      *)
ApplySpec(c) ==
    /\ At(c, "apply")
    /\ IF power = "off" /\ guest.phase = "idle"
       THEN /\ guest' = [guest EXCEPT !.phase = "pending", !.of = {c}]
            /\ Goto(c, "state")
       ELSE Goto(c, "failed") /\ UNCHANGED guest
    /\ UNCHANGED <<power, events, vnics, specs, raced>>

(* The time from which on events count; `own` is history: the command's own *)
(* task has powered the VM.                                                *)
PoweredOn(c, mark, own) ==
    IF job[c].spec = NoSpec THEN Goto(c, "done")
    ELSE Update(c, [job[c] EXCEPT !.mark = mark, !.own = own, !.pc = "awaitstart"])

(* power_state is looked at first, by power_on and power_off; a VM that is  *)
(* suspended is neither on nor off.  On a VM that is on the time is the     *)
(* driver's datetime.now(), without a zone: vCenter takes it for a time     *)
(* that may be any number of events before its own, or ahead of it.         *)
LookAtPower(c) ==
    /\ At(c, "state")
    /\ CASE job[c].ask.do = "on" /\ power \in {"on", "halting"} ->
              \E mark \in 0 .. Len(events) + MaxAhead : PoweredOn(c, mark, FALSE)
         [] job[c].ask.do # "on" /\ power = "off" -> Goto(c, "done")
         [] OTHER -> Goto(c, "task")
    /\ UNCHANGED <<vm, specs, raced>>

(* The time is that of the task, by vCenter's clock.                       *)
PowerOn(c) ==
    /\ At(c, "task") /\ job[c].ask.do = "on"
    /\ IF power \in {"off", "suspended"}
       THEN power' = "on" /\ PoweredOn(c, Len(events), TRUE)
       ELSE Goto(c, "failed") /\ UNCHANGED power
    /\ UNCHANGED <<guest, events, vnics, specs, raced>>

(* Fault: the events are asked for without event_start_time. *)
SinceEver(begin, kind) == \E i \in 1 .. Len(events) : events[i] = kind

Since(begin, kind) == \E i \in begin + 1 .. Len(events) : events[i] = kind

(* _wait_for_event polls until the event or the timeout: no start event is *)
(* an error, the end may be a failure or not come at all.                  *)
AwaitStart(c) ==
    /\ At(c, "awaitstart")
    /\ \/ Since(job[c].mark, "started") /\ Goto(c, "awaitend")
       \/ ~Since(job[c].mark, "started") /\ Goto(c, "failed")
    /\ UNCHANGED <<vm, specs, raced>>

(* Fault: the end is waited for without a timeout. *)
AwaitEndForever(c) ==
    /\ At(c, "awaitend")
    /\ Since(job[c].mark, "ended")
    /\ Goto(c, "drop")
    /\ UNCHANGED <<vm, specs, raced>>

AwaitEnd(c) ==
    /\ At(c, "awaitend")
    /\ Goto(c, "drop")
    /\ UNCHANGED <<vm, specs, raced>>

(* A customization that was at work is over, without an event.             *)
PowerLost ==
    /\ power' = "off"
    /\ guest' = IF guest.phase = "running" THEN [guest EXCEPT !.phase = "idle"] ELSE guest

DeleteSpec == spec' = NoSpec /\ kept' = {} /\ UNCHANGED made

(* delete_customization_spec by name, whatever the spec is by now. *)
DropSpec(c) ==
    /\ At(c, "drop")
    /\ DeleteSpec
    /\ Goto(c, "done")
    /\ UNCHANGED <<vm, raced>>

(* power_off: ShutdownGuest needs running tools and does not wait.         *)
PowerOff(c) ==
    /\ At(c, "task") /\ job[c].ask.do \in {"soft", "hard"}
    /\ \/ /\ power = "off" \/ job[c].ask.do = "soft"
          /\ Goto(c, "failed")
          /\ UNCHANGED <<power, guest>>
       \/ /\ job[c].ask.do = "soft" /\ power \in {"on", "halting"}
          /\ power' = "halting"
          /\ Goto(c, "done")
          /\ UNCHANGED guest
       \/ /\ job[c].ask.do = "hard" /\ power # "off"
          /\ PowerLost
          /\ Goto(c, "done")
    /\ UNCHANGED <<events, vnics, specs, raced>>

-----------------------------------------------------------------------------
(* customize_guest_os, prepare_custom_spec *)

(* The override deletes first, whatever becomes of the rest.               *)
ClearSpec(c) ==
    /\ At(c, "clear")
    /\ DeleteSpec
    /\ Goto(c, "prepare")
    /\ UNCHANGED <<vm, raced>>

(* Without it CustomSpecExists is raised, or the existing spec is edited.  *)
LookForSpec(c) ==
    /\ At(c, "look")
    /\ IF spec # NoSpec /\ job[c].source # "none" THEN Goto(c, "failed")
       ELSE Update(c, [job[c] EXCEPT !.pc = "prepare",
                                     !.source = IF spec = NoSpec THEN @ ELSE "own"])
    /\ UNCHANGED <<vm, specs, raced>>

NewVersion(c, s) ==
    /\ made' = made + 1
    /\ spec' = [s EXCEPT !.version = made + 1]
    /\ kept' = IF job[c].ask.do = "customize" /\ job[c].ask.params
               THEN kept \cup {c} ELSE kept

(* Duplicate a spec of the library under the VM's name, which must be free.*)
Prepare(c) ==
    LET source == job[c].source IN
    /\ At(c, "prepare")
    /\ CASE source = "own" -> Goto(c, "read") /\ UNCHANGED specs
         [] source = "none" -> /\ Goto(c, IF job[c].ask.params THEN "params" ELSE "done")
                           /\ UNCHANGED specs
         [] OTHER -> IF source = "unknown" \/ spec # NoSpec
                     THEN Goto(c, "failed") /\ UNCHANGED specs
                     ELSE /\ Goto(c, "read")
                          /\ made' = made + 1
                          /\ spec' = [NoSpec EXCEPT !.version = made + 1]
                          /\ UNCHANGED kept
    /\ UNCHANGED <<vm, raced>>

ReadSpec(c) ==
    /\ At(c, "read")
    /\ Update(c, [job[c] EXCEPT !.spec = spec,
                                !.pc = IF spec = NoSpec THEN "failed" ELSE "params"])
    /\ UNCHANGED <<vm, specs, raced>>

(* set_custom_spec_params adds the adapters that are missing; parameters   *)
(* for another OS raise WrongCustomSpecParams.                             *)
SetParams(c) ==
    LET s == job[c].spec IN
    /\ At(c, "params")
    /\ CASE ~job[c].ask.params -> Goto(c, "overwrite")
         [] job[c].ask.params /\ job[c].source = "otherOS" -> Goto(c, "failed")
         [] OTHER -> Update(c, [job[c] EXCEPT
                !.spec = [s EXCEPT !.params = @ \cup {c}, !.nics = Max({@, vnics})],
                !.pc = IF job[c].source = "none" THEN "create" ELSE "overwrite"])
    /\ UNCHANGED <<vm, specs, raced>>

CreateSpec(c) ==
    /\ At(c, "create")
    /\ IF spec = NoSpec THEN NewVersion(c, job[c].spec) /\ Goto(c, "done")
       ELSE Goto(c, "failed") /\ UNCHANGED specs
    /\ UNCHANGED <<vm, raced>>

(* Fault: the version is not sent along. *)
OverwriteAnyVersion(c) ==
    /\ At(c, "overwrite")
    /\ IF spec # NoSpec THEN NewVersion(c, job[c].spec) /\ Goto(c, "done")
       ELSE Goto(c, "failed") /\ UNCHANGED specs
    /\ UNCHANGED <<vm, raced>>

(* A spec that was changed or deleted since it was read is refused.        *)
OverwriteSpec(c) ==
    /\ At(c, "overwrite")
    /\ IF spec # NoSpec /\ spec.version = job[c].spec.version
       THEN NewVersion(c, job[c].spec) /\ Goto(c, "done")
       ELSE Goto(c, "failed") /\ UNCHANGED specs
    /\ UNCHANGED <<vm, raced>>

-----------------------------------------------------------------------------
(* create_new_vnic *)

(* The request names the index the new vNIC must get. *)
AddVnic(c) ==
    /\ At(c, "nic")
    /\ IF vnics < MaxVnics /\ (vnics = 0 \/ job[c].ask.index = vnics + 1)
       THEN vnics' = vnics + 1 /\ Update(c, [job[c] EXCEPT !.pc = "last", !.mark = vnics + 1])
       ELSE Goto(c, "failed") /\ UNCHANGED vnics
    /\ UNCHANGED <<power, guest, events, specs, raced>>

(* Vnic.connect takes the last vNIC for its own; the assertion that it is  *)
(* on the right network fails only if another command wanted another one.  *)
TakeLastVnic(c) ==
    /\ At(c, "last")
    /\ Goto(c, "nicspec") \/ (vnics # job[c].mark /\ Goto(c, "failed"))
    /\ UNCHANGED <<vm, specs, raced>>

(* Fault: the spec is left as it is. *)
VnicWithoutSpec(c) ==
    /\ At(c, "nicspec")
    /\ Goto(c, "done")
    /\ UNCHANGED <<vm, specs, raced>>

(* A spec that lists adapters gets one more. *)
ExtendSpec(c) ==
    /\ At(c, "nicspec")
    /\ IF spec.nics = 0 THEN Goto(c, "done")
       ELSE Update(c, [job[c] EXCEPT !.pc = "overwrite",
                                     !.spec = [spec EXCEPT !.nics = @ + 1]])
    /\ UNCHANGED <<vm, specs, raced>>

-----------------------------------------------------------------------------
(* vCenter and the guest *)

GuestStarts ==
    /\ power = "on" /\ guest.phase = "pending"
    /\ guest' = [guest EXCEPT !.phase = "running", !.begun = @ \cup guest.of]
    /\ events' = Append(events, "started")
    /\ UNCHANGED <<power, vnics, specs, job, raced>>

GuestEnds ==
    /\ power \in {"on", "halting"} /\ guest.phase = "running"
    /\ guest' = [guest EXCEPT !.phase = "idle"]
    /\ events' = Append(events, "ended")
    /\ UNCHANGED <<power, vnics, specs, job, raced>>

GuestHalts ==
    /\ power = "halting"
    /\ PowerLost
    /\ UNCHANGED <<events, vnics, specs, job, raced>>

(* A user of vCenter suspends the VM. *)
Suspend ==
    /\ power = "on"
    /\ power' = "suspended"
    /\ UNCHANGED <<guest, events, vnics, specs, job, raced>>

Working(c) ==
    \/ FindSpec(c)
    \/ ApplySpec(c)
    \/ LookAtPower(c)
    \/ PowerOn(c)
    \/ AwaitStart(c)
    \/ AwaitEnd(c)
    \/ DropSpec(c)
    \/ PowerOff(c)
    \/ ClearSpec(c)
    \/ LookForSpec(c)
    \/ Prepare(c)
    \/ ReadSpec(c)
    \/ SetParams(c)
    \/ CreateSpec(c)
    \/ OverwriteSpec(c)
    \/ AddVnic(c)
    \/ TakeLastVnic(c)
    \/ ExtendSpec(c)

Next ==
    \/ \E c \in Cmds : Begin(c) \/ Working(c)
    \/ GuestStarts
    \/ GuestEnds
    \/ GuestHalts
    \/ Suspend

(* Threads run on; the guest need not boot, nor shut down. *)
Fairness == \A c \in Cmds : WF_vars(Working(c))
Spec == Init /\ [][Next]_vars /\ Fairness

-----------------------------------------------------------------------------
\* Parameters that a command has written stay in the spec until the spec is
\* deleted.
ParamsKept == kept \subseteq spec.params

\* With nobody at work, a spec with parameters and adapters has an adapter
\* for every vNIC, unless vNICs were added and the spec prepared at once.
NicsCovered ==
    ~raced /\ (\A c \in Cmds : job[c].pc \in {"new"} \cup Over)
        => spec.params = {} \/ spec.nics = 0 \/ spec.nics >= vnics

\* Commands that read, edit and write back the spec of one VM without a lock,
\* in whatever order, lose none of the parameters or adapters of another
\* (customization_params.py:31-45, connectivity_helpers.py:146-154).
SpecComplete == ParamsKept /\ NicsCovered

\* A power-on that applied a spec, powered the VM with a task of its own and
\* succeeded has seen the customization with that spec begin, not that of an
\* earlier power-on or of another command (power_flow.py:35-42,
\* vm_handler.py:303-308, event_manager.py:57-71). One that found the VM on is
\* excepted: it asks for events since a time of the driver's clock.
PoweredOnIsCustomized ==
    \A c \in Cmds :
        job[c].ask.do = "on" /\ At(c, "done") /\ job[c].spec # NoSpec /\ job[c].own
            => c \in guest.begun
=============================================================================
