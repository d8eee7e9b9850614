------------------------------ MODULE SaveApps ------------------------------
(***************************************************************************)
(* flows/save_restore_app.py: apps are saved as clones of their VMs in the *)
(* folder of the saved sandbox, and deleted again, by threads of one or of *)
(* several commands.  The inventory is vCenter's (external); a folder is   *)
(* made under FOLDER_LOCK in one step, destroyed in two (Deployment has    *)
(* the details).  Any call may raise, or be cancelled: its action then     *)
(* ends the command; the rollback manager is never entered, so nothing is  *)
(* rolled back.                                                            *)
(***************************************************************************)
EXTENDS Naturals, FiniteSets

CONSTANTS Cmds, Vms,
          Asks      \* what each command may ask for

(* It is VMs of vCenter that are saved. *)
SavesAssumption ==
    \A c \in Cmds : \A r \in Asks[c] : r.do = "save" => r.vm \in Vms

VARIABLES
    power,      \* vCenter: is the VM running
    folder,     \* vCenter: incarnation of the saved sandbox's folder, 0: none
    made,       \* vCenter: incarnations so far
    clones,     \* vCenter: the saves whose clones exist
    job         \* per command: its locals

vars == <<power, folder, made, clones, job>>
folders == <<folder, made>>
Over == {"done", "failed"}

Init ==
    /\ power \in [Vms -> BOOLEAN]
    /\ folder = 0 /\ made = 0
    /\ clones = {}
    /\ job = [c \in Cmds |-> [pc |-> "new", ask |-> [do |-> "delete"], ref |-> 0,
                              was |-> FALSE, on |-> FALSE, shared |-> FALSE,
                              raised |-> FALSE]]

At(c, label) == job[c].pc = label
Update(c, j) == job' = [job EXCEPT ![c] = j]
Goto(c, label) == Update(c, [job[c] EXCEPT !.pc = label])
Active(d) == job[d].pc \notin {"new"} \cup Over
Saves(d, v) == job[d].ask.do = "save" /\ job[d].ask.vm = v
Exists(d) == d \in clones

(* `on` and `shared` are history: the VM's power when the save began, and   *)
(* whether another save of the same VM was at work meanwhile.  A deletion   *)
(* knows the clone of a save that succeeded.                                *)
Begin(c) ==
    \E r \in Asks[c] :
        LET others == {d \in Cmds : r.do = "save" /\ Active(d) /\ Saves(d, r.vm)} IN
        /\ At(c, "new")
        /\ r.do = "delete" => At(r.save, "done") /\ job[r.save].ask.do = "save"
        /\ job' = [d \in Cmds |->
              IF d = c
              THEN [job[c] EXCEPT !.ask = r, !.shared = others # {},
                                  !.pc = IF r.do = "save" THEN "folder" ELSE "find",
                                  !.on = IF r.do = "save" THEN power[r.vm] ELSE FALSE]
              ELSE IF d \in others THEN [job[d] EXCEPT !.shared = TRUE] ELSE job[d]]
        /\ UNCHANGED <<power, folders, clones>>

(* An exception, wherever the command is. *)
Raise(c) ==
    /\ job[c].pc \in {"folder", "poweroff", "vnics", "snapshot", "restore", "result",
                      "find", "delete", "empty"}
    /\ Update(c, [job[c] EXCEPT !.pc = "failed", !.raised = TRUE])
    /\ UNCHANGED <<power, folders, clones>>

(* _prepare_folders: get_or_create_vm_folder.                               *)
PrepareFolder(c) ==
    /\ At(c, "folder")
    /\ folder' = IF folder = 0 THEN made + 1 ELSE folder
    /\ made' = IF folder = 0 THEN made + 1 ELSE made
    /\ Update(c, [job[c] EXCEPT !.ref = folder',
                                !.pc = IF job[c].ask.off THEN "look" ELSE "clone"])
    /\ UNCHANGED <<power, clones>>

(* _behavior_during_save, before the yield. *)
ReadPower(c) ==
    /\ At(c, "look")
    /\ Update(c, [job[c] EXCEPT !.was = power[job[c].ask.vm], !.pc = "poweroff"])
    /\ UNCHANGED <<power, folders, clones>>

PowerOff(c) ==
    /\ At(c, "poweroff")
    /\ power' = [power EXCEPT ![job[c].ask.vm] = FALSE]
    /\ Goto(c, "clone")
    /\ UNCHANGED <<folders, clones>>

(* "Clone of <name>" must be free in the folder.                            *)
NameTaken(c) == \E d \in Cmds : Exists(d) /\ Saves(d, job[c].ask.vm)

Clone(c) ==
    /\ At(c, "clone")
    /\ folder = job[c].ref /\ ~NameTaken(c)
    /\ clones' = clones \cup {c}
    /\ Goto(c, "vnics")
    /\ UNCHANGED <<power, folders>>

(* Fault: the folder is left to the rollback manager. *)
CloneFailsAndLeaves(c) ==
    /\ At(c, "clone")
    /\ Goto(c, "failed")
    /\ UNCHANGED <<power, folders, clones>>

(* A clone that fails leaves nothing; the folder is destroyed if it is empty.*)
CloneFails(c) ==
    /\ At(c, "clone")
    /\ Goto(c, "check")
    /\ UNCHANGED <<power, folders, clones>>

(* Networks of the sandbox are replaced by the holding network; the snapshot.*)
Finish(c) ==
    /\ At(c, "vnics") \/ At(c, "snapshot")
    /\ Exists(c)
    /\ Goto(c, IF At(c, "vnics") THEN "snapshot" ELSE "restore")
    /\ UNCHANGED <<power, folders, clones>>

(* Fault: the power state is looked at after the VM has been powered off. *)
RestoreCurrent(c) ==
    /\ At(c, "restore")
    /\ Goto(c, "result")
    /\ UNCHANGED <<power, folders, clones>>

(* _behavior_during_save, after the yield. *)
RestorePower(c) ==
    /\ At(c, "restore")
    /\ power' = IF job[c].was THEN [power EXCEPT ![job[c].ask.vm] = TRUE] ELSE power
    /\ Goto(c, "result")
    /\ UNCHANGED <<folders, clones>>

(* _prepare_result reads the path, name and uuid of the clone. *)
PrepareResult(c) ==
    /\ At(c, "result")
    /\ Goto(c, IF Exists(c) THEN "done" ELSE "failed")
    /\ UNCHANGED <<power, folders, clones>>

-----------------------------------------------------------------------------
(* _delete_saved_app: VmNotFound is skipped, the clone is powered off first. *)
FindSaved(c) ==
    /\ At(c, "find")
    /\ Goto(c, IF Exists(job[c].ask.save) THEN "delete" ELSE "empty")
    /\ UNCHANGED <<power, folders, clones>>

DeleteSaved(c) ==
    /\ At(c, "delete")
    /\ clones' = clones \ {job[c].ask.save}
    /\ Goto(c, IF Exists(job[c].ask.save) THEN "empty" ELSE "failed")
    /\ UNCHANGED <<power, folders>>

(* _delete_folders looks the folder up again: FolderNotFound is suppressed.  *)
(* It looks under the resource's VM Location.  Saves look under the app's:   *)
(* it is the same, as the resource must have one, and it replaces the app's. *)
FindFolder(c) ==
    /\ At(c, "empty")
    /\ Update(c, [job[c] EXCEPT !.ref = folder, !.pc = IF folder = 0 THEN "done" ELSE "check"])
    /\ UNCHANGED <<power, folders, clones>>

Result(c) == IF job[c].ask.do = "delete" THEN "done" ELSE "failed"

(* FolderHandler.destroy: FolderIsNotEmpty is suppressed.  A folder that is   *)
(* gone already makes the first log line raise; one that goes after it is    *)
(* as good as destroyed.                                                     *)
CheckEmpty(c) ==
    /\ At(c, "check")
    /\ \/ /\ folder = job[c].ref
          /\ Goto(c, IF clones = {} THEN "kill" ELSE Result(c))
       \/ /\ folder # job[c].ref
          /\ \E label \in {"failed", Result(c)} : Goto(c, label)
    /\ UNCHANGED <<power, folders, clones>>

KillFolder(c) ==
    LET alive == folder = job[c].ref IN
    /\ At(c, "kill")
    /\ folder' = IF alive THEN 0 ELSE folder
    /\ clones' = IF alive THEN {} ELSE clones
    /\ Goto(c, Result(c))
    /\ UNCHANGED <<power, made>>

Working(c) ==
    \/ Raise(c)
    \/ PrepareFolder(c)
    \/ ReadPower(c)
    \/ PowerOff(c)
    \/ Clone(c)
    \/ CloneFails(c)
    \/ Finish(c)
    \/ RestorePower(c)
    \/ PrepareResult(c)
    \/ FindSaved(c)
    \/ DeleteSaved(c)
    \/ FindFolder(c)
    \/ CheckEmpty(c)
    \/ KillFolder(c)

Next == \E c \in Cmds : Begin(c) \/ Working(c)
Fairness == \A c \in Cmds : WF_vars(Working(c))
Spec == Init /\ [][Next]_vars /\ Fairness

-----------------------------------------------------------------------------
\* With "Power Off" during save, a save that succeeds leaves its VM powered as
\* it was when the save began, unless another save of the VM was at work
\* (save_restore_app.py:270-280).
PowerRestored ==
    [][\A c \in Cmds :
           At(c, "result") /\ job'[c].pc = "done" /\ ~job[c].shared
               => power'[job[c].ask.vm] = job[c].on]_vars

\* A folder without a saved app does not stay: whichever of several deletions
\* and failing clones comes last removes it. Only an exception somewhere else
\* leaves it behind (save_restore_app.py:254-268, clone_vm.py:58-61).
NoEmptyFolderLeft ==
    (\A c \in Cmds : ~Active(c) /\ ~job[c].raised) => folder = 0 \/ clones # {}
=============================================================================
