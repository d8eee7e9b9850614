----------------------------- MODULE Deployment -----------------------------
(***************************************************************************)
(* flows/deploy_vm and flows/delete_instance.py: the life of the VMs of    *)
(* apps, of the sandbox folder they share and of their customization       *)
(* specs.                                                                  *)
(*                                                                         *)
(* Every app is deployed once and deleted after that, by threads of one or *)
(* more driver processes; each process has a lock around the creation of   *)
(* folders (FolderHandler.FOLDER_LOCK) and another around their deletion   *)
(* (folder_delete_lock).  vCenter's inventory and the library's rollback   *)
(* manager are external: every command registered is rolled back, in any   *)
(* order, and an exception in one rollback does not stop the others.       *)
(*                                                                         *)
(* Faults tells which calls of an app's commands may raise; a command that *)
(* is cancelled raises at the end of the step it is in ("cancel").         *)
(***************************************************************************)
EXTENDS Naturals, FiniteSets

CONSTANTS Apps, Procs, Sandboxes, Names,
          ProcOf, SandboxOf,
          NameOf,      \* VM name of an app, and the name of its spec
          Image,       \* apps deployed from an image, the others are cloned
          WithSpec,    \* apps that have customization parameters
          Faults,      \* assignments of calls to apps; the initial state has one
          Nobody

Calls == {"validate", "tags", "template", "spec", "snapshot", "clone",
          "reconfigure", "lookup", "details", "power", "cancel"}

ASSUME DeploymentAssumption ==
    /\ ProcOf \in [Apps -> Procs]
    /\ SandboxOf \in [Apps -> Sandboxes]
    /\ NameOf \in [Apps -> Names]
    /\ Image \subseteq Apps /\ WithSpec \subseteq Apps \ Image
    /\ Faults \subseteq [Apps -> SUBSET Calls]
    /\ Nobody \notin Apps

VARIABLES
    folder,     \* vCenter: incarnation of the sandbox folder, 0 if there is none
    made,       \* vCenter: incarnations so far
    home,       \* vCenter: incarnation of the folder a VM is in, 0 if no VM
    specs,      \* vCenter: names of customization specs
    folderLock, deleteLock,
    cmd         \* per app: locals of the command that handles it

vars == <<folder, made, home, specs, folderLock, deleteLock, cmd>>
folders == <<folder, made>>
locksHeld == <<folderLock, deleteLock>>

(* A command's locals: pc; faults, the calls that may raise; ref, the       *)
(* folder's incarnation behind the handle; target, the one being destroyed, *)
(* and where destroy returns to (then); undo, the commands to roll back;    *)
(* cloned, whether _cloned_vm or _deployed_vm is set; raised, whether an    *)
(* exception is on its way out of delete().                                *)
Init ==
    /\ folder = [s \in Sandboxes |-> 0]
    /\ made = [s \in Sandboxes |-> 0]
    /\ home = [a \in Apps |-> 0]
    /\ specs = {}
    /\ folderLock = [p \in Procs |-> Nobody]
    /\ deleteLock = [p \in Procs |-> Nobody]
    /\ \E faults \in Faults :
          cmd = [a \in Apps |->
                 [pc |-> "new", faults |-> faults[a], ref |-> 0, target |-> 0, then |-> "undo",
                  undo |-> {}, cloned |-> FALSE, raised |-> FALSE]]

At(a, label) == cmd[a].pc = label
Update(a, c) == cmd' = [cmd EXCEPT ![a] = c]
Goto(a, label) == Update(a, [cmd[a] EXCEPT !.pc = label])
MayRaise(a, call) == call \in cmd[a].faults

(* Task.wait: a task fails by itself, or because it is cancelled when it    *)
(* reports its progress.                                                   *)
TaskMayFail(a, call) == MayRaise(a, call) \/ MayRaise(a, "cancel")

Folder(a) == folder[SandboxOf[a]]       \* as found by its path
IsExists(a, incarnation) == Folder(a) = incarnation
IsEmpty(s) == \A b \in Apps : SandboxOf[b] = s => home[b] # folder[s]

(* Continue at a label, or have the exit of `with cancellation_manager` raise. *)
UnlessCancelled(a, c, label) ==
    \/ Update(a, [c EXCEPT !.pc = label])
    \/ MayRaise(a, "cancel") /\ Update(a, [c EXCEPT !.pc = "undo"])

(* Start FolderHandler.destroy and return to a label. *)
DestroyFolder(a, c, target, label) ==
    Update(a, [c EXCEPT !.pc = "check", !.target = target, !.then = label])

-----------------------------------------------------------------------------
(* Deploy: validation has no effects; then the rollback manager is entered. *)
Begin(a) ==
    /\ At(a, "new")
    /\ \/ Update(a, [cmd[a] EXCEPT !.pc = "getfolder", !.undo = {"folder"}])
       \/ MayRaise(a, "validate") /\ Goto(a, "refused")
    /\ UNCHANGED <<folders, home, specs, locksHeld>>

(* get_or_create_child of the last name of the path: `with FOLDER_LOCK`.    *)
(* The folders above it are never removed.                                 *)
LockFolders(a) ==
    /\ At(a, "getfolder")
    /\ folderLock[ProcOf[a]] = Nobody
    /\ folderLock' = [folderLock EXCEPT ![ProcOf[a]] = a]
    /\ Goto(a, "find")
    /\ UNCHANGED <<folders, home, specs, deleteLock>>

UnlockFolders(a) == folderLock' = [folderLock EXCEPT ![ProcOf[a]] = Nobody]

HaveFolder(a, incarnation) ==
    /\ Update(a, [cmd[a] EXCEPT !.pc = "tagfolder", !.ref = incarnation])
    /\ UnlockFolders(a)

FindFolder(a) ==
    /\ At(a, "find")
    /\ IF Folder(a) # 0 THEN HaveFolder(a, Folder(a))
       ELSE Goto(a, "mkdir") /\ UNCHANGED folderLock
    /\ UNCHANGED <<folders, home, specs, deleteLock>>

(* Fault: DuplicateName is not caught. *)
MakeFolderOrRaise(a) ==
    LET s == SandboxOf[a] IN
    /\ At(a, "mkdir")
    /\ IF folder[s] = 0
       THEN /\ made' = [made EXCEPT ![s] = @ + 1]
            /\ folder' = [folder EXCEPT ![s] = made[s] + 1]
            /\ HaveFolder(a, made[s] + 1)
       ELSE Goto(a, "undo") /\ UnlockFolders(a) /\ UNCHANGED folders
    /\ UNCHANGED <<home, specs, deleteLock>>

(* CreateFolder, or DuplicateName if another process was faster. *)
MakeFolder(a) ==
    LET s == SandboxOf[a] IN
    /\ At(a, "mkdir")
    /\ IF folder[s] = 0
       THEN /\ made' = [made EXCEPT ![s] = @ + 1]
            /\ folder' = [folder EXCEPT ![s] = made[s] + 1]
            /\ HaveFolder(a, made[s] + 1)
       ELSE Goto(a, "refind") /\ UNCHANGED <<folders, folderLock>>
    /\ UNCHANGED <<home, specs, deleteLock>>

(* The other's folder may be gone again: FolderNotFound. *)
FindAgain(a) ==
    /\ At(a, "refind")
    /\ IF Folder(a) # 0 THEN HaveFolder(a, Folder(a))
       ELSE Goto(a, "undo") /\ UnlockFolders(a)
    /\ UNCHANGED <<folders, home, specs, deleteLock>>

(* CreateVmFolder: a folder that cannot be tagged is destroyed if empty. *)
TagFolder(a) ==
    /\ At(a, "tagfolder")
    /\ \/ UnlessCancelled(a, cmd[a], IF a \in Image THEN "clone" ELSE "spec")
       \/ MayRaise(a, "tags") /\ DestroyFolder(a, cmd[a], cmd[a].ref, "undo")
    /\ UNCHANGED <<folders, home, specs, locksHeld>>

(* Getting the template, and CreateVmCustomSpec: the spec is duplicated or  *)
(* created under the VM's name, which raises if the name is taken.         *)
PrepareSpec(a) ==
    LET c == [cmd[a] EXCEPT !.undo = @ \cup {"spec"}]
        n == NameOf[a]
    IN
    /\ At(a, "spec")
    /\ \/ {"template", "cancel"} \cap cmd[a].faults # {} /\ Goto(a, "undo") /\ UNCHANGED specs
       \/ MayRaise(a, "spec") /\ Update(a, [c EXCEPT !.pc = "undo"])
              /\ specs' \in {specs, IF a \in WithSpec THEN specs \cup {n} ELSE specs}
       \/ IF a \in WithSpec /\ n \in specs
          THEN Update(a, [c EXCEPT !.pc = "undo"]) /\ UNCHANGED specs
          ELSE /\ UnlessCancelled(a, c, "clone")
               /\ specs' = IF a \in WithSpec THEN specs \cup {n} ELSE specs
    /\ UNCHANGED <<folders, home, locksHeld>>

(* Clone into the folder behind the handle; ovftool goes by the path.  The  *)
(* clone that fails destroys the folder if it is empty.                    *)
CloneFails(a) ==
    LET c == [cmd[a] EXCEPT !.undo = @ \cup {"clone"}] IN
    /\ At(a, "clone")
    /\ \/ TaskMayFail(a, "clone")
       \/ Folder(a) = 0
       \/ a \notin Image /\ Folder(a) # c.ref
    /\ IF a \in Image THEN Update(a, [c EXCEPT !.pc = "undo"])
       ELSE DestroyFolder(a, c, c.ref, "undo")
    /\ UNCHANGED <<folders, home, specs, locksHeld>>

NoSnapshot(a) ==
    /\ At(a, "clone")
    /\ a \notin Image
    /\ {"snapshot", "cancel"} \cap cmd[a].faults # {}
    /\ Goto(a, "undo")
    /\ UNCHANGED <<folders, home, specs, locksHeld>>

CloneVm(a) ==
    /\ At(a, "clone")
    /\ Folder(a) # 0
    /\ a \in Image \/ Folder(a) = cmd[a].ref
    /\ home' = [home EXCEPT ![a] = Folder(a)]
    /\ Update(a, [cmd[a] EXCEPT !.pc = IF a \in Image THEN "locate" ELSE "reconfigure",
                                !.undo = @ \cup {"clone"}])
    /\ UNCHANGED <<folders, specs, locksHeld>>

(* Fault: the clone that could not be reconfigured is left to the rollback. *)
ReconfigureKeepsVm(a) ==
    /\ At(a, "reconfigure")
    /\ \/ /\ home[a] # 0
          /\ UnlessCancelled(a, [cmd[a] EXCEPT !.cloned = TRUE], "tagvm")
       \/ /\ TaskMayFail(a, "reconfigure") \/ home[a] = 0
          /\ DestroyFolder(a, cmd[a], cmd[a].ref, "undo")
    /\ UNCHANGED <<folders, home, specs, locksHeld>>

(* clone_vm reconfigures the clone, or deletes it again. *)
Reconfigure(a) ==
    /\ At(a, "reconfigure")
    /\ \/ /\ home[a] # 0
          /\ UnlessCancelled(a, [cmd[a] EXCEPT !.cloned = TRUE], "tagvm")
       \/ /\ TaskMayFail(a, "reconfigure") \/ home[a] = 0
          /\ Goto(a, "unclone")
    /\ UNCHANGED <<folders, home, specs, locksHeld>>

(* get_vm_by_path after ovftool. *)
Locate(a) ==
    /\ At(a, "locate")
    /\ \/ /\ home[a] # 0
          /\ UnlessCancelled(a, [cmd[a] EXCEPT !.cloned = TRUE], "tagvm")
       \/ /\ MayRaise(a, "lookup") \/ home[a] = 0
          /\ Goto(a, "undo")
    /\ UNCHANGED <<folders, home, specs, locksHeld>>

(* _add_tags: a VM that cannot be tagged is deleted, then its folder. *)
TagVm(a) ==
    /\ At(a, "tagvm")
    /\ Goto(a, "details") \/ (MayRaise(a, "tags") /\ Goto(a, "unclone"))
    /\ UNCHANGED <<folders, home, specs, locksHeld>>

(* VmHandler.delete, wherever the VM is. *)
DeleteVm(a) == home' = [home EXCEPT ![a] = 0]

(* vm.delete() of a VM that is gone raises (its name is logged): _add_tags  *)
(* then skips the folder, CloneVMCommand does not.                         *)
Unclone(a) ==
    /\ At(a, "unclone")
    /\ DeleteVm(a)
    /\ IF home[a] = 0 /\ cmd[a].cloned THEN Goto(a, "undo")
       ELSE DestroyFolder(a, cmd[a], cmd[a].ref, "undo")
    /\ UNCHANGED <<folders, specs, locksHeld>>

(* _prepare_deploy_app_result, after the rollback manager has been left. *)
Details(a) ==
    /\ At(a, "details")
    /\ \/ home[a] # 0 /\ Goto(a, "deployed")
       \/ (MayRaise(a, "details") \/ home[a] = 0) /\ Goto(a, "failed")
    /\ UNCHANGED <<folders, home, specs, locksHeld>>

-----------------------------------------------------------------------------
(* The rollback of the commands that have been registered. *)

Undone(a, which) == [cmd[a] EXCEPT !.undo = @ \ {which}]

(* Fault: the folder is left behind. *)
UndoFolderKept(a) ==
    /\ At(a, "undo")
    /\ "folder" \in cmd[a].undo
    /\ Update(a, Undone(a, "folder"))
    /\ UNCHANGED <<folders, home, specs, locksHeld>>

(* CreateVmFolder looks the folder up by its path. *)
UndoFolder(a) ==
    /\ At(a, "undo")
    /\ "folder" \in cmd[a].undo
    /\ IF Folder(a) = 0 THEN Update(a, Undone(a, "folder"))
       ELSE DestroyFolder(a, Undone(a, "folder"), Folder(a), "undo")
    /\ UNCHANGED <<folders, home, specs, locksHeld>>

(* CreateVmCustomSpec deletes by name, whoever created it. *)
UndoSpec(a) ==
    /\ At(a, "undo")
    /\ "spec" \in cmd[a].undo
    /\ specs' = specs \ {NameOf[a]}
    /\ Update(a, Undone(a, "spec"))
    /\ UNCHANGED <<folders, home, locksHeld>>

(* CloneVMCommand deletes the VM and the folder; deleting a VM that is gone *)
(* raises.                                                                 *)
UndoClone(a) ==
    LET c == Undone(a, "clone") IN
    /\ At(a, "undo")
    /\ a \notin Image /\ "clone" \in cmd[a].undo
    /\ IF cmd[a].cloned THEN DeleteVm(a) ELSE UNCHANGED home
    /\ IF cmd[a].cloned /\ home[a] = 0 THEN Update(a, c)
       ELSE DestroyFolder(a, c, c.ref, "undo")
    /\ UNCHANGED <<folders, specs, locksHeld>>

(* DeployVMFromImageCommand deletes the VM if it has been found. *)
UndoImage(a) ==
    /\ At(a, "undo")
    /\ a \in Image /\ "clone" \in cmd[a].undo
    /\ IF cmd[a].cloned THEN DeleteVm(a) ELSE UNCHANGED home
    /\ Update(a, Undone(a, "clone"))
    /\ UNCHANGED <<folders, specs, locksHeld>>

RolledBack(a) ==
    /\ At(a, "undo")
    /\ cmd[a].undo = {}
    /\ Goto(a, "failed")
    /\ UNCHANGED <<folders, home, specs, locksHeld>>

-----------------------------------------------------------------------------
(* FolderHandler.destroy with wait = 0: first the look inside; the name of  *)
(* a folder that is gone cannot be logged, which raises.                   *)
CheckEmpty(a) ==
    LET c == cmd[a]  s == SandboxOf[a] IN
    /\ At(a, "check")
    /\ IF folder[s] # c.target
       THEN Update(a, [c EXCEPT !.pc = c.then, !.raised = TRUE])
       ELSE Goto(a, IF IsEmpty(s) THEN "kill" ELSE c.then)
    /\ UNCHANGED <<folders, home, specs, locksHeld>>

(* Then Destroy_Task, which takes everything inside along. *)
KillFolder(a) ==
    LET s == SandboxOf[a]  alive == folder[s] = cmd[a].target IN
    /\ At(a, "kill")
    /\ folder' = IF alive THEN [folder EXCEPT ![s] = 0] ELSE folder
    /\ home' = [b \in Apps |-> IF alive /\ SandboxOf[b] = s /\ home[b] = folder[s]
                               THEN 0 ELSE home[b]]
    /\ Goto(a, cmd[a].then)
    /\ UNCHANGED <<made, specs, locksHeld>>

-----------------------------------------------------------------------------
(* Delete: with the VM missing there is nothing to do. *)
Delete(a) ==
    /\ At(a, "deployed")
    /\ IF home[a] = 0 THEN Goto(a, "deleted")
       ELSE Update(a, [cmd[a] EXCEPT !.pc = "dropspec", !.target = home[a],
                                     !.raised = FALSE])
    /\ UNCHANGED <<folders, home, specs, locksHeld>>

Raise(a, label) == Update(a, [cmd[a] EXCEPT !.pc = label, !.raised = TRUE])

(* Fault: without `finally` the VM stays when its spec cannot be deleted. *)
DropSpecStops(a) ==
    /\ At(a, "dropspec")
    /\ \/ /\ home[a] # 0
          /\ specs' = specs \ {NameOf[a]}
          /\ Goto(a, "gettags")
       \/ /\ MayRaise(a, "spec") \/ home[a] = 0
          /\ Raise(a, "delete_failed") /\ UNCHANGED specs
    /\ UNCHANGED <<folders, home, locksHeld>>

(* delete_customization_spec(vm.name); `finally` goes on to the VM. *)
DropSpec(a) ==
    /\ At(a, "dropspec")
    /\ \/ /\ home[a] # 0
          /\ specs' = specs \ {NameOf[a]}
          /\ Goto(a, "gettags")
       \/ /\ MayRaise(a, "spec") \/ home[a] = 0
          /\ Raise(a, "remove") /\ UNCHANGED specs
    /\ UNCHANGED <<folders, home, locksHeld>>

GetTags(a) ==
    /\ At(a, "gettags")
    /\ Goto(a, "remove") \/ (MayRaise(a, "tags") /\ Raise(a, "remove"))
    /\ UNCHANGED <<folders, home, specs, locksHeld>>

(* power_off and delete.  After an exception `folder` has not been assigned *)
(* in delete(), so the folder is not looked at.                            *)
RemoveVm(a) ==
    LET c == cmd[a] IN
    /\ At(a, "remove")
    /\ \/ /\ home[a] # 0
          /\ DeleteVm(a)
          /\ Goto(a, IF c.raised THEN "delete_failed" ELSE "lockfolder")
       \/ /\ MayRaise(a, "power") \/ home[a] = 0
          /\ Raise(a, "delete_failed") /\ UNCHANGED home
    /\ UNCHANGED <<folders, specs, locksHeld>>

(* _delete_folder: `with folder_delete_lock`. *)
LockDeletion(a) ==
    /\ At(a, "lockfolder")
    /\ deleteLock[ProcOf[a]] = Nobody
    /\ deleteLock' = [deleteLock EXCEPT ![ProcOf[a]] = a]
    /\ Goto(a, "exists")
    /\ UNCHANGED <<folders, home, specs, folderLock>>

(* is_exists(), then its tags, and in any case destroy(). *)
FolderExists(a) ==
    LET c == cmd[a] IN
    /\ At(a, "exists")
    /\ IF ~IsExists(a, c.target) THEN Goto(a, "unlock")
       ELSE \/ DestroyFolder(a, c, c.target, "unlock")
            \/ /\ MayRaise(a, "tags")
               /\ DestroyFolder(a, [c EXCEPT !.raised = TRUE], c.target, "unlock")
    /\ UNCHANGED <<folders, home, specs, locksHeld>>

(* Fault: an exception leaves folder_delete_lock taken. *)
UnlockDeletionUnlessRaised(a) ==
    /\ At(a, "unlock")
    /\ deleteLock' = IF cmd[a].raised THEN deleteLock
                     ELSE [deleteLock EXCEPT ![ProcOf[a]] = Nobody]
    /\ Goto(a, IF cmd[a].raised THEN "delete_failed" ELSE "deleted")
    /\ UNCHANGED <<folders, home, specs, folderLock>>

UnlockDeletion(a) ==
    /\ At(a, "unlock")
    /\ deleteLock' = [deleteLock EXCEPT ![ProcOf[a]] = Nobody]
    /\ Goto(a, IF cmd[a].raised THEN "delete_failed" ELSE "deleted")
    /\ UNCHANGED <<folders, home, specs, folderLock>>

-----------------------------------------------------------------------------
(* What the thread that handles an app does next. *)
Deploying(a) ==
    \/ LockFolders(a) \/ FindFolder(a) \/ MakeFolder(a) \/ FindAgain(a)
    \/ TagFolder(a) \/ PrepareSpec(a) \/ CloneFails(a) \/ NoSnapshot(a) \/ CloneVm(a)
    \/ Reconfigure(a) \/ Locate(a) \/ TagVm(a) \/ Unclone(a) \/ Details(a)

RollingBack(a) == UndoFolder(a) \/ UndoSpec(a) \/ UndoClone(a) \/ UndoImage(a) \/ RolledBack(a)

Deleting(a) ==
    \/ DropSpec(a) \/ GetTags(a) \/ RemoveVm(a)
    \/ LockDeletion(a) \/ FolderExists(a) \/ UnlockDeletion(a)

Working(a) ==
    Deploying(a) \/ RollingBack(a) \/ Deleting(a) \/ CheckEmpty(a) \/ KillFolder(a)

Next == \E a \in Apps : Begin(a) \/ Delete(a) \/ Working(a)

(* A command runs on.  Every app takes each lock at most once, so a lock    *)
(* that is handed out in no particular order still reaches everyone.       *)
Fairness == \A a \in Apps : WF_vars(Working(a))

Spec == Init /\ [][Next]_vars /\ Fairness

-----------------------------------------------------------------------------
(* What some of the properties below assume of the constants.  Generated   *)
(* names are unique.  The lookup after ovftool has no rollback.  A VM that  *)
(* cannot be powered off cannot be removed.                                *)
UniqueNames == \A a, b \in Apps : NameOf[a] = NameOf[b] => a = b
LookupSucceeds == \A faults \in Faults, a \in Image : "lookup" \notin faults[a]
PowerOffSucceeds == \A faults \in Faults, a \in Apps : "power" \notin faults[a]

(* A deploy that was rolled back leaves neither its VM nor its spec behind, *)
(* whichever call raised and whatever the other commands do meanwhile: the  *)
(* rollback() of the commands and the clean-up in clone_vm and _add_tags    *)
(* (names are unique, as generated ones are).                              *)
FailedDeployLeavesNothing ==
    \A a \in Apps :
        At(a, "failed") /\ cmd[a].undo = {} => home[a] = 0 /\ NameOf[a] \notin specs

AtRest(a) == cmd[a].pc \in {"new", "refused", "failed", "deployed", "deleted"}

(* Once every command is over and no deletion has failed, a folder that is  *)
(* left has a VM in it: the last one to leave removes the folder, though   *)
(* the deploys and deletions that share it hold no common lock (destroy()  *)
(* in every rollback and in _delete_folder).  The command for images leaves *)
(* the folder to another rollback, which may have come first.              *)
NoEmptyFolder ==
    /\ \A a \in Apps : AtRest(a)
    /\ \A a \in Image : ~At(a, "failed")
    => \A s \in Sandboxes : folder[s] # 0 => ~IsEmpty(s)

(* A deletion that is over has removed the VM even if it has failed to      *)
(* delete the spec or to read the tags (the nested finally of _delete_vm).  *)
DeleteRemovesVm ==
    \A a \in Apps : cmd[a].pc \in {"deleted", "delete_failed"} => home[a] = 0

(* Where no call may raise and nothing has been deleted yet, no deploy fails*)
(* because another one creates the same folder (DuplicateName is caught in  *)
(* get_or_create_child).                                                   *)
ConcurrentDeploysSucceed ==
    (\A a \in Apps : cmd[a].faults = {} /\ cmd[a].target = 0)
        => \A a \in Apps : cmd[a].pc \notin {"undo", "failed"}

(* What FolderIsNotEmpty says of destroy(): "... is not empty, cannot       *)
(* delete it", so no VM goes with a folder.                                *)
NonEmptyFolderKept ==
    [][\A a \in Apps : KillFolder(a) => \A b \in Apps : home'[b] = home[b]]_vars

(* There comes a time when no command is at work any more (every app is     *)
(* deployed and deleted once): FOLDER_LOCK and folder_delete_lock are       *)
(* released on every path, whatever raises.                                *)
CommandsEnd == <>[](\A a \in Apps : AtRest(a) \/ At(a, "delete_failed"))
=============================================================================
