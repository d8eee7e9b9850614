--------------------------- MODULE DeploymentProofs ---------------------------
(***************************************************************************)
(* Proofs about Deployment, for any apps, processes and sandboxes and for  *)
(* any calls that raise.                                                   *)
(*                                                                         *)
(* Sound says of one command what it has registered for its rollback and   *)
(* where its VM can be at each step; SpecsOwned, that every spec has a     *)
(* command that will delete it; Watched, that an empty folder has a command*)
(* that still has to look at it, or one that has given it up.              *)
(***************************************************************************)
EXTENDS Deployment, TLAPS

Fetching == {"getfolder", "find", "mkdir", "refind"}
Preparing == {"tagfolder", "spec", "clone"}
Cloned == {"reconfigure", "locate", "unclone", "tagvm", "details"}
Destroying == {"check", "kill"}
Removing == {"dropspec", "gettags", "remove"}
Removed == {"lockfolder", "exists", "unlock", "deleted"}
Labels == {"new", "refused", "undo", "failed", "deployed", "delete_failed"}
              \cup Fetching \cup Preparing \cup Cloned \cup Destroying \cup Removing \cup Removed

Command ==
    [pc : Labels, faults : SUBSET Calls, ref : Nat, target : Nat, then : {"undo", "unlock"},
     undo : SUBSET {"folder", "spec", "clone"}, cloned : BOOLEAN, raised : BOOLEAN]

Types ==
    /\ folder \in [Sandboxes -> Nat]
    /\ made \in [Sandboxes -> Nat]
    /\ home \in [Apps -> Nat]
    /\ specs \subseteq Names
    /\ cmd \in [Apps -> Command]

(* The lookup after ovftool may fail, and then the VM is lost.             *)
Lost(a, c) == a \in Image /\ "lookup" \in c.faults

Returning(c) == c.pc \in Destroying /\ c.then = "undo"

(* What a command c that handles a has to undo, by where it is ...         *)
Registered(a, c) ==
    /\ c.pc \in {"new", "refused"} => c.undo = {}
    /\ c.pc \in Fetching \cup {"tagfolder", "spec"} => c.undo = {"folder"}
    /\ c.pc = "clone" => c.undo \subseteq {"folder", "spec"}
    /\ c.pc \in {"clone"} \cup Cloned => "folder" \in c.undo
    /\ c.pc \in Cloned => "clone" \in c.undo
    /\ c.pc \in Preparing \/ "clone" \in c.undo => c.ref # 0
    /\ c.pc = "locate" => a \in Image

(* ... and where its VM is.                                                *)
Located(a, c) ==
    /\ c.pc \in {"new", "refused"} \cup Fetching \cup Preparing => home[a] = 0
    /\ home[a] # 0 => home[a] = Folder(a) /\ (a \notin Image => home[a] = c.ref)
    /\ home[a] # 0 /\ ~Lost(a, c) =>
           "clone" \in c.undo /\ (c.cloned \/ c.pc \in {"reconfigure", "locate", "unclone"})
    /\ c.pc \in Removing => home[a] \in {0, c.target}
    /\ c.pc \in Removed \/ (c.pc \in Destroying /\ c.then = "unlock") => home[a] = 0
    /\ c.pc = "delete_failed" => home[a] = 0 \/ "power" \in c.faults

Sound(a, c) == Registered(a, c) /\ Located(a, c)

SpecsOwned ==
    \A n \in specs : \E a \in Apps : NameOf[a] = n /\ "spec" \in cmd[a].undo

FaultsGiven == \E faults \in Faults : \A a \in Apps : cmd[a].faults = faults[a]

(* a's command will look into the folder as it is now (found by its path,   *)
(* or by the handle the command has), or it has failed without doing so.    *)
Responsible(a, c) ==
    \/ /\ "folder" \in c.undo
       /\ c.pc \in Fetching \cup Preparing \cup {"reconfigure", "locate", "unclone", "undo"}
             \/ Returning(c)
    \/ c.target = Folder(a) /\ c.pc \in {"lockfolder", "exists"} \cup Destroying
    \/ c.pc = "delete_failed"
    \/ a \in Image /\ (c.pc \in {"undo", "failed"} \/ Returning(c))

Watched ==
    \A s \in Sandboxes : folder[s] # 0 /\ IsEmpty(s) =>
        \E a \in Apps : SandboxOf[a] = s /\ Responsible(a, cmd[a])

IInv ==
    /\ Types
    /\ \A a \in Apps : Sound(a, cmd[a])
    /\ SpecsOwned
    /\ FaultsGiven
    /\ Watched

(* While nothing raises and nothing is destroyed, every deploy goes well.   *)
Calm == \A a \in Apps : cmd[a].faults = {} /\ cmd[a].target = 0

Going(a, c) ==
    /\ c.pc \in {"new", "deployed"} \cup Fetching \cup Preparing \cup (Cloned \ {"unclone"})
    /\ c.pc = "refind" => Folder(a) # 0
    /\ c.pc \in Preparing => Folder(a) = c.ref
    /\ c.pc \in Cloned \cup {"deployed"} => home[a] # 0

Smooth == Calm => \A a \in Apps : Going(a, cmd[a])

-----------------------------------------------------------------------------
LEMMA Constants == \A a \in Apps : SandboxOf[a] \in Sandboxes /\ NameOf[a] \in Names
BY DeploymentAssumption

LEMMA InitInv == Init => IInv
<1> SUFFICES ASSUME Init PROVE IInv
  OBVIOUS
<1>1. PICK faults \in Faults : cmd = [a \in Apps |->
          [pc |-> "new", faults |-> faults[a], ref |-> 0, target |-> 0, then |-> "undo",
           undo |-> {}, cloned |-> FALSE, raised |-> FALSE]]
  BY DEF Init
<1>2. faults \in [Apps -> SUBSET Calls]
  BY DeploymentAssumption
<1>3. ASSUME NEW a \in Apps
      PROVE  /\ cmd[a] \in Command /\ cmd[a].pc = "new" /\ cmd[a].undo = {}
             /\ cmd[a].faults = faults[a]
  <2>1. cmd[a] = [pc |-> "new", faults |-> faults[a], ref |-> 0, target |-> 0,
                  then |-> "undo", undo |-> {}, cloned |-> FALSE, raised |-> FALSE]
    BY <1>1
  <2>2. faults[a] \in SUBSET Calls
    BY <1>2
  <2> QED BY <2>1, <2>2 DEF Command, Labels
<1>4. Types
  BY <1>1, <1>3 DEF Init, Types
<1>5. \A a \in Apps : Sound(a, cmd[a])
  BY <1>3 DEF Init, Sound, Registered, Located, Fetching, Preparing, Cloned, Removing, Removed,
              Destroying
<1>6. SpecsOwned /\ FaultsGiven
  BY <1>3 DEF Init, SpecsOwned, FaultsGiven
<1>7. Watched
  BY DEF Init, Watched
<1> QED BY <1>4, <1>5, <1>6, <1>7 DEF IInv

(* What a step changes of its command, and that it leaves the others alone. *)
LEMMA OwnStep ==
    ASSUME IInv, NEW a \in Apps, NEW j \in Command, Update(a, j), j.faults = cmd[a].faults
    PROVE  /\ cmd' \in [Apps -> Command] /\ cmd'[a] = j
           /\ \A b \in Apps \ {a} : cmd'[b] = cmd[b]
           /\ FaultsGiven'
<1>1. /\ cmd' \in [Apps -> Command] /\ cmd'[a] = j
      /\ \A b \in Apps \ {a} : cmd'[b] = cmd[b]
  BY DEF IInv, Types, Update
<1>2. \A b \in Apps : cmd'[b].faults = cmd[b].faults
  BY <1>1
<1>3. FaultsGiven'
  BY <1>2 DEF IInv, FaultsGiven
<1> QED BY <1>1, <1>3

(* Another command is as sound as it was when its VM and folder are.       *)
LEMMA OtherSound ==
    ASSUME IInv, NEW b \in Apps, cmd'[b] = cmd[b], home'[b] = home[b],
           folder'[SandboxOf[b]] = folder[SandboxOf[b]] \/ home[b] = 0
    PROVE  Sound(b, cmd[b])'
<1>1. Sound(b, cmd[b])
  BY DEF IInv
<1> QED BY <1>1 DEF Sound, Registered, Located, Folder, Lost

(* The steps of a that leave the folders alone, and all VMs but a's own.    *)
LEMMA AloneStep ==
    ASSUME IInv, NEW a \in Apps, NEW j \in Command, Update(a, j), j.faults = cmd[a].faults,
           UNCHANGED folders, home' \in [Apps -> Nat],
           \A b \in Apps \ {a} : home'[b] = home[b],
           Sound(a, j)', specs' \subseteq Names, SpecsOwned',
           (/\ Folder(a) # 0 /\ home'[a] # Folder(a)
            /\ home[a] = Folder(a) \/ (IsEmpty(SandboxOf[a]) /\ Responsible(a, cmd[a])))
               => Responsible(a, j)
    PROVE  IInv'
<1>1. /\ cmd' \in [Apps -> Command] /\ cmd'[a] = j
      /\ \A b \in Apps \ {a} : cmd'[b] = cmd[b]
      /\ FaultsGiven'
  BY OwnStep
<1>2. Types'
  BY <1>1 DEF IInv, Types, folders
<1>3. ASSUME NEW b \in Apps PROVE Sound(b, cmd[b])'
  <2>1. CASE b = a
    BY <1>1, <2>1 DEF Sound, Registered, Located, Lost
  <2>2. CASE b # a
    BY <1>1, <2>2, OtherSound DEF folders
  <2> QED BY <2>1, <2>2
<1>4. ASSUME NEW s \in Sandboxes, folder'[s] # 0, IsEmpty(s)'
      PROVE  \E b \in Apps : SandboxOf[b] = s /\ Responsible(b, cmd[b])'
  <2>1. folder' = folder
    BY DEF folders
  <2>2. \A b \in Apps : SandboxOf[b] = s => home'[b] # folder[s]
    BY <1>4, <2>1 DEF IsEmpty
  <2>3. \A b \in Apps \ {a} : Responsible(b, cmd[b]) => Responsible(b, cmd[b])'
    BY <1>1, <2>1 DEF Responsible, Folder, Returning
  <2>4. Responsible(a, j) => Responsible(a, cmd[a])'
    BY <1>1, <2>1 DEF Responsible, Folder, Returning
  <2>5. CASE SandboxOf[a] = s /\ home[a] = folder[s]
    <3>1. Responsible(a, j)
      BY <1>4, <2>1, <2>2, <2>5 DEF Folder
    <3> QED BY <2>4, <2>5, <3>1
  <2>6. CASE ~(SandboxOf[a] = s /\ home[a] = folder[s])
    <3>1. IsEmpty(s)
      BY <2>2, <2>6 DEF IsEmpty
    <3>2. PICK b \in Apps : SandboxOf[b] = s /\ Responsible(b, cmd[b])
      BY <1>4, <2>1, <3>1 DEF IInv, Watched
    <3>3. CASE b = a
      <4>1. Responsible(a, j)
        BY <1>4, <2>1, <2>2, <3>1, <3>2, <3>3 DEF Folder
      <4> QED BY <2>4, <3>2, <3>3, <4>1
    <3>4. CASE b # a
      BY <2>3, <3>2, <3>4
    <3> QED BY <3>3, <3>4
  <2> QED BY <2>5, <2>6
<1>5. Watched'
  BY <1>4 DEF Watched
<1> QED BY <1>1, <1>2, <1>3, <1>5 DEF IInv

(* Steps within one command.                                               *)
LEMMA LocalStep ==
    ASSUME IInv, NEW a \in Apps, NEW j \in Command, Update(a, j), j.faults = cmd[a].faults,
           UNCHANGED <<folders, home, specs>>, Sound(a, j),
           "spec" \in cmd[a].undo => "spec" \in j.undo,
           Folder(a) # 0 /\ IsEmpty(SandboxOf[a]) /\ Responsible(a, cmd[a]) => Responsible(a, j)
    PROVE  IInv'
<1>1. /\ cmd'[a] = j
      /\ \A b \in Apps \ {a} : cmd'[b] = cmd[b]
  BY OwnStep
<1>2. SpecsOwned'
  BY <1>1 DEF IInv, SpecsOwned
<1>3. Sound(a, j)'
  BY DEF Sound, Registered, Located, Folder, Lost, folders
<1>4. /\ UNCHANGED folders /\ home' \in [Apps -> Nat] /\ home' = home /\ specs' \subseteq Names
      /\ home[a] # Folder(a) \/ home'[a] = Folder(a)
  BY DEF IInv, Types
<1> QED BY <1>2, <1>3, <1>4, AloneStep

(* j is c, gone on to a label.                                             *)
Moved(c, j, label) ==
    /\ j \in Command
    /\ j.pc = label
    /\ j.faults = c.faults /\ j.ref = c.ref /\ j.target = c.target /\ j.then = c.then
    /\ j.undo = c.undo /\ j.cloned = c.cloned /\ j.raised = c.raised

LEMMA Moving ==
    ASSUME NEW c \in Command, NEW label \in Labels
    PROVE  Moved(c, [c EXCEPT !.pc = label], label)
BY DEF Moved, Command

LEMMA GotoStep ==
    ASSUME IInv, NEW a \in Apps, NEW label \in Labels, Goto(a, label),
           UNCHANGED <<folders, home, specs>>,
           \A j \in Command : Moved(cmd[a], j, label) =>
               /\ Sound(a, j)
               /\ Folder(a) # 0 /\ IsEmpty(SandboxOf[a]) /\ Responsible(a, cmd[a])
                      => Responsible(a, j)
    PROVE  IInv'
<1> DEFINE j == [cmd[a] EXCEPT !.pc = label]
<1>1. cmd[a] \in Command
  BY DEF IInv, Types
<1>2. Moved(cmd[a], j, label)
  BY <1>1, Moving
<1>3. Update(a, j)
  BY DEF Goto
<1> HIDE DEF j
<1>4. j \in Command /\ j.faults = cmd[a].faults /\ j.undo = cmd[a].undo
  BY <1>2 DEF Moved
<1> QED BY <1>2, <1>3, <1>4, LocalStep

(* A command goes on to look into a folder, with or without deleting its    *)
(* VM first.                                                               *)
LEMMA DestroyStep ==
    ASSUME IInv, NEW a \in Apps, NEW c \in Command, NEW target \in Nat,
           NEW label \in {"undo", "unlock"},
           DestroyFolder(a, c, target, label), UNCHANGED <<folders, specs>>,
           home' = home \/ DeleteVm(a),
           c.faults = cmd[a].faults, c.ref = cmd[a].ref, "clone" \in c.undo => c.ref # 0,
           "spec" \in cmd[a].undo => "spec" \in c.undo,
           home'[a] # 0 /\ ~Lost(a, c) => c.cloned /\ "clone" \in c.undo,
           label = "unlock" => home'[a] = 0,
           \/ target = Folder(a)
           \/ label = "undo" /\ "folder" \in c.undo
           \/ home[a] = 0 /\ ~Responsible(a, cmd[a])
    PROVE  IInv'
<1> DEFINE j == [c EXCEPT !.pc = "check", !.target = target, !.then = label]
<1>1. /\ j \in Command /\ j.pc = "check" /\ j.target = target /\ j.then = label
      /\ j.faults = c.faults /\ j.ref = c.ref /\ j.undo = c.undo /\ j.cloned = c.cloned
  BY DEF Command, Labels, Destroying
<1>2. Update(a, j)
  BY DEF DestroyFolder
<1> HIDE DEF j
<1>3. /\ home' \in [Apps -> Nat] /\ home'[a] \in {0, home[a]}
      /\ \A b \in Apps \ {a} : home'[b] = home[b]
  BY DEF IInv, Types, DeleteVm
<1>4. Sound(a, cmd[a])
  BY DEF IInv
<1>5. Sound(a, j)'
  BY <1>1, <1>3, <1>4 DEF Sound, Registered, Located, Lost, Fetching, Preparing, Cloned,
                          Removing, Removed, Destroying, Folder, folders
<1>6. SpecsOwned'
  <2>1. cmd'[a] = j /\ \A b \in Apps \ {a} : cmd'[b] = cmd[b]
    BY <1>1, <1>2, OwnStep
  <2> QED BY <1>1, <2>1 DEF IInv, SpecsOwned
<1>7. /\ Folder(a) # 0
      /\ home[a] = Folder(a) \/ Responsible(a, cmd[a])
      => Responsible(a, j)
  BY <1>1 DEF Responsible, Returning, Destroying
<1>8. UNCHANGED folders /\ specs' \subseteq Names
  BY DEF IInv, Types
<1> QED BY <1>1, <1>2, <1>3, <1>5, <1>6, <1>7, <1>8, AloneStep

-----------------------------------------------------------------------------
(* The actions, one by one.  What each needs to know of the command is what *)
(* the invariant says of it at its label.                                  *)

LEMMA CommandSound ==
    ASSUME IInv, NEW a \in Apps
    PROVE  /\ cmd[a] \in Command
           /\ Registered(a, cmd[a]) /\ Located(a, cmd[a])
           /\ home[a] \in Nat /\ Folder(a) \in Nat /\ made[SandboxOf[a]] \in Nat
BY Constants DEF IInv, Types, Sound, Folder

LEMMA DeployingInv == ASSUME IInv, NEW a \in Apps, Deploying(a) PROVE IInv'
<1> USE DEF Fetching, Preparing, Cloned, Destroying, Removing, Removed
<1> DEFINE c == cmd[a]
<1>0. /\ c \in Command /\ Registered(a, c) /\ Located(a, c)
      /\ home[a] \in Nat /\ Folder(a) \in Nat /\ made[SandboxOf[a]] \in Nat
  BY CommandSound
<1> HIDE DEF c
<1>1. CASE LockFolders(a)
  <2>1. /\ c.pc = "getfolder" /\ Goto(a, "find") /\ UNCHANGED <<folders, home, specs>>
    BY <1>1 DEF LockFolders, At, c
  <2>2. "find" \in Labels
    BY DEF Labels
  <2>3. ASSUME NEW j \in Command, Moved(c, j, "find")
        PROVE  Sound(a, j) /\ Responsible(a, j)
    BY <1>0, <2>1, <2>3 DEF Sound, Registered, Located, Lost, Responsible, Moved
  <2> QED BY <2>1, <2>2, <2>3, GotoStep DEF c
<1>2. ASSUME c.pc \in {"find", "refind"}, Folder(a) # 0, HaveFolder(a, Folder(a)),
             UNCHANGED <<folders, home, specs>>
      PROVE  IInv'
  <2> DEFINE j == [c EXCEPT !.pc = "tagfolder", !.ref = Folder(a)]
  <2>1. /\ j \in Command /\ j.pc = "tagfolder" /\ j.ref = Folder(a)
        /\ j.faults = c.faults /\ j.undo = c.undo
    BY <1>0 DEF Command, Labels
  <2>2. Update(a, j)
    BY <1>2 DEF HaveFolder, c
  <2> HIDE DEF j
  <2>3. Sound(a, j) /\ Responsible(a, j)
    BY <1>0, <1>2, <2>1 DEF Sound, Registered, Located, Lost, Responsible
  <2> QED BY <1>2, <2>1, <2>2, <2>3, LocalStep DEF c
<1>3. CASE FindFolder(a)
  <2>1. c.pc = "find" /\ UNCHANGED <<folders, home, specs>>
    BY <1>3 DEF FindFolder, At, c
  <2>2. CASE Folder(a) # 0
    BY <1>2, <1>3, <2>1, <2>2 DEF FindFolder
  <2>3. CASE Folder(a) = 0
    <3>1. Goto(a, "mkdir") /\ "mkdir" \in Labels
      BY <1>3, <2>3 DEF FindFolder, Labels
    <3>2. ASSUME NEW j \in Command, Moved(c, j, "mkdir")
          PROVE  Sound(a, j) /\ Responsible(a, j)
      BY <1>0, <2>1, <3>2 DEF Sound, Registered, Located, Lost, Responsible, Moved
    <3> QED BY <2>1, <3>1, <3>2, GotoStep DEF c
  <2> QED BY <2>2, <2>3
<1>4. CASE MakeFolder(a)
  <2>1. c.pc = "mkdir" /\ UNCHANGED <<home, specs>>
    BY <1>4 DEF MakeFolder, At, c
  <2>2. CASE Folder(a) # 0
    <3>1. Goto(a, "refind") /\ "refind" \in Labels /\ UNCHANGED folders
      BY <1>4, <2>2 DEF MakeFolder, Labels, Folder
    <3>2. ASSUME NEW j \in Command, Moved(c, j, "refind")
          PROVE  Sound(a, j) /\ Responsible(a, j)
      BY <1>0, <2>1, <3>2 DEF Sound, Registered, Located, Lost, Responsible, Moved
    <3> QED BY <2>1, <3>1, <3>2, GotoStep DEF c
  <2>3. CASE Folder(a) = 0
    <3> DEFINE s == SandboxOf[a]
               new == made[s] + 1
               j == [c EXCEPT !.pc = "tagfolder", !.ref = new]
    <3>0. new \in Nat /\ new # 0
      BY <1>0
    <3>1. /\ made' = [made EXCEPT ![s] = new] /\ folder' = [folder EXCEPT ![s] = new]
          /\ HaveFolder(a, new)
      BY <1>4, <2>3 DEF MakeFolder, Folder
    <3> HIDE DEF new
    <3>2. /\ j \in Command /\ j.pc = "tagfolder" /\ j.ref = new
          /\ j.faults = c.faults /\ j.undo = c.undo
      BY <1>0, <3>0 DEF Command, Labels
    <3>a. Update(a, j)
      BY <3>1 DEF HaveFolder, c
    <3> HIDE DEF j
    <3>3. /\ cmd' \in [Apps -> Command] /\ cmd'[a] = j /\ FaultsGiven'
          /\ \A b \in Apps \ {a} : cmd'[b] = cmd[b]
      BY <3>2, <3>a, OwnStep DEF c
    <3>4. /\ folder \in [Sandboxes -> Nat] /\ made \in [Sandboxes -> Nat] /\ s \in Sandboxes
          /\ home \in [Apps -> Nat]
      BY Constants DEF IInv, Types
    <3>5. Types'
      BY <2>1, <3>0, <3>1, <3>3, <3>4 DEF IInv, Types
    <3>6. ASSUME NEW b \in Apps PROVE Sound(b, cmd[b])'
      <4>1. CASE b = a
        <5>1. home'[a] = 0
          BY <1>0, <2>1 DEF Located
        <5>2. j.undo = {"folder"}
          BY <1>0, <2>1, <3>2 DEF Registered
        <5> QED BY <3>0, <3>2, <3>3, <4>1, <5>1, <5>2 DEF Sound, Registered, Located, Lost
      <4>2. CASE b # a
        <5>1. folder'[SandboxOf[b]] = folder[SandboxOf[b]] \/ home[b] = 0
          <6>1. Located(b, cmd[b])
            BY CommandSound
          <6>2. SandboxOf[b] = s => home[b] = 0
            BY <2>3, <6>1 DEF Located, Folder
          <6> QED BY <3>1, <3>4, <6>2, Constants
        <5> QED BY <2>1, <3>3, <4>2, <5>1, OtherSound
      <4> QED BY <4>1, <4>2
    <3>7. SpecsOwned'
      BY <2>1, <3>2, <3>3 DEF IInv, SpecsOwned, c
    <3>8. ASSUME NEW t \in Sandboxes, folder'[t] # 0, IsEmpty(t)'
          PROVE  \E b \in Apps : SandboxOf[b] = t /\ Responsible(b, cmd[b])'
      <4>1. CASE t = s
        <5>1. "folder" \in j.undo
          BY <1>0, <2>1, <3>2 DEF Registered
        <5>2. Responsible(a, cmd[a])'
          BY <3>2, <3>3, <5>1 DEF Responsible
        <5> QED BY <4>1, <5>2
      <4>2. CASE t # s
        <5>1. folder'[t] = folder[t]
          BY <3>1, <3>4, <4>2
        <5>2. IsEmpty(t)
          BY <1>4, <2>1, <3>8, <5>1 DEF IsEmpty
        <5>3. PICK b \in Apps : SandboxOf[b] = t /\ Responsible(b, cmd[b])
          BY <3>8, <5>1, <5>2 DEF IInv, Watched
        <5>4. Responsible(b, cmd[b])'
          BY <3>3, <4>2, <5>1, <5>3 DEF Responsible, Returning, Folder
        <5> QED BY <5>3, <5>4
      <4> QED BY <4>1, <4>2
    <3>9. Watched'
      BY <3>8 DEF Watched
    <3> QED BY <3>3, <3>5, <3>6, <3>7, <3>9 DEF IInv
  <2> QED BY <2>2, <2>3
<1>5. CASE FindAgain(a)
  <2>1. c.pc = "refind" /\ UNCHANGED <<folders, home, specs>>
    BY <1>5 DEF FindAgain, At, c
  <2>2. CASE Folder(a) # 0
    BY <1>2, <1>5, <2>1, <2>2 DEF FindAgain
  <2>3. CASE Folder(a) = 0
    <3>1. Goto(a, "undo") /\ "undo" \in Labels
      BY <1>5, <2>3 DEF FindAgain, Labels
    <3>2. ASSUME NEW j \in Command, Moved(c, j, "undo")
          PROVE  Sound(a, j) /\ Responsible(a, j)
      BY <1>0, <2>1, <3>2 DEF Sound, Registered, Located, Lost, Responsible, Moved
    <3> QED BY <2>1, <3>1, <3>2, GotoStep DEF c
  <2> QED BY <2>2, <2>3
<1>6. CASE TagFolder(a)
  <2>1. c.pc = "tagfolder" /\ UNCHANGED <<folders, home, specs>>
    BY <1>6 DEF TagFolder, At, c
  <2>2. c.undo = {"folder"} /\ c.ref # 0 /\ home[a] = 0
    BY <1>0, <2>1 DEF Registered, Located
  <2>3. ASSUME NEW label \in {"clone", "spec", "undo"}, Goto(a, label) PROVE IInv'
    <3>1. label \in Labels
      BY DEF Labels
    <3>2. ASSUME NEW j \in Command, Moved(c, j, label)
          PROVE  Sound(a, j) /\ Responsible(a, j)
      BY <2>2, <3>2 DEF Sound, Registered, Located, Lost, Responsible, Moved
    <3> QED BY <2>1, <2>3, <3>1, <3>2, GotoStep DEF c
  <2>4. CASE DestroyFolder(a, cmd[a], cmd[a].ref, "undo")
    <3>1. c.ref \in Nat
      BY <1>0 DEF Command
    <3> QED BY <1>0, <2>1, <2>2, <2>4, <3>1, DestroyStep DEF c
  <2> QED BY <1>6, <2>3, <2>4 DEF TagFolder, UnlessCancelled, Goto
<1>7. CASE PrepareSpec(a)
  <2>1. c.pc = "spec" /\ UNCHANGED <<folders, home>>
    BY <1>7 DEF PrepareSpec, At, c
  <2>2. c.undo = {"folder"} /\ c.ref # 0 /\ home[a] = 0
    BY <1>0, <2>1 DEF Registered, Located
  <2>3. CASE Goto(a, "undo") /\ UNCHANGED specs
    <3>1. "undo" \in Labels
      BY DEF Labels
    <3>2. ASSUME NEW j \in Command, Moved(c, j, "undo")
          PROVE  Sound(a, j) /\ Responsible(a, j)
      BY <2>2, <3>2 DEF Sound, Registered, Located, Lost, Responsible, Moved
    <3> QED BY <2>1, <2>3, <3>1, <3>2, GotoStep DEF c
  <2>4. ASSUME NEW label \in {"undo", "clone"},
               Update(a, [c EXCEPT !.undo = @ \cup {"spec"}, !.pc = label]),
               specs' = specs \/ specs' = specs \cup {NameOf[a]}
        PROVE  IInv'
    <3> DEFINE d == [c EXCEPT !.undo = @ \cup {"spec"}, !.pc = label]
    <3>0. /\ d \in Command /\ d.pc = label /\ d.undo = {"folder", "spec"} /\ d.ref = c.ref
          /\ d.faults = c.faults
      BY <1>0, <2>2 DEF Command, Labels
    <3> HIDE DEF d
    <3>1. PICK j \in Command :
              j = d /\ j.pc = label /\ j.undo = {"folder", "spec"} /\ j.ref = c.ref
              /\ j.faults = c.faults
      BY <3>0
    <3>2. Update(a, j) /\ j.faults = cmd[a].faults
      BY <2>4, <3>1 DEF c, d
    <3>3. Sound(a, j)' /\ Responsible(a, j)
      BY <2>1, <2>2, <3>1 DEF Sound, Registered, Located, Lost, Responsible
    <3>4. SpecsOwned'
      <4>1. cmd'[a] = j /\ \A b \in Apps \ {a} : cmd'[b] = cmd[b]
        BY <3>2, OwnStep
      <4>2. \A n \in specs' : n \in specs \/ n = NameOf[a]
        BY <2>4
      <4> QED BY <2>2, <3>1, <4>1, <4>2 DEF IInv, SpecsOwned, c
    <3>5. /\ specs' \subseteq Names /\ home' \in [Apps -> Nat] /\ UNCHANGED folders
          /\ \A b \in Apps \ {a} : home'[b] = home[b]
      BY <2>1, <2>4, Constants DEF IInv, Types
    <3> QED BY <3>2, <3>3, <3>4, <3>5, AloneStep
  <2>5. \/ Goto(a, "undo") /\ UNCHANGED specs
        \/ \E label \in {"undo", "clone"} :
              /\ Update(a, [c EXCEPT !.undo = @ \cup {"spec"}, !.pc = label])
              /\ specs' = specs \/ specs' = specs \cup {NameOf[a]}
    <3> DEFINE d == [cmd[a] EXCEPT !.undo = @ \cup {"spec"}]
    <3>1. ASSUME NEW label
          PROVE  [d EXCEPT !.pc = label] = [c EXCEPT !.undo = @ \cup {"spec"}, !.pc = label]
      BY DEF c
    <3> HIDE DEF d
    <3>2. \/ Goto(a, "undo") /\ UNCHANGED specs
          \/ \E label \in {"undo", "clone"} :
              /\ Update(a, [d EXCEPT !.pc = label])
              /\ specs' = specs \/ specs' = specs \cup {NameOf[a]}
      BY <1>7 DEF PrepareSpec, UnlessCancelled, d
    <3> QED BY <3>1, <3>2
  <2> QED BY <2>3, <2>4, <2>5
<1>8. CASE CloneFails(a)
  <2>1. c.pc = "clone" /\ UNCHANGED <<folders, home, specs>>
    BY <1>8 DEF CloneFails, At, c
  <2>2. c.undo \subseteq {"folder", "spec"} /\ "folder" \in c.undo /\ c.ref # 0 /\ home[a] = 0
    BY <1>0, <2>1 DEF Registered, Located
  <2>3. PICK d \in Command :
            /\ d = [c EXCEPT !.undo = @ \cup {"clone"}]
            /\ d.undo = c.undo \cup {"clone"} /\ d.ref = c.ref /\ d.ref \in Nat
            /\ d.faults = c.faults
    <3> DEFINE d == [c EXCEPT !.undo = @ \cup {"clone"}]
    <3>1. /\ d \in Command /\ d.undo = c.undo \cup {"clone"} /\ d.ref = c.ref /\ d.ref \in Nat
          /\ d.faults = c.faults
      BY <1>0 DEF Command
    <3> QED BY <3>1
  <2>4. CASE a \in Image
    <3>1. Update(a, [d EXCEPT !.pc = "undo"]) /\ "undo" \in Labels
      BY <1>8, <2>3, <2>4 DEF CloneFails, Labels, c
    <3>2. PICK j \in Command : j = [d EXCEPT !.pc = "undo"] /\ Moved(d, j, "undo")
      BY <3>1, Moving DEF Moved
    <3>3. Sound(a, j) /\ Responsible(a, j)
      BY <2>2, <2>3, <3>2 DEF Sound, Registered, Located, Lost, Responsible, Moved
    <3> QED BY <2>1, <2>3, <3>1, <3>2, <3>3, LocalStep DEF Moved, c
  <2>5. CASE a \notin Image
    <3>1. DestroyFolder(a, d, d.ref, "undo")
      BY <1>8, <2>3, <2>5 DEF CloneFails, c
    <3> QED BY <2>1, <2>2, <2>3, <3>1, DestroyStep DEF c
  <2> QED BY <2>4, <2>5
<1>9. CASE NoSnapshot(a)
  <2>1. c.pc = "clone" /\ Goto(a, "undo") /\ "undo" \in Labels /\ UNCHANGED <<folders, home, specs>>
    BY <1>9 DEF NoSnapshot, At, Labels, c
  <2>2. ASSUME NEW j \in Command, Moved(c, j, "undo")
        PROVE  Sound(a, j) /\ Responsible(a, j)
    BY <1>0, <2>1, <2>2 DEF Sound, Registered, Located, Lost, Responsible, Moved
  <2> QED BY <2>1, <2>2, GotoStep DEF c
<1>10. CASE CloneVm(a)
  <2> DEFINE label == IF a \in Image THEN "locate" ELSE "reconfigure"
  <2>1. /\ c.pc = "clone" /\ UNCHANGED <<folders, specs>>
        /\ Folder(a) # 0 /\ (a \notin Image => Folder(a) = c.ref)
        /\ home' = [home EXCEPT ![a] = Folder(a)]
        /\ Update(a, [c EXCEPT !.pc = label, !.undo = @ \cup {"clone"}])
    BY <1>10 DEF CloneVm, At, c
  <2>2. label \in {"locate", "reconfigure"} /\ label \in Labels /\ (label = "locate" => a \in Image)
    BY DEF Labels
  <2> HIDE DEF label
  <2>3. "folder" \in c.undo /\ c.ref # 0
    BY <1>0, <2>1 DEF Registered
  <2>4. PICK j \in Command :
            /\ Update(a, j) /\ j.pc = label /\ j.undo = c.undo \cup {"clone"}
            /\ j.ref = c.ref /\ j.faults = c.faults
    <3> DEFINE j == [c EXCEPT !.pc = label, !.undo = @ \cup {"clone"}]
    <3>1. /\ j \in Command /\ j.pc = label /\ j.undo = c.undo \cup {"clone"}
          /\ j.ref = c.ref /\ j.faults = c.faults
      BY <1>0, <2>2 DEF Command
    <3> QED BY <2>1, <3>1
  <2>5. /\ home' \in [Apps -> Nat] /\ home'[a] = Folder(a)
        /\ \A b \in Apps \ {a} : home'[b] = home[b]
    BY <1>0, <2>1 DEF IInv, Types
  <2>6. Sound(a, j)'
    BY <2>1, <2>2, <2>3, <2>4, <2>5 DEF Sound, Registered, Located, Lost, Folder, folders
  <2>7. SpecsOwned'
    <3>1. cmd'[a] = j /\ \A b \in Apps \ {a} : cmd'[b] = cmd[b]
      BY <2>4, OwnStep DEF c
    <3> QED BY <2>1, <2>4, <3>1 DEF IInv, SpecsOwned, c
  <2>8. UNCHANGED folders /\ specs' \subseteq Names /\ j.faults = cmd[a].faults
    BY <2>1, <2>4 DEF IInv, Types, c
  <2> QED BY <2>4, <2>5, <2>6, <2>7, <2>8, AloneStep
<1>11. ASSUME c.pc \in {"reconfigure", "locate"}, home[a] # 0, NEW label \in {"tagvm", "undo"},
              Update(a, [[cmd[a] EXCEPT !.cloned = TRUE] EXCEPT !.pc = label]),
              UNCHANGED <<folders, home, specs>>
       PROVE  IInv'
  <2>1. PICK j \in Command :
            /\ Update(a, j) /\ j.pc = label /\ j.undo = c.undo /\ j.cloned = TRUE
            /\ j.ref = c.ref /\ j.faults = c.faults
    <3> DEFINE j == [[c EXCEPT !.cloned = TRUE] EXCEPT !.pc = label]
    <3>1. /\ j \in Command /\ j.pc = label /\ j.undo = c.undo /\ j.cloned = TRUE
          /\ j.ref = c.ref /\ j.faults = c.faults
      BY <1>0 DEF Command, Labels
    <3> QED BY <1>11, <3>1 DEF c
  <2>2. Sound(a, j)
    BY <1>0, <1>11, <2>1 DEF Sound, Registered, Located, Lost
  <2>3. ~IsEmpty(SandboxOf[a])
    BY <1>0, <1>11 DEF Located, IsEmpty, Folder
  <2> QED BY <1>11, <2>1, <2>2, <2>3, LocalStep DEF c
<1>12. CASE Reconfigure(a)
  <2>1. c.pc = "reconfigure" /\ UNCHANGED <<folders, home, specs>>
    BY <1>12 DEF Reconfigure, At, c
  <2>2. CASE Goto(a, "unclone")
    <3>1. "unclone" \in Labels
      BY DEF Labels
    <3>2. ASSUME NEW j \in Command, Moved(c, j, "unclone")
          PROVE  Sound(a, j) /\ Responsible(a, j)
      BY <1>0, <2>1, <3>2 DEF Sound, Registered, Located, Lost, Responsible, Moved
    <3> QED BY <2>1, <2>2, <3>1, <3>2, GotoStep DEF c
  <2> QED BY <1>11, <1>12, <2>1, <2>2 DEF Reconfigure, UnlessCancelled
<1>13. CASE Locate(a)
  <2>1. c.pc = "locate" /\ UNCHANGED <<folders, home, specs>>
    BY <1>13 DEF Locate, At, c
  <2>2. CASE Goto(a, "undo") /\ (MayRaise(a, "lookup") \/ home[a] = 0)
    <3>1. "undo" \in Labels
      BY DEF Labels
    <3>2. home[a] # 0 => "lookup" \in c.faults
      BY <2>2 DEF MayRaise, c
    <3>3. ASSUME NEW j \in Command, Moved(c, j, "undo")
          PROVE  Sound(a, j) /\ Responsible(a, j)
      BY <1>0, <2>1, <3>2, <3>3 DEF Sound, Registered, Located, Lost, Responsible, Moved
    <3> QED BY <2>1, <2>2, <3>1, <3>3, GotoStep DEF c
  <2> QED BY <1>11, <1>13, <2>1, <2>2 DEF Locate, UnlessCancelled
<1>14. CASE TagVm(a)
  <2>1. c.pc = "tagvm" /\ UNCHANGED <<folders, home, specs>>
    BY <1>14 DEF TagVm, At, c
  <2>2. PICK label \in {"details", "unclone"} : Goto(a, label)
    BY <1>14 DEF TagVm
  <2>3. label \in Labels
    BY DEF Labels
  <2>4. ASSUME NEW j \in Command, Moved(c, j, label)
        PROVE  Sound(a, j) /\ (Responsible(a, c) => Responsible(a, j))
    BY <1>0, <2>1, <2>4 DEF Sound, Registered, Located, Lost, Responsible, Returning, Moved
  <2> QED BY <2>1, <2>2, <2>3, <2>4, GotoStep DEF c
<1>15. CASE Unclone(a)
  <2>1. c.pc = "unclone" /\ UNCHANGED <<folders, specs>> /\ DeleteVm(a)
    BY <1>15 DEF Unclone, At, c
  <2>2. "folder" \in c.undo /\ c.ref # 0
    BY <1>0, <2>1 DEF Registered
  <2>3. home'[a] = 0 /\ (home[a] = 0 => home' = home)
    BY <2>1 DEF DeleteVm, IInv, Types
  <2>4. CASE home[a] = 0 /\ c.cloned
    <3>1. Goto(a, "undo") /\ "undo" \in Labels
      BY <1>15, <2>4 DEF Unclone, Labels, c
    <3>2. ASSUME NEW j \in Command, Moved(c, j, "undo")
          PROVE  Sound(a, j) /\ Responsible(a, j)
      BY <1>0, <2>1, <2>2, <2>4, <3>2 DEF Sound, Registered, Located, Lost, Responsible, Moved
    <3> QED BY <2>1, <2>3, <2>4, <3>1, <3>2, GotoStep DEF c
  <2>5. CASE ~(home[a] = 0 /\ c.cloned)
    <3>1. DestroyFolder(a, c, c.ref, "undo") /\ c.ref \in Nat
      BY <1>0, <1>15, <2>5 DEF Unclone, Command, c
    <3> QED BY <1>0, <2>1, <2>2, <2>3, <3>1, DestroyStep DEF c
  <2> QED BY <2>4, <2>5
<1>16. CASE Details(a)
  <2>1. c.pc = "details" /\ UNCHANGED <<folders, home, specs>>
    BY <1>16 DEF Details, At, c
  <2>2. PICK label \in {"deployed", "failed"} : Goto(a, label)
    BY <1>16 DEF Details
  <2>3. label \in Labels
    BY DEF Labels
  <2>4. ASSUME NEW j \in Command, Moved(c, j, label)
        PROVE  Sound(a, j) /\ (Responsible(a, c) => Responsible(a, j))
    BY <1>0, <2>1, <2>4 DEF Sound, Registered, Located, Lost, Responsible, Returning, Moved
  <2> QED BY <2>1, <2>2, <2>3, <2>4, GotoStep DEF c
<1> QED
  BY <1>1, <1>3, <1>4, <1>5, <1>6, <1>7, <1>8, <1>9, <1>10, <1>12, <1>13, <1>14, <1>15, <1>16
  DEF Deploying

(* A rollback takes one command after the other off the list.               *)
LEMMA RollingBackInv == ASSUME IInv, NEW a \in Apps, RollingBack(a) PROVE IInv'
<1> USE DEF Fetching, Preparing, Cloned, Destroying, Removing, Removed
<1> DEFINE c == cmd[a]
<1>0. /\ c \in Command /\ Registered(a, c) /\ Located(a, c)
      /\ home[a] \in Nat /\ Folder(a) \in Nat
  BY CommandSound
<1> HIDE DEF c
<1>1. c.pc = "undo"
  BY DEF RollingBack, UndoFolder, UndoSpec, UndoClone, UndoImage, RolledBack, At, c
<1>2. ASSUME NEW which \in {"folder", "spec", "clone"}
      PROVE  \E d \in Command :
                /\ d = Undone(a, which) /\ d.undo = c.undo \ {which} /\ d.pc = "undo"
                /\ d.ref = c.ref /\ d.faults = c.faults /\ d.cloned = c.cloned
                /\ d.target = c.target /\ d.then = c.then
  <2> DEFINE d == [c EXCEPT !.undo = @ \ {which}]
  <2>1. /\ d \in Command /\ d.undo = c.undo \ {which} /\ d.pc = "undo"
        /\ d.ref = c.ref /\ d.faults = c.faults /\ d.cloned = c.cloned
        /\ d.target = c.target /\ d.then = c.then
    BY <1>0, <1>1 DEF Command
  <2>2. d = Undone(a, which)
    BY DEF Undone, c
  <2> QED BY <2>1, <2>2
<1>3. CASE UndoFolder(a)
  <2>1. PICK d \in Command :
            /\ d = Undone(a, "folder") /\ d.undo = c.undo \ {"folder"} /\ d.pc = "undo"
            /\ d.ref = c.ref /\ d.faults = c.faults /\ d.cloned = c.cloned
    BY <1>2
  <2>2. UNCHANGED <<folders, home, specs>> /\ "folder" \in c.undo
    BY <1>3 DEF UndoFolder, c
  <2>3. CASE Folder(a) = 0
    <3>1. Update(a, d)
      BY <1>3, <2>1, <2>3 DEF UndoFolder
    <3>2. Sound(a, d)
      BY <1>0, <1>1, <2>1 DEF Sound, Registered, Located, Lost
    <3> QED BY <2>1, <2>2, <2>3, <3>1, <3>2, LocalStep DEF c
  <2>4. CASE Folder(a) # 0
    <3>1. DestroyFolder(a, d, Folder(a), "undo")
      BY <1>3, <2>1, <2>4 DEF UndoFolder
    <3>2. home[a] # 0 /\ ~Lost(a, d) => d.cloned /\ "clone" \in d.undo
      BY <1>0, <1>1, <2>1 DEF Located, Lost
    <3>3. "clone" \in d.undo => d.ref # 0
      BY <1>0, <2>1 DEF Registered
    <3> QED BY <1>0, <2>1, <2>2, <3>1, <3>2, <3>3, DestroyStep DEF c
  <2> QED BY <2>3, <2>4
<1>4. CASE UndoSpec(a)
  <2>1. PICK d \in Command :
            /\ d = Undone(a, "spec") /\ d.undo = c.undo \ {"spec"} /\ d.pc = "undo"
            /\ d.ref = c.ref /\ d.faults = c.faults /\ d.cloned = c.cloned
            /\ d.target = c.target /\ d.then = c.then
    BY <1>2
  <2>2. /\ UNCHANGED <<folders, home>> /\ Update(a, d) /\ d.faults = cmd[a].faults
        /\ specs' = specs \ {NameOf[a]}
    BY <1>4, <2>1 DEF UndoSpec, c
  <2>3. Sound(a, d)'
    BY <1>0, <1>1, <2>1, <2>2 DEF Sound, Registered, Located, Lost, Folder, folders
  <2>4. Responsible(a, c) => Responsible(a, d)
    BY <1>1, <2>1 DEF Responsible
  <2>5. SpecsOwned'
    <3>1. cmd'[a] = d /\ \A b \in Apps \ {a} : cmd'[b] = cmd[b]
      BY <2>2, OwnStep
    <3> QED BY <2>2, <3>1 DEF IInv, SpecsOwned
  <2>6. /\ specs' \subseteq Names /\ home' \in [Apps -> Nat] /\ UNCHANGED folders
        /\ \A b \in Apps \ {a} : home'[b] = home[b]
        /\ home[a] # Folder(a) \/ home'[a] = Folder(a)
    BY <2>2 DEF IInv, Types
  <2> QED BY <2>2, <2>3, <2>4, <2>5, <2>6, AloneStep DEF c
<1>5. ASSUME "clone" \in c.undo,
             IF c.cloned THEN DeleteVm(a) ELSE home' = home, UNCHANGED <<folders, specs>>
      PROVE  \E d \in Command :
                /\ d = Undone(a, "clone") /\ d.undo = c.undo \ {"clone"} /\ d.pc = "undo"
                /\ d.ref = c.ref /\ d.ref \in Nat /\ d.faults = c.faults /\ d.cloned = c.cloned
                /\ d.target = c.target /\ d.then = c.then
                /\ home' \in [Apps -> Nat] /\ \A b \in Apps \ {a} : home'[b] = home[b]
                /\ Sound(a, d)'
                /\ home'[a] # 0 => Lost(a, d)
  <2>1. PICK d \in Command :
            /\ d = Undone(a, "clone") /\ d.undo = c.undo \ {"clone"} /\ d.pc = "undo"
            /\ d.ref = c.ref /\ d.faults = c.faults /\ d.cloned = c.cloned
            /\ d.target = c.target /\ d.then = c.then
    BY <1>2
  <2>2. /\ home' \in [Apps -> Nat] /\ \A b \in Apps \ {a} : home'[b] = home[b]
        /\ IF c.cloned THEN home'[a] = 0 ELSE home'[a] = home[a]
    BY <1>5 DEF IInv, Types, DeleteVm
  <2>3. home'[a] # 0 => Lost(a, d) /\ home[a] = home'[a]
    BY <1>0, <1>1, <2>1, <2>2 DEF Located, Lost
  <2>4. Sound(a, d)'
    BY <1>0, <1>1, <1>5, <2>1, <2>2, <2>3 DEF Sound, Registered, Located, Lost, Folder, folders
  <2>5. d.ref \in Nat
    BY DEF Command
  <2> QED BY <2>1, <2>2, <2>3, <2>4, <2>5
<1>6. CASE UndoClone(a)
  <2>1. /\ a \notin Image /\ "clone" \in c.undo /\ UNCHANGED <<folders, specs>>
        /\ IF c.cloned THEN DeleteVm(a) ELSE home' = home
    BY <1>6 DEF UndoClone, c
  <2>2. PICK d \in Command :
            /\ d = Undone(a, "clone") /\ d.undo = c.undo \ {"clone"} /\ d.pc = "undo"
            /\ d.ref = c.ref /\ d.ref \in Nat /\ d.faults = c.faults /\ d.cloned = c.cloned
            /\ home' \in [Apps -> Nat] /\ \A b \in Apps \ {a} : home'[b] = home[b]
            /\ Sound(a, d)'
            /\ home'[a] # 0 => Lost(a, d)
    BY <1>5, <2>1
  <2>3. CASE c.cloned /\ home[a] = 0
    <3>1. Update(a, d)
      BY <1>6, <2>2, <2>3 DEF UndoClone, c
    <3>2. home' = home
      BY <2>1, <2>3 DEF IInv, Types, DeleteVm
    <3>3. Sound(a, d)
      BY <1>0, <1>1, <2>2, <2>3 DEF Sound, Registered, Located, Lost
    <3>4. Responsible(a, c) => Responsible(a, d)
      BY <1>1, <2>1, <2>2 DEF Responsible, Returning
    <3> QED BY <2>1, <2>2, <3>1, <3>2, <3>3, <3>4, LocalStep DEF c
  <2>4. CASE ~(c.cloned /\ home[a] = 0)
    <3>1. DestroyFolder(a, d, d.ref, "undo")
      BY <1>6, <2>2, <2>4 DEF UndoClone, c
    <3>2. \/ d.ref = Folder(a)
          \/ "folder" \in d.undo
          \/ home[a] = 0 /\ ~Responsible(a, c)
      BY <1>0, <1>1, <2>1, <2>2 DEF Located, Responsible, Returning
    <3>3. home'[a] = 0
      BY <2>1, <2>2 DEF Lost
    <3> QED BY <2>1, <2>2, <3>1, <3>2, <3>3, DestroyStep DEF c
  <2> QED BY <2>3, <2>4
<1>7. CASE UndoImage(a)
  <2>1. /\ a \in Image /\ "clone" \in c.undo /\ UNCHANGED <<folders, specs>>
        /\ IF c.cloned THEN DeleteVm(a) ELSE home' = home
    BY <1>7 DEF UndoImage, c
  <2>2. PICK d \in Command :
            /\ d = Undone(a, "clone") /\ d.undo = c.undo \ {"clone"} /\ d.pc = "undo"
            /\ d.faults = c.faults
            /\ home' \in [Apps -> Nat] /\ \A b \in Apps \ {a} : home'[b] = home[b]
            /\ Sound(a, d)'
    BY <1>5, <2>1
  <2>3. Update(a, d) /\ d.faults = cmd[a].faults
    BY <1>7, <2>2 DEF UndoImage, c
  <2>4. Responsible(a, d)
    BY <2>1, <2>2 DEF Responsible
  <2>5. SpecsOwned'
    <3>1. cmd'[a] = d /\ \A b \in Apps \ {a} : cmd'[b] = cmd[b]
      BY <2>3, OwnStep
    <3> QED BY <2>1, <2>2, <3>1 DEF IInv, SpecsOwned, c
  <2>6. specs' \subseteq Names /\ UNCHANGED folders
    BY <2>1 DEF IInv, Types
  <2> QED BY <2>2, <2>3, <2>4, <2>5, <2>6, AloneStep
<1>8. CASE RolledBack(a)
  <2>1. /\ UNCHANGED <<folders, home, specs>> /\ Goto(a, "failed") /\ "failed" \in Labels
        /\ c.undo = {}
    BY <1>8 DEF RolledBack, Labels, c
  <2>2. ASSUME NEW j \in Command, Moved(c, j, "failed")
        PROVE  Sound(a, j) /\ (Responsible(a, c) => Responsible(a, j))
    BY <1>0, <1>1, <2>1, <2>2 DEF Sound, Registered, Located, Lost, Responsible, Returning, Moved
  <2> QED BY <2>1, <2>2, GotoStep DEF c
<1> QED BY <1>3, <1>4, <1>6, <1>7, <1>8 DEF RollingBack

(* Deleting a VM, from the moment it is looked up.                          *)
LEMMA DeletingInv == ASSUME IInv, NEW a \in Apps, Deleting(a) \/ Delete(a) PROVE IInv'
<1> USE DEF Fetching, Preparing, Cloned, Destroying, Removing, Removed
<1> DEFINE c == cmd[a]
<1>0. /\ c \in Command /\ Registered(a, c) /\ Located(a, c)
      /\ home[a] \in Nat /\ Folder(a) \in Nat
  BY CommandSound
<1> HIDE DEF c
(* Whether an exception is on its way out is nothing the invariant speaks of. *)
<1>1. ASSUME NEW label \in Labels, Goto(a, label) \/ Raise(a, label)
      PROVE  \E j \in Command :
                /\ Update(a, j) /\ j.pc = label /\ j.faults = c.faults /\ j.ref = c.ref
                /\ j.target = c.target /\ j.then = c.then /\ j.undo = c.undo
                /\ j.cloned = c.cloned
  <2>1. CASE Goto(a, label)
    <3> DEFINE j == [c EXCEPT !.pc = label]
    <3>1. Moved(c, j, label)
      BY <1>0, Moving
    <3>2. Update(a, j)
      BY <2>1 DEF Goto, c
    <3> HIDE DEF j
    <3> QED BY <3>1, <3>2 DEF Moved
  <2>2. CASE Raise(a, label)
    <3> DEFINE j == [c EXCEPT !.pc = label, !.raised = TRUE]
    <3>1. /\ j \in Command /\ j.pc = label /\ j.faults = c.faults /\ j.ref = c.ref
          /\ j.target = c.target /\ j.then = c.then /\ j.undo = c.undo
          /\ j.cloned = c.cloned
      BY <1>0 DEF Command
    <3>2. Update(a, j)
      BY <2>2 DEF Raise, c
    <3> HIDE DEF j
    <3> QED BY <3>1, <3>2
  <2> QED BY <1>1, <2>1, <2>2
<1>2. CASE Delete(a)
  <2>1. c.pc = "deployed" /\ UNCHANGED <<folders, home, specs>>
    BY <1>2 DEF Delete, At, c
  <2>2. CASE home[a] = 0
    <3>1. Goto(a, "deleted") /\ "deleted" \in Labels
      BY <1>2, <2>2 DEF Delete, Labels
    <3>2. ASSUME NEW j \in Command, Moved(c, j, "deleted")
          PROVE  Sound(a, j) /\ (Responsible(a, c) => Responsible(a, j))
      BY <1>0, <2>1, <2>2, <3>2
         DEF Sound, Registered, Located, Lost, Responsible, Returning, Moved
    <3> QED BY <2>1, <3>1, <3>2, GotoStep DEF c
  <2>3. CASE home[a] # 0
    <3> DEFINE j == [c EXCEPT !.pc = "dropspec", !.target = home[a], !.raised = FALSE]
    <3>1. /\ j \in Command /\ j.pc = "dropspec" /\ j.faults = c.faults /\ j.ref = c.ref
          /\ j.target = home[a] /\ j.undo = c.undo /\ j.cloned = c.cloned
      BY <1>0 DEF Command, Labels
    <3>2. Update(a, j)
      BY <1>2, <2>3 DEF Delete, c
    <3> HIDE DEF j
    <3>3. Sound(a, j)
      BY <1>0, <2>1, <3>1 DEF Sound, Registered, Located, Lost
    <3>4. ~Responsible(a, c)
      BY <2>1 DEF Responsible, Returning
    <3> QED BY <2>1, <3>1, <3>2, <3>3, <3>4, LocalStep DEF c
  <2> QED BY <2>2, <2>3
<1>3. ASSUME NEW label \in {"gettags", "remove"}, c.pc \in {"dropspec", "gettags"},
             Goto(a, label) \/ Raise(a, label),
             UNCHANGED <<folders, home>>, specs' \subseteq specs
      PROVE  IInv'
  <2>1. label \in Labels
    BY DEF Labels
  <2>2. PICK j \in Command :
            /\ Update(a, j) /\ j.pc = label /\ j.faults = c.faults /\ j.ref = c.ref
            /\ j.target = c.target /\ j.undo = c.undo /\ j.cloned = c.cloned
    BY <1>1, <1>3, <2>1
  <2>3. Sound(a, j)'
    BY <1>0, <1>3, <2>2 DEF Sound, Registered, Located, Lost, Folder, folders
  <2>4. ~Responsible(a, c)
    BY <1>3 DEF Responsible, Returning
  <2>5. SpecsOwned'
    <3>1. cmd'[a] = j /\ \A b \in Apps \ {a} : cmd'[b] = cmd[b]
      BY <2>2, OwnStep DEF c
    <3> QED BY <1>3, <2>2, <3>1 DEF IInv, SpecsOwned, c
  <2>6. /\ specs' \subseteq Names /\ home' \in [Apps -> Nat] /\ UNCHANGED folders
        /\ \A b \in Apps \ {a} : home'[b] = home[b]
        /\ home[a] # Folder(a) \/ home'[a] = Folder(a)
        /\ j.faults = cmd[a].faults
    BY <1>3, <2>2 DEF IInv, Types, c
  <2> QED BY <2>2, <2>3, <2>4, <2>5, <2>6, AloneStep DEF c
<1>4. CASE DropSpec(a)
  <2>1. c.pc = "dropspec" /\ UNCHANGED <<folders, home>> /\ specs' \subseteq specs
    BY <1>4 DEF DropSpec, At, c
  <2>2. Goto(a, "gettags") \/ Raise(a, "remove")
    BY <1>4 DEF DropSpec
  <2> QED BY <1>3, <2>1, <2>2
<1>5. CASE GetTags(a)
  <2>1. c.pc = "gettags" /\ UNCHANGED <<folders, home>> /\ specs' \subseteq specs
    BY <1>5 DEF GetTags, At, c
  <2>2. Goto(a, "remove") \/ Raise(a, "remove")
    BY <1>5 DEF GetTags
  <2> QED BY <1>3, <2>1, <2>2
<1>6. CASE RemoveVm(a)
  <2>1. c.pc = "remove" /\ UNCHANGED <<folders, specs>>
    BY <1>6 DEF RemoveVm, At, c
  <2>2. PICK label \in {"delete_failed", "lockfolder"} :
            /\ Goto(a, label) \/ Raise(a, label)
            /\ \/ home[a] # 0 /\ DeleteVm(a)
               \/ /\ label = "delete_failed" /\ home' = home
                  /\ home[a] # 0 => "power" \in c.faults
    <3>1. CASE home[a] # 0 /\ DeleteVm(a)
               /\ Goto(a, IF c.raised THEN "delete_failed" ELSE "lockfolder")
      BY <3>1
    <3>2. CASE (MayRaise(a, "power") \/ home[a] = 0) /\ Raise(a, "delete_failed") /\ UNCHANGED home
      BY <3>2 DEF MayRaise, c
    <3> QED BY <1>6, <3>1, <3>2 DEF RemoveVm, c
  <2>3. label \in Labels
    BY DEF Labels
  <2>4. PICK j \in Command :
            /\ Update(a, j) /\ j.pc = label /\ j.faults = c.faults /\ j.ref = c.ref
            /\ j.target = c.target /\ j.undo = c.undo /\ j.cloned = c.cloned
    BY <1>1, <2>2, <2>3
  <2>5. /\ home' \in [Apps -> Nat]
        /\ \A b \in Apps \ {a} : home'[b] = home[b]
        /\ \/ home'[a] = 0
           \/ label = "delete_failed" /\ home'[a] = home[a] /\ "power" \in c.faults
    BY <2>2 DEF IInv, Types, DeleteVm
  <2>6. Sound(a, j)'
    BY <1>0, <2>1, <2>2, <2>4, <2>5 DEF Sound, Registered, Located, Lost, Folder, folders
  <2>7. home[a] = Folder(a) /\ Folder(a) # 0 => Responsible(a, j)
    BY <1>0, <2>1, <2>2, <2>4 DEF Responsible, Located
  <2>8. ~Responsible(a, c)
    BY <2>1 DEF Responsible, Returning
  <2>9. SpecsOwned'
    <3>1. cmd'[a] = j /\ \A b \in Apps \ {a} : cmd'[b] = cmd[b]
      BY <2>4, OwnStep DEF c
    <3> QED BY <2>1, <2>4, <3>1 DEF IInv, SpecsOwned, c
  <2>10. specs' \subseteq Names /\ UNCHANGED folders /\ j.faults = cmd[a].faults
    BY <2>1, <2>4 DEF IInv, Types, c
  <2> QED BY <2>4, <2>5, <2>6, <2>7, <2>8, <2>9, <2>10, AloneStep DEF c
<1>7. CASE LockDeletion(a)
  <2>1. /\ c.pc = "lockfolder" /\ UNCHANGED <<folders, home, specs>>
        /\ Goto(a, "exists") /\ "exists" \in Labels
    BY <1>7 DEF LockDeletion, At, Labels, c
  <2>2. ASSUME NEW j \in Command, Moved(c, j, "exists")
        PROVE  Sound(a, j) /\ (Responsible(a, c) => Responsible(a, j))
    BY <1>0, <2>1, <2>2 DEF Sound, Registered, Located, Lost, Responsible, Returning, Moved
  <2> QED BY <2>1, <2>2, GotoStep DEF c
<1>8. CASE FolderExists(a)
  <2>1. c.pc = "exists" /\ UNCHANGED <<folders, home, specs>> /\ home[a] = 0
    BY <1>0, <1>8 DEF FolderExists, At, Located, c
  <2>2. CASE ~IsExists(a, c.target)
    <3>1. Goto(a, "unlock") /\ "unlock" \in Labels
      BY <1>8, <2>2 DEF FolderExists, Labels, c
    <3>2. ASSUME NEW j \in Command, Moved(c, j, "unlock")
          PROVE  Sound(a, j) /\ (Responsible(a, c) => Responsible(a, j))
      BY <1>0, <2>1, <2>2, <3>2
         DEF Sound, Registered, Located, Lost, Responsible, Returning, Moved, IsExists
    <3> QED BY <2>1, <3>1, <3>2, GotoStep DEF c
  <2>3. CASE IsExists(a, c.target)
    <3>1. PICK d \in Command :
              /\ DestroyFolder(a, d, c.target, "unlock")
              /\ d.faults = c.faults /\ d.ref = c.ref /\ d.undo = c.undo /\ d.cloned = c.cloned
      <4> DEFINE d == [c EXCEPT !.raised = TRUE]
      <4>1. /\ d \in Command
            /\ d.faults = c.faults /\ d.ref = c.ref /\ d.undo = c.undo /\ d.cloned = c.cloned
        BY <1>0 DEF Command
      <4>2. DestroyFolder(a, c, c.target, "unlock") \/ DestroyFolder(a, d, c.target, "unlock")
        BY <1>8, <2>3 DEF FolderExists, c
      <4> HIDE DEF d
      <4> QED BY <1>0, <4>1, <4>2
    <3>2. c.target = Folder(a) /\ c.target \in Nat
      BY <1>0, <2>3 DEF IsExists, Command
    <3>3. "clone" \in d.undo => d.ref # 0
      BY <1>0, <3>1 DEF Registered
    <3> QED BY <2>1, <3>1, <3>2, <3>3, DestroyStep DEF c
  <2> QED BY <2>2, <2>3
<1>9. CASE UnlockDeletion(a)
  <2>1. c.pc = "unlock" /\ UNCHANGED <<folders, home, specs>>
    BY <1>9 DEF UnlockDeletion, At, c
  <2>2. PICK label \in {"delete_failed", "deleted"} : Goto(a, label)
    BY <1>9 DEF UnlockDeletion
  <2>3. label \in Labels
    BY DEF Labels
  <2>4. ASSUME NEW j \in Command, Moved(c, j, label)
        PROVE  Sound(a, j) /\ (Responsible(a, c) => Responsible(a, j))
    BY <1>0, <2>1, <2>4 DEF Sound, Registered, Located, Lost, Responsible, Returning, Moved
  <2> QED BY <2>1, <2>2, <2>3, <2>4, GotoStep DEF c
<1> QED BY <1>2, <1>4, <1>5, <1>6, <1>7, <1>8, <1>9 DEF Deleting

(* FolderHandler.destroy.                                                   *)
LEMMA CheckInv == ASSUME IInv, NEW a \in Apps, CheckEmpty(a) PROVE IInv'
<1> USE DEF Fetching, Preparing, Cloned, Destroying, Removing, Removed
<1> DEFINE c == cmd[a]
<1>0. /\ c \in Command /\ Registered(a, c) /\ Located(a, c)
  BY CommandSound
<1>1. c.pc = "check" /\ UNCHANGED <<folders, home, specs>>
  BY DEF CheckEmpty, At
<1>2. c.then \in {"undo", "unlock"} /\ c.then \in Labels /\ "kill" \in Labels
  BY <1>0 DEF Command, Labels
<1> HIDE DEF c
<1>3. CASE folder[SandboxOf[a]] # c.target
  <2> DEFINE j == [c EXCEPT !.pc = c.then, !.raised = TRUE]
  <2>1. /\ j \in Command /\ j.pc = c.then /\ j.faults = c.faults /\ j.ref = c.ref
        /\ j.undo = c.undo /\ j.cloned = c.cloned
    BY <1>0, <1>2 DEF Command
  <2>2. Update(a, j)
    BY <1>3 DEF CheckEmpty, c
  <2> HIDE DEF j
  <2>3. Sound(a, j)
    BY <1>0, <1>1, <1>2, <2>1 DEF Sound, Registered, Located, Lost
  <2>4. Responsible(a, c) => Responsible(a, j)
    BY <1>1, <1>2, <1>3, <2>1 DEF Responsible, Returning, Folder
  <2> QED BY <1>1, <2>1, <2>2, <2>3, <2>4, LocalStep DEF c
<1>4. CASE folder[SandboxOf[a]] = c.target
  <2> DEFINE label == IF IsEmpty(SandboxOf[a]) THEN "kill" ELSE c.then
  <2>1. Goto(a, label)
    BY <1>4 DEF CheckEmpty, c
  <2>2. label \in {"kill", c.then} /\ label \in Labels /\ (IsEmpty(SandboxOf[a]) => label = "kill")
    BY <1>2
  <2> HIDE DEF label
  <2>3. ASSUME NEW j \in Command, Moved(c, j, label)
        PROVE  /\ Sound(a, j)
               /\ IsEmpty(SandboxOf[a]) /\ Responsible(a, c) => Responsible(a, j)
    BY <1>0, <1>1, <1>2, <2>2, <2>3
       DEF Sound, Registered, Located, Lost, Responsible, Returning, Moved
  <2> QED BY <1>1, <2>1, <2>2, <2>3, GotoStep DEF c
<1> QED BY <1>3, <1>4

LEMMA KillInv == ASSUME IInv, NEW a \in Apps, KillFolder(a) PROVE IInv'
<1> USE DEF Fetching, Preparing, Cloned, Destroying, Removing, Removed
<1> DEFINE c == cmd[a]
           s == SandboxOf[a]
<1>0. /\ c \in Command /\ Registered(a, c) /\ Located(a, c)
  BY CommandSound
<1>1. c.pc = "kill" /\ UNCHANGED <<made, specs>> /\ Goto(a, c.then)
  BY DEF KillFolder, At
<1>2. c.then \in {"undo", "unlock"} /\ c.then \in Labels
  BY <1>0 DEF Command, Labels
<1>3. /\ folder \in [Sandboxes -> Nat] /\ home \in [Apps -> Nat] /\ s \in Sandboxes
  BY Constants DEF IInv, Types
<1>4. CASE folder[s] # c.target
  <2>1. UNCHANGED <<folders, home, specs>>
    BY <1>1, <1>3, <1>4 DEF KillFolder, folders
  <2>2. ASSUME NEW j \in Command, Moved(c, j, c.then)
        PROVE  Sound(a, j) /\ (Responsible(a, c) => Responsible(a, j))
    BY <1>0, <1>1, <1>2, <1>4, <2>2
       DEF Sound, Registered, Located, Lost, Responsible, Returning, Moved, Folder
  <2> QED BY <1>1, <1>2, <2>1, <2>2, GotoStep
<1>5. CASE folder[s] = c.target
  <2>1. /\ folder' = [folder EXCEPT ![s] = 0]
        /\ home' = [b \in Apps |-> IF SandboxOf[b] = s /\ home[b] = folder[s]
                                   THEN 0 ELSE home[b]]
    BY <1>5 DEF KillFolder
  <2> HIDE DEF c
  <2>2. PICK j \in Command : Update(a, j) /\ Moved(c, j, c.then)
    BY <1>0, <1>1, <1>2, Moving, ZenonT(40) DEF Goto, Moved, c
  <2>3. /\ cmd' \in [Apps -> Command] /\ cmd'[a] = j /\ FaultsGiven'
        /\ \A b \in Apps \ {a} : cmd'[b] = cmd[b]
    BY <2>2, OwnStep DEF Moved, c
  <2>4. Types'
    BY <1>1, <1>3, <2>1, <2>3 DEF IInv, Types
  <2>5. ASSUME NEW b \in Apps
        PROVE  IF SandboxOf[b] = s THEN home'[b] = 0
               ELSE /\ home'[b] = home[b] /\ folder'[SandboxOf[b]] = folder[SandboxOf[b]]
    <3>1. SandboxOf[b] \in Sandboxes /\ Located(b, cmd[b])
      BY Constants, CommandSound
    <3> QED BY <1>3, <2>1, <3>1 DEF Located, Folder
  <2>6. ASSUME NEW b \in Apps PROVE Sound(b, cmd[b])'
    <3>1. Registered(b, cmd[b]) /\ Located(b, cmd[b])
      BY CommandSound
    <3>2. CASE b = a
      <4>1. home'[a] = 0
        BY <2>5, <3>2
      <4>2. Registered(a, j)
        BY <1>0, <1>1, <1>2, <2>2 DEF Registered, Moved
      <4> QED BY <1>2, <2>2, <2>3, <3>2, <4>1, <4>2
              DEF Sound, Registered, Located, Lost, Moved
    <3>3. CASE b # a /\ SandboxOf[b] = s
      <4>1. home'[b] = 0 /\ cmd'[b] = cmd[b]
        BY <2>3, <2>5, <3>3
      <4> QED BY <3>1, <4>1 DEF Sound, Registered, Located, Lost
    <3>4. CASE b # a /\ SandboxOf[b] # s
      BY <2>3, <2>5, <3>4, OtherSound
    <3> QED BY <3>2, <3>3, <3>4
  <2>7. SpecsOwned'
    BY <1>1, <2>2, <2>3 DEF IInv, SpecsOwned, Moved, c
  <2>8. ASSUME NEW t \in Sandboxes, folder'[t] # 0, IsEmpty(t)'
        PROVE  \E b \in Apps : SandboxOf[b] = t /\ Responsible(b, cmd[b])'
    <3>1. t # s /\ folder'[t] = folder[t]
      BY <1>3, <2>1, <2>8
    <3>2. IsEmpty(t)
      BY <2>5, <2>8, <3>1 DEF IsEmpty
    <3>3. PICK b \in Apps : SandboxOf[b] = t /\ Responsible(b, cmd[b])
      BY <2>8, <3>1, <3>2 DEF IInv, Watched
    <3>4. cmd'[b] = cmd[b]
      BY <2>3, <3>1, <3>3
    <3> QED BY <3>1, <3>3, <3>4 DEF Responsible, Returning, Folder
  <2>9. Watched'
    BY <2>8 DEF Watched
  <2> QED BY <2>3, <2>4, <2>6, <2>7, <2>9 DEF IInv
<1> QED BY <1>4, <1>5

LEMMA BeginInv == ASSUME IInv, NEW a \in Apps, Begin(a) PROVE IInv'
<1> USE DEF Fetching, Preparing, Cloned, Destroying, Removing, Removed
<1> DEFINE c == cmd[a]
<1>0. /\ c \in Command /\ Registered(a, c) /\ Located(a, c)
  BY CommandSound
<1>1. c.pc = "new" /\ UNCHANGED <<folders, home, specs>>
  BY DEF Begin, At
<1> HIDE DEF c
<1>2. CASE Goto(a, "refused")
  <2>1. "refused" \in Labels
    BY DEF Labels
  <2>2. ASSUME NEW j \in Command, Moved(c, j, "refused")
        PROVE  Sound(a, j) /\ (Responsible(a, c) => Responsible(a, j))
    BY <1>0, <1>1, <2>2 DEF Sound, Registered, Located, Lost, Responsible, Returning, Moved
  <2> QED BY <1>1, <1>2, <2>1, <2>2, GotoStep DEF c
<1>3. CASE Update(a, [c EXCEPT !.pc = "getfolder", !.undo = {"folder"}])
  <2> DEFINE j == [c EXCEPT !.pc = "getfolder", !.undo = {"folder"}]
  <2>1. /\ j \in Command /\ j.pc = "getfolder" /\ j.undo = {"folder"} /\ j.faults = c.faults
    BY <1>0 DEF Command, Labels
  <2> HIDE DEF j
  <2>2. Sound(a, j) /\ Responsible(a, j)
    BY <1>0, <1>1, <2>1 DEF Sound, Registered, Located, Lost, Responsible
  <2>3. Update(a, j) /\ "spec" \notin c.undo
    BY <1>0, <1>1, <1>3 DEF Registered, j
  <2> QED BY <1>1, <2>1, <2>2, <2>3, LocalStep DEF c
<1> QED BY <1>2, <1>3 DEF Begin, c

LEMMA StepInv == IInv /\ [Next]_vars => IInv'
<1> SUFFICES ASSUME IInv, [Next]_vars PROVE IInv'
  OBVIOUS
<1>1. ASSUME NEW a \in Apps, Begin(a) \/ Delete(a) \/ Working(a) PROVE IInv'
  BY <1>1, BeginInv, DeletingInv, DeployingInv, RollingBackInv, CheckInv, KillInv DEF Working
<1>2. CASE UNCHANGED vars
  <2>1. UNCHANGED <<folder, made, home, specs, cmd>>
    BY <1>2 DEF vars
  <2>2. Types' /\ SpecsOwned' /\ FaultsGiven' /\ \A a \in Apps : Sound(a, cmd[a])'
    BY <2>1 DEF IInv, Types, SpecsOwned, FaultsGiven, Sound, Registered, Located, Lost, Folder
  <2>3. Watched'
    BY <2>1 DEF IInv, Watched, IsEmpty, Responsible, Returning, Folder
  <2> QED BY <2>2, <2>3 DEF IInv
<1> QED BY <1>1, <1>2 DEF Next

LEMMA AlwaysInv == Spec => []IInv
BY InitInv, StepInv, PTL DEF Spec

-----------------------------------------------------------------------------
(* Where no call raises and nothing is destroyed.                           *)

(* A command changes nothing of another, and its own target, once set, is   *)
(* never none again.                                                       *)
LEMMA TargetStays ==
    ASSUME IInv, NEW a \in Apps, Begin(a) \/ Delete(a) \/ Working(a)
    PROVE  /\ \A b \in Apps \ {a} : cmd'[b] = cmd[b]
           /\ cmd'[a].faults = cmd[a].faults
           /\ cmd'[a].target = 0 => cmd[a].target = 0
<1> USE DEF Fetching, Preparing, Cloned
<1> DEFINE Kept == /\ \A b \in Apps \ {a} : cmd'[b] = cmd[b]
                   /\ cmd'[a].faults = cmd[a].faults
                   /\ cmd'[a].target = 0 => cmd[a].target = 0
<1>0. /\ cmd[a] \in Command /\ cmd \in [Apps -> Command]
      /\ Registered(a, cmd[a])
  BY CommandSound DEF IInv, Types
<1>1. ASSUME NEW c \in Command, c.faults = cmd[a].faults, c.target = cmd[a].target
      PROVE  /\ Update(a, c) => Kept
             /\ \A label : Update(a, [c EXCEPT !.pc = label]) => Kept
             /\ \A target, label : target # 0 \/ target = c.target =>
                    (DestroyFolder(a, c, target, label) => Kept)
  <2>1. ASSUME NEW j, Update(a, j), j.faults = cmd[a].faults, j.target = 0 => cmd[a].target = 0
        PROVE  Kept
    BY <1>0, <2>1 DEF Update
  <2>2. ASSUME NEW label PROVE Update(a, [c EXCEPT !.pc = label]) => Kept
    <3> DEFINE j == [c EXCEPT !.pc = label]
    <3>1. j.faults = cmd[a].faults /\ j.target = cmd[a].target
      BY <1>1 DEF Command
    <3> HIDE DEF j
    <3>2. Update(a, j) => Kept
      BY <2>1, <3>1
    <3> QED BY <3>2 DEF j
  <2>3. ASSUME NEW target, NEW label, target # 0 \/ target = c.target
        PROVE  DestroyFolder(a, c, target, label) => Kept
    <3> DEFINE j == [c EXCEPT !.pc = "check", !.target = target, !.then = label]
    <3>1. j.faults = cmd[a].faults /\ j.target = target
      BY <1>1 DEF Command
    <3> HIDE DEF j
    <3>2. Update(a, j) => Kept
      BY <1>1, <2>1, <2>3, <3>1
    <3> QED BY <3>2 DEF DestroyFolder, j
  <2>4. Update(a, c) => Kept
    BY <1>1, <2>1
  <2> QED BY <2>2, <2>3, <2>4
<1>2. (\E label : Goto(a, label)) => Kept
  BY <1>0, <1>1 DEF Goto
<1>4. CASE LockFolders(a) \/ NoSnapshot(a) \/ TagVm(a) \/ Details(a) \/ RolledBack(a)
           \/ LockDeletion(a) \/ UnlockDeletion(a) \/ KillFolder(a)
  BY <1>2, <1>4 DEF LockFolders, NoSnapshot, TagVm, Details, RolledBack, LockDeletion,
                    UnlockDeletion, KillFolder
<1>5. CASE FindFolder(a) \/ MakeFolder(a) \/ FindAgain(a) \/ Begin(a)
  <2>1. \A n : HaveFolder(a, n) => Kept
    BY <1>0 DEF HaveFolder, Update, Command
  <2>2. Update(a, [cmd[a] EXCEPT !.pc = "getfolder", !.undo = {"folder"}]) => Kept
    BY <1>0 DEF Update, Command
  <2> QED BY <1>2, <1>5, <2>1, <2>2 DEF FindFolder, MakeFolder, FindAgain, Begin
<1>6. CASE TagFolder(a)
  <2>1. cmd[a].ref # 0
    BY <1>0, <1>6 DEF TagFolder, At, Registered
  <2> QED BY <1>0, <1>1, <1>6, <2>1 DEF TagFolder, UnlessCancelled
<1>7. CASE PrepareSpec(a)
  <2> DEFINE c == [cmd[a] EXCEPT !.undo = @ \cup {"spec"}]
  <2>1. c \in Command /\ c.faults = cmd[a].faults /\ c.target = cmd[a].target
    BY <1>0 DEF Command
  <2>2. \/ \E label : Goto(a, label)
        \/ \E label : Update(a, [c EXCEPT !.pc = label])
    BY <1>7 DEF PrepareSpec, UnlessCancelled
  <2> HIDE DEF c
  <2> QED BY <1>1, <1>2, <2>1, <2>2
<1>8. CASE CloneFails(a) \/ CloneVm(a)
  <2> DEFINE c == [cmd[a] EXCEPT !.undo = @ \cup {"clone"}]
             label == IF a \in Image THEN "locate" ELSE "reconfigure"
  <2>1. c \in Command /\ c.faults = cmd[a].faults /\ c.target = cmd[a].target /\ c.ref = cmd[a].ref
    BY <1>0 DEF Command
  <2>2. cmd[a].ref # 0
    BY <1>0, <1>8 DEF CloneFails, CloneVm, At, Registered
  <2>3. [cmd[a] EXCEPT !.pc = label, !.undo = @ \cup {"clone"}] = [c EXCEPT !.pc = label]
    BY <1>0 DEF Command
  <2>4. \/ \E l : Update(a, [c EXCEPT !.pc = l])
        \/ DestroyFolder(a, c, c.ref, "undo")
    BY <1>8, <2>3 DEF CloneFails, CloneVm
  <2> HIDE DEF c
  <2> QED BY <1>1, <2>1, <2>2, <2>4
<1>9. CASE Reconfigure(a) \/ Locate(a)
  <2> DEFINE c == [cmd[a] EXCEPT !.cloned = TRUE]
  <2>1. c \in Command /\ c.faults = cmd[a].faults /\ c.target = cmd[a].target
    BY <1>0 DEF Command
  <2>2. (\E l : Goto(a, l)) \/ \E l : Update(a, [c EXCEPT !.pc = l])
    BY <1>9 DEF Reconfigure, Locate, UnlessCancelled
  <2> HIDE DEF c
  <2> QED BY <1>1, <1>2, <2>1, <2>2
<1>10. CASE Unclone(a)
  <2>1. cmd[a].ref # 0
    BY <1>0, <1>10 DEF Unclone, At, Registered
  <2> QED BY <1>0, <1>1, <1>2, <1>10, <2>1 DEF Unclone
<1>11. CASE UndoFolder(a) \/ UndoSpec(a) \/ UndoClone(a) \/ UndoImage(a)
  <2>1. ASSUME NEW which \in {"folder", "spec", "clone"}
        PROVE  /\ Undone(a, which) \in Command /\ Undone(a, which).faults = cmd[a].faults
               /\ Undone(a, which).target = cmd[a].target /\ Undone(a, which).ref = cmd[a].ref
    BY <1>0 DEF Undone, Command
  <2>2. PICK which \in {"folder", "spec", "clone"} :
            \/ Update(a, Undone(a, which))
            \/ which = "folder" /\ Folder(a) # 0
                  /\ DestroyFolder(a, Undone(a, which), Folder(a), "undo")
            \/ which = "clone" /\ "clone" \in cmd[a].undo
                  /\ DestroyFolder(a, Undone(a, which), Undone(a, which).ref, "undo")
    <3>1. CASE UndoFolder(a)
      BY <3>1 DEF UndoFolder
    <3>2. CASE UndoSpec(a)
      BY <3>2 DEF UndoSpec
    <3>3. CASE UndoClone(a)
      BY <3>3 DEF UndoClone
    <3>4. CASE UndoImage(a)
      BY <3>4 DEF UndoImage
    <3> QED BY <1>11, <3>1, <3>2, <3>3, <3>4
  <2>3. "clone" \in cmd[a].undo => cmd[a].ref # 0
    BY <1>0 DEF Registered
  <2> QED BY <1>1, <2>1, <2>2, <2>3
<1>12. CASE Delete(a)
  <2>1. ASSUME home[a] # 0 PROVE Kept
    <3> DEFINE j == [cmd[a] EXCEPT !.pc = "dropspec", !.target = home[a], !.raised = FALSE]
    <3>1. j.faults = cmd[a].faults /\ j.target = home[a]
      BY <1>0 DEF Command
    <3>2. cmd' = [cmd EXCEPT ![a] = j]
      BY <1>12, <2>1 DEF Delete, Update
    <3> HIDE DEF j
    <3> QED BY <1>0, <2>1, <3>1, <3>2
  <2> QED BY <1>2, <1>12, <2>1 DEF Delete
<1>13. (\E label : Raise(a, label)) => Kept
  BY <1>0 DEF Raise, Update, Command
<1>14. CASE DropSpec(a) \/ GetTags(a) \/ RemoveVm(a)
  BY <1>2, <1>13, <1>14 DEF DropSpec, GetTags, RemoveVm
<1>15. CASE FolderExists(a)
  <2> DEFINE c == [cmd[a] EXCEPT !.raised = TRUE]
  <2>1. c \in Command /\ c.faults = cmd[a].faults /\ c.target = cmd[a].target
    BY <1>0 DEF Command
  <2>2. \/ \E label : Goto(a, label)
        \/ DestroyFolder(a, cmd[a], cmd[a].target, "unlock")
        \/ DestroyFolder(a, c, cmd[a].target, "unlock")
    BY <1>15 DEF FolderExists
  <2> HIDE DEF c
  <2> QED BY <1>0, <1>1, <1>2, <2>1, <2>2
<1>16. CASE CheckEmpty(a)
  BY <1>2, <1>13, <1>16 DEF CheckEmpty, Raise
<1> QED BY <1>4, <1>5, <1>6, <1>7, <1>8, <1>9, <1>10, <1>11, <1>12, <1>14, <1>15, <1>16
        DEF Working, Deploying, RollingBack, Deleting

(* One command goes on, the others have their VMs and their folder still.   *)
LEMMA GoingStep ==
    ASSUME IInv, NEW a \in Apps, \A b \in Apps : Going(b, cmd[b]),
           \A b \in Apps \ {a} : cmd'[b] = cmd[b] /\ home'[b] = home[b],
           \A s \in Sandboxes : folder[s] # 0 => folder'[s] = folder[s],
           Going(a, cmd[a])'
    PROVE  \A b \in Apps : Going(b, cmd[b])'
<1> SUFFICES ASSUME NEW b \in Apps, b # a PROVE Going(b, cmd[b])'
  OBVIOUS
<1>1. Going(b, cmd[b]) /\ Registered(b, cmd[b]) /\ SandboxOf[b] \in Sandboxes
  BY CommandSound, Constants
<1>2. Folder(b) # 0 => Folder(b)' = Folder(b)
  BY <1>1 DEF Folder
<1>3. cmd[b].pc \in Preparing => Folder(b) # 0
  BY <1>1 DEF Going, Registered
<1> QED BY <1>1, <1>2, <1>3 DEF Going

LEMMA SmoothStep ==
    ASSUME UniqueNames, IInv, Smooth, [Next]_vars PROVE Smooth'
<1> USE DEF Fetching, Preparing, Cloned
<1> SUFFICES ASSUME Calm', Next PROVE \A a \in Apps : Going(a, cmd[a])'
  <2>1. CASE UNCHANGED vars
    BY <2>1 DEF Smooth, Calm, Going, Folder, vars
  <2> QED BY <2>1 DEF Smooth
<1>1. PICK a \in Apps : Begin(a) \/ Delete(a) \/ Working(a)
  BY DEF Next
<1>2. /\ \A b \in Apps \ {a} : cmd'[b] = cmd[b]
      /\ cmd'[a].faults = cmd[a].faults
      /\ cmd'[a].target = 0 => cmd[a].target = 0
  BY <1>1, TargetStays
<1>3. Calm /\ \A b \in Apps : Going(b, cmd[b])
  BY <1>2 DEF Calm, Smooth
<1> DEFINE c == cmd[a]
<1>4. /\ c \in Command /\ cmd \in [Apps -> Command]
      /\ Registered(a, c) /\ Located(a, c) /\ Going(a, c) /\ c.target = 0 /\ c.faults = {}
      /\ home[a] \in Nat /\ Folder(a) \in Nat /\ made[SandboxOf[a]] \in Nat
      /\ home \in [Apps -> Nat] /\ folder \in [Sandboxes -> Nat] /\ SandboxOf[a] \in Sandboxes
  BY <1>3, CommandSound, Constants DEF IInv, Types, Calm
<1>5. \A call : ~MayRaise(a, call) /\ ~TaskMayFail(a, call)
  BY <1>4 DEF MayRaise, TaskMayFail
<1> HIDE DEF c
<1>6. ASSUME NEW j, Update(a, j), Going(a, j), UNCHANGED <<folders, home>>
      PROVE  \A b \in Apps : Going(b, cmd[b])'
  <2>1. cmd'[a] = j
    BY <1>4, <1>6 DEF Update
  <2>2. Going(a, cmd[a])'
    BY <1>6, <2>1 DEF Going, Folder, folders
  <2> QED BY <1>2, <1>3, <1>6, <2>2, GoingStep DEF folders
<1>7. ASSUME NEW label, Goto(a, label), UNCHANGED <<folders, home>>,
             label \in {"new", "deployed"} \cup Fetching \cup Preparing \cup (Cloned \ {"unclone"}),
             label = "refind" => Folder(a) # 0,
             label \in Preparing => Folder(a) = c.ref,
             label \in Cloned \cup {"deployed"} => home[a] # 0
      PROVE  \A b \in Apps : Going(b, cmd[b])'
  <2> DEFINE j == [c EXCEPT !.pc = label]
  <2>1. Update(a, j)
    BY <1>7 DEF Goto, c
  <2>2. j.pc = label /\ j.ref = c.ref
    BY <1>4 DEF Command
  <2> HIDE DEF j
  <2>3. Going(a, j)
    BY <1>7, <2>2 DEF Going
  <2> QED BY <1>6, <1>7, <2>1, <2>3
<1>8. ASSUME Folder(a) # 0, HaveFolder(a, Folder(a)), UNCHANGED <<folders, home>>
      PROVE  \A b \in Apps : Going(b, cmd[b])'
  <2> DEFINE j == [c EXCEPT !.pc = "tagfolder", !.ref = Folder(a)]
  <2>1. Update(a, j)
    BY <1>8 DEF HaveFolder, c
  <2>2. j.pc = "tagfolder" /\ j.ref = Folder(a)
    BY <1>4 DEF Command
  <2> HIDE DEF j
  <2>3. Going(a, j)
    BY <2>2 DEF Going
  <2> QED BY <1>6, <1>8, <2>1, <2>3
<1>9. CASE Begin(a)
  <2> DEFINE j == [c EXCEPT !.pc = "getfolder", !.undo = {"folder"}]
  <2>1. Update(a, j) /\ UNCHANGED <<folders, home>>
    BY <1>5, <1>9 DEF Begin, c
  <2>2. j.pc = "getfolder"
    BY <1>4 DEF Command
  <2> HIDE DEF j
  <2>3. Going(a, j)
    BY <2>2 DEF Going
  <2> QED BY <1>6, <2>1, <2>3
<1>10. CASE LockFolders(a)
  BY <1>7, <1>10 DEF LockFolders
<1>11. CASE FindFolder(a) \/ FindAgain(a)
  <2>1. At(a, "refind") => Folder(a) # 0
    BY <1>4 DEF Going, At, c
  <2>2. CASE Folder(a) = 0
    <3>1. Goto(a, "mkdir") /\ UNCHANGED <<folders, home>>
      BY <1>11, <2>1, <2>2 DEF FindFolder, FindAgain
    <3> QED BY <1>7, <3>1
  <2>3. CASE Folder(a) # 0
    BY <1>8, <1>11, <2>3 DEF FindFolder, FindAgain
  <2> QED BY <2>2, <2>3
<1>12. CASE MakeFolder(a)
  <2>1. CASE Folder(a) # 0
    <3>1. Goto(a, "refind") /\ UNCHANGED <<folders, home>>
      BY <1>12, <2>1 DEF MakeFolder, Folder
    <3> QED BY <1>7, <2>1, <3>1
  <2>2. CASE Folder(a) = 0
    <3> DEFINE new == made[SandboxOf[a]] + 1
               j == [c EXCEPT !.pc = "tagfolder", !.ref = new]
    <3>1. /\ folder' = [folder EXCEPT ![SandboxOf[a]] = new] /\ home' = home
          /\ HaveFolder(a, new)
      BY <1>12, <2>2 DEF MakeFolder, Folder
    <3> HIDE DEF new
    <3>2. cmd' = [cmd EXCEPT ![a] = j]
      BY <3>1 DEF HaveFolder, Update, c
    <3>3. j.pc = "tagfolder" /\ j.ref = new
      BY <1>4 DEF Command
    <3> HIDE DEF j
    <3>4. cmd'[a] = j /\ Folder(a)' = new
      BY <1>4, <3>1, <3>2 DEF Folder
    <3>5. Going(a, cmd[a])'
      BY <3>3, <3>4 DEF Going
    <3>6. \A s \in Sandboxes : folder[s] # 0 => folder'[s] = folder[s]
      BY <1>4, <2>2, <3>1 DEF Folder
    <3> QED BY <1>2, <1>3, <3>1, <3>5, <3>6, GoingStep
  <2> QED BY <2>1, <2>2
<1>13. ASSUME NEW d, NEW label, UnlessCancelled(a, d, label)
       PROVE  Update(a, [d EXCEPT !.pc = label])
  BY <1>5, <1>13 DEF UnlessCancelled
<1>14. CASE TagFolder(a)
  <2> DEFINE label == IF a \in Image THEN "clone" ELSE "spec"
  <2>1. Goto(a, label) /\ UNCHANGED <<folders, home>> /\ c.pc = "tagfolder"
    BY <1>5, <1>13, <1>14 DEF TagFolder, Goto, At, c
  <2>2. label \in {"clone", "spec"}
    OBVIOUS
  <2> HIDE DEF label
  <2>3. Folder(a) = c.ref
    BY <1>4, <2>1 DEF Going
  <2> QED BY <1>7, <2>1, <2>2, <2>3
<1>15. CASE PrepareSpec(a)
  <2> DEFINE d == [c EXCEPT !.undo = @ \cup {"spec"}]
             j == [d EXCEPT !.pc = "clone"]
  <2>1. c.pc = "spec" /\ UNCHANGED <<folders, home>>
    BY <1>15 DEF PrepareSpec, At, c
  <2>2. NameOf[a] \notin specs
    <3>1. c.undo = {"folder"}
      BY <1>4, <2>1 DEF Registered
    <3> QED BY <3>1, UniqueNames DEF IInv, SpecsOwned, UniqueNames, c
  <2>3. Update(a, j)
    BY <1>4, <1>5, <1>13, <1>15, <2>2 DEF PrepareSpec, c
  <2>4. j.pc = "clone" /\ j.ref = c.ref
    BY <1>4 DEF Command
  <2> HIDE DEF j
  <2>5. Going(a, j)
    BY <1>4, <2>1, <2>4 DEF Going
  <2> QED BY <1>6, <2>1, <2>3, <2>5
<1>16. ~CloneFails(a) /\ ~NoSnapshot(a)
  <2>1. At(a, "clone") => Folder(a) # 0 /\ Folder(a) = c.ref
    BY <1>4 DEF At, Going, Registered, c
  <2>2. ~CloneFails(a)
    <3>1. ASSUME CloneFails(a) PROVE At(a, "clone") /\ (Folder(a) = 0 \/ Folder(a) # c.ref)
      <4> DEFINE d == [c EXCEPT !.undo = @ \cup {"clone"}]
      <4>1. d.ref = c.ref
        BY <1>4 DEF Command
      <4> QED BY <1>5, <3>1, <4>1 DEF CloneFails, c
    <3> QED BY <2>1, <3>1
  <2>3. ~NoSnapshot(a)
    BY <1>4 DEF NoSnapshot, c
  <2> QED BY <2>2, <2>3
<1>17. CASE CloneVm(a)
  <2> DEFINE label == IF a \in Image THEN "locate" ELSE "reconfigure"
             j == [c EXCEPT !.pc = label, !.undo = @ \cup {"clone"}]
  <2>1. /\ Folder(a) # 0 /\ home' = [home EXCEPT ![a] = Folder(a)] /\ folder' = folder
        /\ cmd' = [cmd EXCEPT ![a] = j]
    BY <1>17 DEF CloneVm, Update, folders, c
  <2>2. label \in {"locate", "reconfigure"} /\ j.pc = label
    BY <1>4 DEF Command
  <2> HIDE DEF j, label
  <2>3. cmd'[a] = j /\ home'[a] # 0 /\ \A b \in Apps \ {a} : home'[b] = home[b]
    BY <1>4, <2>1
  <2>4. Going(a, cmd[a])'
    BY <2>2, <2>3 DEF Going
  <2> QED BY <1>2, <1>3, <2>1, <2>3, <2>4, GoingStep
<1>18. CASE Reconfigure(a) \/ Locate(a)
  <2> DEFINE d == [c EXCEPT !.cloned = TRUE]
             j == [d EXCEPT !.pc = "tagvm"]
  <2>1. home[a] # 0 /\ UNCHANGED <<folders, home>>
    BY <1>4, <1>18 DEF Going, Reconfigure, Locate, At, c
  <2>2. Update(a, j)
    BY <1>5, <1>13, <1>18, <2>1 DEF Reconfigure, Locate, c
  <2>3. j.pc = "tagvm"
    BY <1>4 DEF Command
  <2> HIDE DEF j
  <2>4. Going(a, j)
    BY <2>1, <2>3 DEF Going
  <2> QED BY <1>6, <2>1, <2>2, <2>4
<1>19. CASE TagVm(a) \/ Details(a)
  <2>1. home[a] # 0 /\ UNCHANGED <<folders, home>>
    BY <1>4, <1>19 DEF Going, TagVm, Details, At, c
  <2>2. Goto(a, "details") \/ Goto(a, "deployed")
    BY <1>5, <1>19, <2>1 DEF TagVm, Details
  <2> QED BY <1>7, <2>1, <2>2
<1>20. ~Delete(a)
  <2>1. SUFFICES ASSUME Delete(a) PROVE FALSE
    OBVIOUS
  <2>2. home[a] # 0
    BY <1>4, <2>1 DEF Delete, Going, At, c
  <2> DEFINE j == [c EXCEPT !.pc = "dropspec", !.target = home[a], !.raised = FALSE]
  <2>3. cmd' = [cmd EXCEPT ![a] = j]
    BY <2>1, <2>2 DEF Delete, Update, c
  <2>4. j.target = home[a]
    BY <1>4 DEF Command
  <2> HIDE DEF j
  <2>5. cmd'[a].target # 0
    BY <1>4, <2>2, <2>3, <2>4
  <2> QED BY <2>5 DEF Calm
<1>21. ~Unclone(a) /\ ~RollingBack(a) /\ ~Deleting(a) /\ ~CheckEmpty(a) /\ ~KillFolder(a)
  BY <1>4 DEF Going, Unclone, RollingBack, UndoFolder, UndoSpec, UndoClone, UndoImage, RolledBack,
              Deleting, DropSpec, GetTags, RemoveVm, LockDeletion, FolderExists, UnlockDeletion,
              CheckEmpty, KillFolder, At, c
<1> QED
  BY <1>1, <1>9, <1>10, <1>11, <1>12, <1>14, <1>15, <1>16, <1>17, <1>18, <1>19, <1>20, <1>21
  DEF Working, Deploying
-----------------------------------------------------------------------------
(* A deploy that was rolled back has left neither VM nor spec, whichever    *)
(* call raised and whatever the others did meanwhile (the rollback() of the *)
(* commands, clone_vm.py:66-70, base_flow.py:215-227).                     *)
THEOREM FailedLeavesNothing ==
    ASSUME UniqueNames, LookupSucceeds
    PROVE  Spec => []FailedDeployLeavesNothing
<1>1. IInv => FailedDeployLeavesNothing
  <2> SUFFICES ASSUME IInv, NEW a \in Apps, At(a, "failed"), cmd[a].undo = {}
               PROVE  home[a] = 0 /\ NameOf[a] \notin specs
    BY DEF FailedDeployLeavesNothing
  <2>1. ~Lost(a, cmd[a])
    BY LookupSucceeds DEF IInv, FaultsGiven, Lost, LookupSucceeds
  <2>2. Located(a, cmd[a])
    BY CommandSound
  <2>3. NameOf[a] \notin specs
    BY UniqueNames DEF IInv, SpecsOwned, UniqueNames
  <2> QED BY <2>1, <2>2, <2>3 DEF Located
<1> QED BY <1>1, AlwaysInv, PTL

(* A deletion that is over has removed the VM, also when it has failed at   *)
(* the spec or at the tags (delete_instance.py:62-83).                     *)
THEOREM DeletionRemovesVm ==
    ASSUME PowerOffSucceeds PROVE Spec => []DeleteRemovesVm
<1>1. IInv => DeleteRemovesVm
  <2> SUFFICES ASSUME IInv, NEW a \in Apps, cmd[a].pc \in {"deleted", "delete_failed"}
               PROVE  home[a] = 0
    BY DEF DeleteRemovesVm
  <2>1. "power" \notin cmd[a].faults
    BY PowerOffSucceeds DEF IInv, FaultsGiven, PowerOffSucceeds
  <2>2. Located(a, cmd[a])
    BY CommandSound
  <2> QED BY <2>1, <2>2 DEF Located, Removed
<1> QED BY <1>1, AlwaysInv, PTL

(* When every command is over, and none that leaves the folder to another,  *)
(* a folder that is left has a VM in it (folder_handler.py destroy in every *)
(* rollback, delete_instance.py:85-100).                                   *)
THEOREM LastLeavesNoFolder == Spec => []NoEmptyFolder
<1>1. IInv => NoEmptyFolder
  <2> SUFFICES ASSUME IInv, \A a \in Apps : AtRest(a), \A a \in Image : ~At(a, "failed"),
                      NEW s \in Sandboxes, folder[s] # 0, IsEmpty(s)
               PROVE  FALSE
    BY DEF NoEmptyFolder
  <2>1. PICK a \in Apps : Responsible(a, cmd[a])
    BY DEF IInv, Watched
  <2>2. cmd[a].pc \in {"new", "refused", "failed", "deployed", "deleted"}
    BY DEF AtRest
  <2> QED BY <2>1, <2>2 DEF Responsible, Returning, At, Fetching, Preparing, Destroying
<1> QED BY <1>1, AlwaysInv, PTL

(* Where nothing raises and nothing is deleted, no deploy fails because of  *)
(* another one (get_or_create_child catches DuplicateName).                *)
THEOREM DeploysSucceed ==
    ASSUME UniqueNames PROVE Spec => []ConcurrentDeploysSucceed
<1>1. Init => Smooth
  <2> SUFFICES ASSUME Init, NEW a \in Apps PROVE Going(a, cmd[a])
    BY DEF Smooth
  <2>1. cmd[a].pc = "new"
    BY DEF Init
  <2> QED BY <2>1 DEF Going, Fetching, Preparing, Cloned
<1>2. IInv /\ Smooth /\ [Next]_vars => Smooth'
  BY SmoothStep, UniqueNames
<1>3. Smooth => ConcurrentDeploysSucceed
  BY DEF Smooth, Calm, Going, ConcurrentDeploysSucceed, Fetching, Preparing, Cloned
<1> QED BY <1>1, <1>2, <1>3, AlwaysInv, PTL DEF Spec
=============================================================================
