--------------------------- MODULE SaveAppsProofs ---------------------------
(***************************************************************************)
(* Proofs about SaveApps for any commands, VMs and requests: the folder of *)
(* a saved sandbox does not outlive its last app, though each command looks*)
(* into it by itself and may find another's app there; and a VM is powered *)
(* after its save as it was before.                                        *)
(***************************************************************************)
EXTENDS SaveApps, TLAPS

IsJob(j) ==
    j \in [pc : {j.pc}, ask : {j.ask}, ref : {j.ref}, was : {j.was}, on : {j.on},
           shared : {j.shared}, raised : BOOLEAN]

Types ==
    /\ job = [c \in Cmds |-> job[c]]
    /\ \A c \in Cmds : IsJob(job[c])

(* c still has the folder to look at, or it has raised.                    *)
Responsible(c) ==
    \/ job[c].raised
    \/ At(c, "empty")
    \/ job[c].ref = folder /\ job[c].pc \in {"look", "poweroff", "clone", "check", "kill"}

Watched == folder # 0 /\ clones = {} => \E c \in Cmds : Responsible(c)

IInv == Types /\ Watched

LEMMA InitInv == Init => IInv
<1> SUFFICES ASSUME Init PROVE IInv
  OBVIOUS
<1>1. ASSUME NEW c \in Cmds PROVE IsJob(job[c])
  <2>1. job[c] = [pc |-> "new", ask |-> [do |-> "delete"], ref |-> 0, was |-> FALSE,
                  on |-> FALSE, shared |-> FALSE, raised |-> FALSE]
    BY DEF Init
  <2> QED BY <2>1 DEF IsJob
<1>2. job = [c \in Cmds |-> job[c]] /\ folder = 0
  BY DEF Init
<1> QED BY <1>1, <1>2 DEF IInv, Types, Watched

(* What a step of c does to its own locals.                                *)
LEMMA UpdateTypes ==
    ASSUME IInv, NEW c \in Cmds, NEW j, IsJob(j), Update(c, j)
    PROVE  Types' /\ job'[c] = j /\ \A d \in Cmds \ {c} : job'[d] = job[d]
<1>1. job'[c] = j /\ \A d \in Cmds \ {c} : job'[d] = job[d]
  BY DEF Update, IInv, Types
<1>2. job' = [d \in Cmds |-> job'[d]]
  BY DEF Update, IInv, Types
<1>3. \A d \in Cmds : IsJob(job'[d])
  BY <1>1 DEF IInv, Types
<1>4. (\A d \in Cmds : IsJob(job[d]))'
  BY <1>3 DEF IsJob
<1> QED BY <1>1, <1>2, <1>4 DEF Types

LEMMA GotoTypes ==
    ASSUME IInv, NEW c \in Cmds, NEW label, Goto(c, label)
    PROVE  /\ Types'
           /\ job'[c].pc = label /\ job'[c].ref = job[c].ref /\ job'[c].raised = job[c].raised
           /\ \A d \in Cmds \ {c} : job'[d] = job[d]
<1> DEFINE j == [job[c] EXCEPT !.pc = label]
<1>1. IsJob(job[c])
  BY DEF IInv, Types
<1>2. IsJob(j) /\ j.pc = label /\ j.ref = job[c].ref /\ j.raised = job[c].raised
  BY <1>1 DEF IsJob
<1>3. Update(c, j)
  BY DEF Goto
<1> HIDE DEF j
<1> QED BY <1>2, <1>3, UpdateTypes

(* The folder stays watched if whoever steps does not give it up, or if     *)
(* there is an app in it.                                                  *)
LEMMA WatchKept ==
    ASSUME IInv, Types', NEW c \in Cmds, folder' = folder, clones' = clones,
           \A d \in Cmds \ {c} : job'[d] = job[d],
           Responsible(c) /\ folder # 0 /\ clones = {} => Responsible(c)'
    PROVE  IInv'
<1>1. ASSUME NEW d \in Cmds, Responsible(d), folder # 0, clones = {} PROVE Responsible(d)'
  <2>1. CASE d = c
    BY <1>1, <2>1
  <2>2. CASE d # c
    BY <1>1, <2>2 DEF Responsible, At
  <2> QED BY <2>1, <2>2
<1> QED BY <1>1 DEF IInv, Watched

(* The same for a command that only goes on.                               *)
LEMMA GoesOn ==
    ASSUME IInv, NEW c \in Cmds, NEW label, Goto(c, label), folder' = folder, clones' = clones,
           job[c].pc # "empty",
           (job[c].pc \in {"look", "poweroff", "clone", "check", "kill"}
                /\ job[c].ref = folder /\ clones = {})
              => label \in {"look", "poweroff", "clone", "check", "kill"}
    PROVE  IInv'
<1>1. /\ Types'
      /\ job'[c].pc = label /\ job'[c].ref = job[c].ref /\ job'[c].raised = job[c].raised
      /\ \A d \in Cmds \ {c} : job'[d] = job[d]
  BY GotoTypes
<1>2. Responsible(c) /\ clones = {} => Responsible(c)'
  BY <1>1 DEF Responsible, At
<1> QED BY <1>1, <1>2, WatchKept

LEMMA StepInv == IInv /\ [Next]_vars => IInv'
<1> SUFFICES ASSUME IInv, [Next]_vars PROVE IInv'
  OBVIOUS
<1>t. Types
  BY DEF IInv
<1>1. ASSUME NEW c \in Cmds, Begin(c) PROVE IInv'
  <2>1. PICK r \in Asks[c], others \in SUBSET Cmds :
           job' = [d \in Cmds |->
              IF d = c
              THEN [job[c] EXCEPT !.ask = r, !.shared = others # {},
                                  !.pc = IF r.do = "save" THEN "folder" ELSE "find",
                                  !.on = IF r.do = "save" THEN power[r.vm] ELSE FALSE]
              ELSE IF d \in others THEN [job[d] EXCEPT !.shared = TRUE] ELSE job[d]]
    BY <1>1 DEF Begin
  <2>2. UNCHANGED <<folder, clones>> /\ job[c].pc = "new"
    BY <1>1 DEF Begin, At, folders
  <2>3. ASSUME NEW d \in Cmds
        PROVE  /\ IsJob(job'[d])
               /\ job'[d].raised = job[d].raised /\ job'[d].ref = job[d].ref
               /\ d # c => job'[d].pc = job[d].pc
    <3>1. IsJob(job[d])
      BY <1>t DEF Types
    <3>2. CASE d = c
      <4> DEFINE label == IF r.do = "save" THEN "folder" ELSE "find"
                 on == IF r.do = "save" THEN power[r.vm] ELSE FALSE
                 shared == others # {}
      <4>1. job'[d] = [job[d] EXCEPT !.ask = r, !.shared = shared, !.pc = label, !.on = on]
        BY <2>1, <3>2
      <4> HIDE DEF label, on, shared
      <4> QED BY <3>1, <3>2, <4>1 DEF IsJob
    <3>3. CASE d # c
      <4>1. job'[d] = IF d \in others THEN [job[d] EXCEPT !.shared = TRUE] ELSE job[d]
        BY <2>1, <3>3
      <4> QED BY <3>1, <3>3, <4>1 DEF IsJob
    <3> QED BY <3>2, <3>3
  <2>4. (\A d \in Cmds : IsJob(job[d]))'
    BY <2>3 DEF IsJob
  <2>5. Types'
    BY <2>1, <2>4 DEF Types
  <2>6. \A d \in Cmds : Responsible(d) => Responsible(d)'
    BY <2>2, <2>3 DEF Responsible, At
  <2> QED BY <2>2, <2>5, <2>6 DEF IInv, Watched
<1>2. ASSUME NEW c \in Cmds, Raise(c) PROVE IInv'
  <2> DEFINE j == [job[c] EXCEPT !.pc = "failed", !.raised = TRUE]
  <2>1. Update(c, j) /\ folder' = folder /\ clones' = clones
    BY <1>2 DEF Raise, folders
  <2>2. IsJob(job[c])
    BY <1>t DEF Types
  <2>3. IsJob(j) /\ j.raised
    BY <2>2 DEF IsJob
  <2> HIDE DEF j
  <2>4. Types' /\ job'[c] = j /\ \A d \in Cmds \ {c} : job'[d] = job[d]
    BY <2>1, <2>3, UpdateTypes
  <2>5. Responsible(c)'
    BY <2>3, <2>4 DEF Responsible
  <2> QED BY <2>1, <2>4, <2>5, WatchKept
<1>3. ASSUME NEW c \in Cmds, PrepareFolder(c) PROVE IInv'
  <2> DEFINE j == [job[c] EXCEPT !.ref = folder',
                                 !.pc = IF job[c].ask.off THEN "look" ELSE "clone"]
  <2>1. Update(c, j) /\ clones' = clones
    BY <1>3 DEF PrepareFolder
  <2>2. IsJob(job[c])
    BY <1>t DEF Types
  <2>3. IsJob(j) /\ j.ref = folder' /\ j.pc \in {"look", "clone"}
    BY <2>2 DEF IsJob
  <2> HIDE DEF j
  <2>4. Types' /\ job'[c] = j
    BY <2>1, <2>3, UpdateTypes
  <2>5. Responsible(c)'
    BY <2>3, <2>4 DEF Responsible
  <2> QED BY <2>4, <2>5 DEF IInv, Watched
<1>4. ASSUME NEW c \in Cmds, ReadPower(c) PROVE IInv'
  <2> DEFINE j == [job[c] EXCEPT !.was = power[job[c].ask.vm], !.pc = "poweroff"]
  <2>1. Update(c, j) /\ folder' = folder /\ clones' = clones /\ job[c].pc = "look"
    BY <1>4 DEF ReadPower, folders, At
  <2>2. IsJob(job[c])
    BY <1>t DEF Types
  <2>3. IsJob(j) /\ j.pc = "poweroff" /\ j.ref = job[c].ref /\ j.raised = job[c].raised
    BY <2>2 DEF IsJob
  <2> HIDE DEF j
  <2>4. Types' /\ job'[c] = j /\ \A d \in Cmds \ {c} : job'[d] = job[d]
    BY <2>1, <2>3, UpdateTypes
  <2>5. Responsible(c) => Responsible(c)'
    BY <2>1, <2>3, <2>4 DEF Responsible, At
  <2> QED BY <2>1, <2>4, <2>5, WatchKept
<1>5. ASSUME NEW c \in Cmds, PowerOff(c) PROVE IInv'
  <2>1. Goto(c, "clone") /\ folder' = folder /\ clones' = clones /\ job[c].pc = "poweroff"
    BY <1>5 DEF PowerOff, folders, At
  <2> QED BY <2>1, GoesOn
<1>6. ASSUME NEW c \in Cmds, Clone(c) PROVE IInv'
  <2>1. Goto(c, "vnics") /\ clones' = clones \cup {c}
    BY <1>6 DEF Clone
  <2>2. Types'
    BY <2>1, GotoTypes
  <2> QED BY <2>1, <2>2 DEF IInv, Watched
<1>7. ASSUME NEW c \in Cmds, CloneFails(c) PROVE IInv'
  <2>1. Goto(c, "check") /\ folder' = folder /\ clones' = clones /\ job[c].pc = "clone"
    BY <1>7 DEF CloneFails, folders, At
  <2> QED BY <2>1, GoesOn
<1>8. ASSUME NEW c \in Cmds, Finish(c) \/ RestorePower(c) \/ PrepareResult(c) \/ FindSaved(c)
      PROVE  IInv'
  <2>1. PICK label : Goto(c, label)
    BY <1>8 DEF Finish, RestorePower, PrepareResult, FindSaved
  <2>2. /\ folder' = folder /\ clones' = clones
        /\ job[c].pc \in {"vnics", "snapshot", "restore", "result", "find"}
    BY <1>8 DEF Finish, RestorePower, PrepareResult, FindSaved, folders, At
  <2>3. job[c].pc \notin {"empty", "look", "poweroff", "clone", "check", "kill"}
    BY <2>2
  <2> QED BY <2>1, <2>2, <2>3, GoesOn
<1>9. ASSUME NEW c \in Cmds, DeleteSaved(c) PROVE IInv'
  <2>1. /\ clones' = clones \ {job[c].ask.save} /\ folder' = folder /\ job[c].pc = "delete"
        /\ Goto(c, IF Exists(job[c].ask.save) THEN "empty" ELSE "failed")
    BY <1>9 DEF DeleteSaved, folders, At
  <2>2. CASE Exists(job[c].ask.save)
    <3>1. Types' /\ job'[c].pc = "empty"
      BY <2>1, <2>2, GotoTypes
    <3> QED BY <3>1 DEF IInv, Watched, Responsible, At
  <2>3. CASE ~Exists(job[c].ask.save)
    <3>1. clones' = clones
      BY <2>1, <2>3 DEF Exists
    <3>2. Goto(c, "failed")
      BY <2>1, <2>3
    <3>3. job[c].pc \notin {"empty", "look", "poweroff", "clone", "check", "kill"}
      BY <2>1
    <3> QED BY <2>1, <3>1, <3>2, <3>3, GoesOn
  <2> QED BY <2>2, <2>3
<1>10. ASSUME NEW c \in Cmds, FindFolder(c) PROVE IInv'
  <2> DEFINE j == [job[c] EXCEPT !.ref = folder,
                                 !.pc = IF folder = 0 THEN "done" ELSE "check"]
  <2>1. Update(c, j) /\ folder' = folder /\ clones' = clones
    BY <1>10 DEF FindFolder, folders
  <2>2. IsJob(job[c])
    BY <1>t DEF Types
  <2>3. IsJob(j) /\ j.ref = folder /\ (folder # 0 => j.pc = "check")
    BY <2>2 DEF IsJob
  <2> HIDE DEF j
  <2>4. Types' /\ job'[c] = j /\ \A d \in Cmds \ {c} : job'[d] = job[d]
    BY <2>1, <2>3, UpdateTypes
  <2>5. folder # 0 => Responsible(c)'
    BY <2>1, <2>3, <2>4 DEF Responsible
  <2> QED BY <2>1, <2>4, <2>5, WatchKept
<1>11. ASSUME NEW c \in Cmds, CheckEmpty(c) PROVE IInv'
  <2>1. folder' = folder /\ clones' = clones /\ job[c].pc = "check"
    BY <1>11 DEF CheckEmpty, folders, At
  <2>2. PICK label : Goto(c, label) /\ (job[c].ref = folder /\ clones = {} => label = "kill")
    BY <1>11 DEF CheckEmpty
  <2> QED BY <2>1, <2>2, GoesOn
<1>12. ASSUME NEW c \in Cmds, KillFolder(c) PROVE IInv'
  <2>1. Goto(c, Result(c)) /\ job[c].pc = "kill"
    BY <1>12 DEF KillFolder, At
  <2>2. CASE folder = job[c].ref
    <3>1. folder' = 0
      BY <1>12, <2>2 DEF KillFolder
    <3>2. Types'
      BY <2>1, GotoTypes
    <3> QED BY <3>1, <3>2 DEF IInv, Watched
  <2>3. CASE folder # job[c].ref
    <3>1. folder' = folder /\ clones' = clones
      BY <1>12, <2>3 DEF KillFolder
    <3> QED BY <2>1, <2>3, <3>1, GoesOn
  <2> QED BY <2>2, <2>3
<1>13. CASE UNCHANGED vars
  BY <1>13 DEF vars, IInv, Types, IsJob, Watched, Responsible, At
<1> QED BY <1>1, <1>2, <1>3, <1>4, <1>5, <1>6, <1>7, <1>8, <1>9, <1>10, <1>11, <1>12, <1>13
        DEF Next, Working

LEMMA FolderGone == IInv => NoEmptyFolderLeft
BY DEF IInv, Watched, Responsible, NoEmptyFolderLeft, Active, Over, At

(* When no command is at work and none has raised, there is an app in the   *)
(* folder or there is no folder (save_restore_app.py:254-268,              *)
(* clone_vm.py:58-61).                                                     *)
THEOREM LastOneCleansUp == Spec => []NoEmptyFolderLeft
<1>1. Init => IInv
  BY InitInv
<1>2. IInv /\ [Next]_vars => IInv'
  BY StepInv
<1>3. IInv => NoEmptyFolderLeft
  BY FolderGone
<1> QED BY <1>1, <1>2, <1>3, PTL DEF Spec


-----------------------------------------------------------------------------
(* While a save of a VM is the only one at work on it, it knows how the VM  *)
(* is powered: as it was at first, or off and to be powered on again.       *)

Saving == {"folder", "look", "poweroff", "clone", "vnics", "snapshot", "restore", "result"}
Busy(c, v) == Active(c) /\ Saves(c, v)

Alone(c) ==
    Busy(c, job[c].ask.vm) /\ ~job[c].shared
        => \A d \in Cmds \ {c} : ~Busy(d, job[c].ask.vm)

PowerAsKnown(j, now) ==
    /\ j.pc \in {"folder", "look", "result"} => now = j.on
    /\ j.pc \in {"look", "poweroff"} => j.ask.off
    /\ j.pc = "poweroff" => now = j.on /\ j.was = j.on
    /\ j.pc \in {"clone", "vnics", "snapshot", "restore"} =>
           IF j.ask.off THEN j.was = j.on /\ now = FALSE
           ELSE j.was = FALSE /\ now = j.on

Known(c) ==
    /\ job[c].pc \in {"new", "folder"} => job[c].was = FALSE
    /\ job[c].pc \in Saving =>
          /\ job[c].ask.do = "save" /\ job[c].ask.vm \in Vms /\ job[c].on \in BOOLEAN
          /\ ~job[c].shared => PowerAsKnown(job[c], power[job[c].ask.vm])

PowerKept ==
    /\ power \in [Vms -> BOOLEAN]
    /\ \A c \in Cmds : Known(c) /\ Alone(c)

Steady == IInv /\ PowerKept

Moves(c) == \A d \in Cmds \ {c} : job'[d] = job[d]

(* What a save has asked for and seen at first does not change. *)
Bound(c) ==
    /\ job'[c].ask = job[c].ask /\ job'[c].on = job[c].on
    /\ job'[c].shared = job[c].shared

LEMMA Updated ==
    ASSUME IInv, NEW c \in Cmds, NEW j, Update(c, j)
    PROVE  job'[c] = j /\ Moves(c)
BY DEF IInv, Types, Update, Moves

LEMMA Gone ==
    ASSUME IInv, NEW c \in Cmds, NEW label, Goto(c, label)
    PROVE  /\ job'[c].pc = label /\ job'[c].was = job[c].was
           /\ Bound(c) /\ Moves(c)
<1>1. job'[c] = [job[c] EXCEPT !.pc = label] /\ Moves(c)
  BY Updated DEF Goto
<1>2. IsJob(job[c])
  BY DEF IInv, Types
<1> QED BY <1>1, <1>2 DEF IsJob, Bound

(* A step of c after its beginning may power its own VM. *)
LEMMA OthersKept ==
    ASSUME Steady, NEW c \in Cmds, Moves(c), Bound(c), Active(c),
           power' \in [Vms -> BOOLEAN],
           \A v \in Vms : power'[v] = power[v] \/ Busy(c, v),
           Known(c)'
    PROVE  PowerKept'
<1>1. \A d \in Cmds : \A v : Busy(d, v)' => Busy(d, v)
  BY DEF Moves, Bound, Busy, Active, Saves
<1>2. ASSUME NEW d \in Cmds PROVE Alone(d)'
  <2>1. Alone(d)
    BY DEF Steady, PowerKept
  <2>2. job'[d].ask = job[d].ask /\ job'[d].shared = job[d].shared
    BY DEF Moves, Bound
  <2> QED BY <1>1, <2>1, <2>2 DEF Alone
<1>3. ASSUME NEW d \in Cmds, d # c PROVE Known(d)'
  <2>1. job'[d] = job[d] /\ Known(d) /\ Alone(d)
    BY <1>3 DEF Moves, Steady, PowerKept
  <2> DEFINE v == job[d].ask.vm
  <2>2. ASSUME job[d].pc \in Saving, ~job[d].shared
        PROVE  power'[v] = power[v]
    <3>1. v \in Vms /\ Busy(d, v)
      BY <2>1, <2>2 DEF Known, Busy, Active, Saves, Saving, Over
    <3>2. ~Busy(c, v)
      BY <1>3, <2>1, <2>2, <3>1 DEF Alone
    <3> QED BY <3>1, <3>2
  <2> QED BY <2>1, <2>2 DEF Known
<1> QED BY <1>2, <1>3 DEF PowerKept

(* The same for a step that powers no VM. *)
LEMMA LocalKept ==
    ASSUME Steady, NEW c \in Cmds, Moves(c), Bound(c), Active(c), power' = power,
           Known(c)'
    PROVE  PowerKept'
BY OthersKept DEF Steady, PowerKept

(* A step that leaves a save where its VM is powered as before. *)
LEMMA PhaseKept ==
    ASSUME Steady, NEW c \in Cmds, NEW label, Goto(c, label), Active(c), power' = power,
           label # "new" /\ label # "folder",
           \/ label \notin Saving
           \/ {job[c].pc, label} \subseteq {"clone", "vnics", "snapshot", "restore"}
    PROVE  PowerKept'
<1>1. /\ job'[c].pc = label /\ job'[c].was = job[c].was
      /\ Bound(c) /\ Moves(c)
  BY Gone DEF Steady
<1>2. Known(c)
  BY DEF Steady, PowerKept
<1>3. CASE label \notin Saving
  <2>1. Known(c)'
    BY <1>1, <1>3 DEF Known
  <2> QED BY <1>1, <2>1, LocalKept
<1>4. CASE {job[c].pc, label} \subseteq {"clone", "vnics", "snapshot", "restore"}
  <2>1. job[c].pc \in Saving
    BY <1>4 DEF Saving
  <2>2. PowerAsKnown(job[c], power[job[c].ask.vm])
            => PowerAsKnown(job'[c], power[job[c].ask.vm])
    BY <1>1, <1>4 DEF PowerAsKnown, Bound
  <2>3. Known(c)'
    BY <1>1, <1>2, <1>4, <2>1, <2>2 DEF Known, Bound
  <2> QED BY <1>1, <2>3, LocalKept
<1> QED BY <1>3, <1>4

(* Whoever begins a save that another is at work on marks both. *)
LEMMA BeginKept ==
    ASSUME SavesAssumption, Steady, NEW c \in Cmds, Begin(c)
    PROVE  PowerKept'
<1>1. PICK r \in Asks[c] :
        LET others == {d \in Cmds : r.do = "save" /\ Active(d) /\ Saves(d, r.vm)} IN
        /\ At(c, "new")
        /\ job' = [d \in Cmds |->
              IF d = c
              THEN [job[c] EXCEPT !.ask = r, !.shared = others # {},
                                  !.pc = IF r.do = "save" THEN "folder" ELSE "find",
                                  !.on = IF r.do = "save" THEN power[r.vm] ELSE FALSE]
              ELSE IF d \in others THEN [job[d] EXCEPT !.shared = TRUE] ELSE job[d]]
  BY DEF Begin
<1> DEFINE others == {d \in Cmds : r.do = "save" /\ Busy(d, r.vm)}
           label == IF r.do = "save" THEN "folder" ELSE "find"
           on == IF r.do = "save" THEN power[r.vm] ELSE FALSE
           shared == others # {}
<1>2. power' = power /\ power \in [Vms -> BOOLEAN] /\ job[c].pc = "new"
  BY DEF Begin, Steady, PowerKept, At
<1>3. /\ job'[c] = [job[c] EXCEPT !.ask = r, !.shared = shared, !.pc = label, !.on = on]
      /\ \A d \in Cmds \ {c} :
            job'[d] = IF d \in others THEN [job[d] EXCEPT !.shared = TRUE] ELSE job[d]
  BY <1>1 DEF Busy
<1>4. \A d \in others : r.do = "save" /\ Busy(d, r.vm) /\ d \in Cmds
  OBVIOUS
<1>5. \A d \in Cmds : r.do = "save" /\ Busy(d, r.vm) => d \in others
  OBVIOUS
<1>6. label = IF r.do = "save" THEN "folder" ELSE "find"
  OBVIOUS
<1>7. r.do = "save" => r.vm \in Vms /\ on = power[r.vm]
  BY DEF SavesAssumption
<1>8. shared = (others # {})
  OBVIOUS
<1> HIDE DEF others, label, on, shared
<1>9. /\ job'[c].ask = r /\ job'[c].shared = shared /\ job'[c].pc = label
      /\ job'[c].on = on /\ job'[c].was = job[c].was
  <2>1. IsJob(job[c])
    BY DEF Steady, IInv, Types
  <2> QED BY <1>3, <2>1 DEF IsJob
<1>10. ASSUME NEW d \in Cmds, d # c
       PROVE  /\ job'[d].ask = job[d].ask /\ job'[d].pc = job[d].pc
              /\ job'[d].on = job[d].on /\ job'[d].was = job[d].was
              /\ d \notin others => job'[d].shared = job[d].shared
              /\ d \in others => job'[d].shared = TRUE
  <2>1. IsJob(job[d])
    BY DEF Steady, IInv, Types
  <2> QED BY <1>3, <1>10, <2>1 DEF IsJob
<1>11. ASSUME NEW d \in Cmds PROVE Known(d)'
  <2>1. Known(d)
    BY DEF Steady, PowerKept
  <2>2. CASE d = c
    <3>1. job'[d].pc \in {"folder", "find"} /\ job'[d].was = FALSE
      BY <1>2, <1>6, <1>9, <2>1, <2>2 DEF Known
    <3>2. CASE r.do = "save"
      BY <1>2, <1>6, <1>7, <1>9, <2>2, <3>1, <3>2 DEF Known, PowerAsKnown, Saving
    <3>3. CASE r.do # "save"
      BY <1>6, <1>9, <2>2, <3>1, <3>3 DEF Known, Saving
    <3> QED BY <3>2, <3>3
  <2>3. CASE d # c
    <3>1. PowerAsKnown(job[d], power[job[d].ask.vm])
              => PowerAsKnown(job'[d], power[job[d].ask.vm])
      BY <1>10, <2>3 DEF PowerAsKnown
    <3> QED BY <1>2, <1>10, <2>1, <2>3, <3>1 DEF Known
  <2> QED BY <2>2, <2>3
<1>12. ASSUME NEW d \in Cmds, d # c
       PROVE  \A v : Busy(d, v)' = Busy(d, v)
  BY <1>10, <1>12 DEF Busy, Active, Saves
<1>13. \A v : Busy(c, v)' => r.do = "save" /\ v = r.vm
  BY <1>9 DEF Busy, Saves
<1>14. ASSUME NEW d \in Cmds, Busy(d, job[d].ask.vm)', ~job'[d].shared,
              NEW e \in Cmds \ {d}, Busy(e, job[d].ask.vm)'
       PROVE  FALSE
  <2>1. CASE d = c
    <3>1. r.do = "save" /\ job'[d].ask.vm = r.vm
      BY <1>9, <1>13, <1>14, <2>1
    <3>2. Busy(e, r.vm)
      BY <1>12, <1>14, <2>1, <3>1
    <3> QED BY <1>5, <1>8, <1>9, <1>14, <2>1, <3>1, <3>2
  <2>2. CASE d # c /\ e = c
    <3>1. r.do = "save" /\ job[d].ask.vm = r.vm
      BY <1>10, <1>13, <1>14, <2>2
    <3>2. Busy(d, r.vm)
      <4>1. job'[d].ask.vm = r.vm
        BY <1>10, <2>2, <3>1
      <4> QED BY <1>12, <1>14, <2>2, <4>1
    <3> QED BY <1>5, <1>10, <1>14, <2>2, <3>1, <3>2
  <2>3. CASE d # c /\ e # c
    <3>a. job'[d].ask.vm = job[d].ask.vm
      BY <1>10, <2>3
    <3>b. /\ \A v : Busy(d, v)' = Busy(d, v)
          /\ \A v : Busy(e, v)' = Busy(e, v)
      BY <1>12, <2>3
    <3>1. Busy(d, job[d].ask.vm) /\ Busy(e, job[d].ask.vm)
      BY <1>14, <3>a, <3>b
    <3>2. ~job[d].shared
      BY <1>10, <1>14, <2>3
    <3> QED BY <1>14, <3>1, <3>2 DEF Steady, PowerKept, Alone
  <2> QED BY <2>1, <2>2, <2>3
<1>15. \A d \in Cmds : Alone(d)'
  BY <1>14 DEF Alone
<1> QED BY <1>2, <1>11, <1>15 DEF PowerKept

LEMMA RaiseKept == ASSUME Steady, NEW c \in Cmds, Raise(c) PROVE PowerKept'
<1> DEFINE j == [job[c] EXCEPT !.pc = "failed", !.raised = TRUE]
<1>1. Update(c, j) /\ power' = power /\ Active(c)
  BY DEF Raise, Active, Over
<1>2. job'[c] = j /\ Moves(c)
  BY <1>1, Updated DEF Steady
<1>3. IsJob(job[c])
  BY DEF Steady, IInv, Types
<1>4. Bound(c) /\ job'[c].pc = "failed"
  BY <1>2, <1>3 DEF IsJob, Bound
<1>5. Known(c)'
  BY <1>4 DEF Known, Saving
<1> QED BY <1>1, <1>2, <1>4, <1>5, LocalKept

LEMMA PrepareFolderKept == ASSUME Steady, NEW c \in Cmds, PrepareFolder(c) PROVE PowerKept'
<1> DEFINE label == IF job[c].ask.off THEN "look" ELSE "clone"
           j == [job[c] EXCEPT !.ref = folder', !.pc = label]
<1>1. Update(c, j) /\ power' = power /\ Active(c) /\ job[c].pc = "folder"
  BY DEF PrepareFolder, Active, Over, At
<1>2. job'[c] = j /\ Moves(c)
  BY <1>1, Updated DEF Steady
<1>3. IsJob(job[c])
  BY DEF Steady, IInv, Types
<1>4. Bound(c) /\ job'[c].pc = label /\ job'[c].was = job[c].was
  BY <1>2, <1>3 DEF IsJob, Bound
<1>5. Known(c)
  BY DEF Steady, PowerKept
<1>6. job[c].ask.do = "save" /\ job[c].ask.vm \in Vms /\ job[c].on \in BOOLEAN
  BY <1>1, <1>5 DEF Known, Saving
<1>7. ASSUME ~job[c].shared PROVE PowerAsKnown(job'[c], power[job[c].ask.vm])
  <2>1. power[job[c].ask.vm] = job[c].on /\ job[c].was = FALSE
    BY <1>1, <1>5, <1>7 DEF Known, Saving, PowerAsKnown
  <2> QED BY <1>4, <2>1 DEF PowerAsKnown, Bound
<1>8. Known(c)'
  BY <1>1, <1>4, <1>6, <1>7 DEF Known, Bound
<1> QED BY <1>1, <1>2, <1>4, <1>8, LocalKept

LEMMA ReadPowerKept == ASSUME Steady, NEW c \in Cmds, ReadPower(c) PROVE PowerKept'
<1> DEFINE j == [job[c] EXCEPT !.was = power[job[c].ask.vm], !.pc = "poweroff"]
<1>1. Update(c, j) /\ power' = power /\ Active(c) /\ job[c].pc = "look"
  BY DEF ReadPower, Active, Over, At
<1>2. job'[c] = j /\ Moves(c)
  BY <1>1, Updated DEF Steady
<1>3. IsJob(job[c])
  BY DEF Steady, IInv, Types
<1>4. /\ Bound(c) /\ job'[c].pc = "poweroff"
      /\ job'[c].was = power[job[c].ask.vm]
  BY <1>2, <1>3 DEF IsJob, Bound
<1>5. Known(c)
  BY DEF Steady, PowerKept
<1>6. Known(c)'
  BY <1>1, <1>4, <1>5 DEF Known, Saving, PowerAsKnown, Bound
<1> QED BY <1>1, <1>2, <1>4, <1>6, LocalKept

LEMMA PowerOffKept == ASSUME Steady, NEW c \in Cmds, PowerOff(c) PROVE PowerKept'
<1> DEFINE v == job[c].ask.vm
<1>1. /\ Goto(c, "clone") /\ Active(c) /\ job[c].pc = "poweroff"
      /\ power' = [power EXCEPT ![v] = FALSE]
  BY DEF PowerOff, Active, Over, At
<1>2. /\ job'[c].pc = "clone" /\ job'[c].was = job[c].was
      /\ Bound(c) /\ Moves(c)
  BY <1>1, Gone DEF Steady
<1>3. Known(c) /\ power \in [Vms -> BOOLEAN]
  BY DEF Steady, PowerKept
<1>4. v \in Vms /\ job[c].ask.do = "save"
  BY <1>1, <1>3 DEF Known, Saving
<1>5. /\ power' \in [Vms -> BOOLEAN] /\ power'[v] = FALSE
      /\ \A w \in Vms : power'[w] = power[w] \/ Busy(c, w)
  <2>1. power' \in [Vms -> BOOLEAN] /\ power'[v] = FALSE
    BY <1>1, <1>3, <1>4
  <2>2. ASSUME NEW w \in Vms, w # v PROVE power'[w] = power[w]
    BY <1>1, <1>3, <2>2, Zenon
  <2>3. Busy(c, v)
    BY <1>1, <1>4 DEF Busy, Saves
  <2> QED BY <2>1, <2>2, <2>3
<1>6. Known(c)'
  BY <1>1, <1>2, <1>3, <1>5 DEF Known, Saving, PowerAsKnown, Bound
<1> QED BY <1>1, <1>2, <1>5, <1>6, OthersKept

LEMMA RestorePowerKept == ASSUME Steady, NEW c \in Cmds, RestorePower(c) PROVE PowerKept'
<1> DEFINE v == job[c].ask.vm
<1>1. /\ Goto(c, "result") /\ Active(c) /\ job[c].pc = "restore"
      /\ power' = IF job[c].was THEN [power EXCEPT ![v] = TRUE] ELSE power
  BY DEF RestorePower, Active, Over, At
<1>2. /\ job'[c].pc = "result" /\ job'[c].was = job[c].was
      /\ Bound(c) /\ Moves(c)
  BY <1>1, Gone DEF Steady
<1>3. Known(c) /\ power \in [Vms -> BOOLEAN]
  BY DEF Steady, PowerKept
<1>4. v \in Vms /\ job[c].ask.do = "save" /\ job[c].on \in BOOLEAN
  BY <1>1, <1>3 DEF Known, Saving
<1>5. /\ power' \in [Vms -> BOOLEAN]
      /\ power'[v] = IF job[c].was THEN TRUE ELSE power[v]
      /\ \A w \in Vms : power'[w] = power[w] \/ Busy(c, w)
  BY <1>1, <1>3, <1>4 DEF Busy, Saves
<1>6. ASSUME ~job[c].shared PROVE power'[v] = job[c].on
  <2>1. IF job[c].ask.off THEN job[c].was = job[c].on /\ power[v] = FALSE
        ELSE job[c].was = FALSE /\ power[v] = job[c].on
    BY <1>1, <1>3, <1>6 DEF Known, Saving, PowerAsKnown
  <2> QED BY <1>4, <1>5, <2>1
<1>7. Known(c)'
  BY <1>2, <1>4, <1>6 DEF Known, PowerAsKnown, Bound
<1> QED BY <1>1, <1>2, <1>5, <1>7, OthersKept

LEMMA FindFolderKept == ASSUME Steady, NEW c \in Cmds, FindFolder(c) PROVE PowerKept'
<1> DEFINE label == IF folder = 0 THEN "done" ELSE "check"
           j == [job[c] EXCEPT !.ref = folder, !.pc = label]
<1>1. Update(c, j) /\ power' = power /\ Active(c)
  BY DEF FindFolder, Active, Over, At
<1>2. job'[c] = j /\ Moves(c)
  BY <1>1, Updated DEF Steady
<1>3. IsJob(job[c])
  BY DEF Steady, IInv, Types
<1>4. Bound(c) /\ job'[c].pc \in {"done", "check"}
  BY <1>2, <1>3 DEF IsJob, Bound
<1>5. Known(c)'
  BY <1>4 DEF Known, Saving
<1> QED BY <1>1, <1>2, <1>4, <1>5, LocalKept

LEMMA StepKept == SavesAssumption /\ Steady /\ [Next]_vars => PowerKept'
<1> SUFFICES ASSUME SavesAssumption, Steady, [Next]_vars PROVE PowerKept'
  OBVIOUS
<1>1. ASSUME NEW c \in Cmds, Begin(c) PROVE PowerKept'
  BY <1>1, BeginKept
<1>2. ASSUME NEW c \in Cmds, Clone(c) \/ CloneFails(c) \/ Finish(c) PROVE PowerKept'
  <2>1. PICK label : /\ Goto(c, label)
                     /\ \/ label \in {"vnics", "check"} /\ job[c].pc = "clone"
                        \/ label = "snapshot" /\ job[c].pc = "vnics"
                        \/ label = "restore" /\ job[c].pc = "snapshot"
    BY <1>2 DEF Clone, CloneFails, Finish, At
  <2>2. power' = power /\ Active(c)
    BY <1>2, <2>1 DEF Clone, CloneFails, Finish, Active, Over
  <2>3. /\ label # "new" /\ label # "folder"
        /\ \/ label \notin Saving
           \/ {job[c].pc, label} \subseteq {"clone", "vnics", "snapshot", "restore"}
    BY <2>1 DEF Saving
  <2> QED BY <2>1, <2>2, <2>3, PhaseKept
<1>3. ASSUME NEW c \in Cmds, PrepareResult(c) \/ FindSaved(c) \/ DeleteSaved(c)
                                \/ CheckEmpty(c) \/ KillFolder(c)
      PROVE  PowerKept'
  <2>1. PICK label \in {"done", "failed", "delete", "empty", "kill"} : Goto(c, label)
    BY <1>3 DEF PrepareResult, FindSaved, DeleteSaved, CheckEmpty, KillFolder, Result
  <2>2. power' = power /\ Active(c)
    BY <1>3 DEF PrepareResult, FindSaved, DeleteSaved, CheckEmpty, KillFolder, Active,
                Over, At
  <2>3. label # "new" /\ label # "folder" /\ label \notin Saving
    BY <2>1 DEF Saving
  <2> QED BY <2>1, <2>2, <2>3, PhaseKept
<1>4. CASE UNCHANGED vars
  BY <1>4 DEF vars, Steady, PowerKept, Known, Alone, Busy, Active, Saves
<1> QED BY <1>1, <1>2, <1>3, <1>4, RaiseKept, PrepareFolderKept, ReadPowerKept,
           PowerOffKept, RestorePowerKept, FindFolderKept DEF Next, Working

LEMMA InitKept == Init => PowerKept
<1> SUFFICES ASSUME Init PROVE PowerKept
  OBVIOUS
<1>1. ASSUME NEW c \in Cmds PROVE job[c].pc = "new" /\ job[c].was = FALSE
  BY DEF Init
<1> QED BY <1>1 DEF Init, PowerKept, Known, Alone, Busy, Active, Saving

(* A save that succeeds finds its VM powered as it was.                    *)
RestoresPower ==
    \A c \in Cmds :
        At(c, "result") /\ job'[c].pc = "done" /\ ~job[c].shared
            => power'[job[c].ask.vm] = job[c].on

LEMMA StepRestores == ASSUME Steady, Next PROVE RestoresPower
<1> SUFFICES ASSUME NEW c \in Cmds, At(c, "result"), job'[c].pc = "done", ~job[c].shared
             PROVE  power'[job[c].ask.vm] = job[c].on
  BY DEF RestoresPower
<1>1. power[job[c].ask.vm] = job[c].on
  BY DEF Steady, PowerKept, Known, PowerAsKnown, Saving, At
<1>2. ASSUME NEW d \in Cmds, PowerOff(d) \/ RestorePower(d) PROVE FALSE
  <2>1. PICK label : Goto(d, label) /\ job[d].pc # "result" /\ label # "done"
    BY <1>2 DEF PowerOff, RestorePower, At
  <2>2. d # c
    BY <2>1 DEF At
  <2>3. job'[c] = job[c]
    BY <2>1, <2>2, Gone DEF Steady, Moves
  <2> QED BY <2>3 DEF At
<1>3. power' = power
  BY <1>2 DEF Next, Working, Begin, Raise, PrepareFolder, ReadPower, Clone, CloneFails,
              Finish, PrepareResult, FindSaved, DeleteSaved, FindFolder, CheckEmpty,
              KillFolder
<1> QED BY <1>1, <1>3

LEMMA InitSteady == ASSUME Init PROVE Steady
BY InitInv, InitKept DEF Steady

LEMMA StepSteady == ASSUME SavesAssumption, Steady, [Next]_vars PROVE Steady'
BY StepInv, StepKept DEF Steady

(* The VM of a save that succeeds is powered as it was when the save began, *)
(* whatever other VMs are saved meanwhile (save_restore_app.py:270-280).    *)
THEOREM SavesRestorePower == SavesAssumption => (Spec => PowerRestored)
<1> SUFFICES ASSUME SavesAssumption PROVE Spec => PowerRestored
  OBVIOUS
<1>1. Init => Steady
  BY InitSteady
<1>2. Steady /\ [Next]_vars => Steady'
  BY StepSteady
<1>3. Steady /\ [Next]_vars => [RestoresPower]_vars
  BY StepRestores
<1> QED BY <1>1, <1>2, <1>3, PTL DEF Spec, PowerRestored, RestoresPower
=============================================================================
