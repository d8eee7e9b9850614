------------------------------ MODULE Snapshots ------------------------------
(***************************************************************************)
(* flows/snapshots.py, handlers/snapshot_handler.py, the snapshot methods  *)
(* of handlers/vm_handler.py and the snapshot list of the attribute hints: *)
(* the snapshots of one VM, which commands know by their paths only.  The  *)
(* tree and the current snapshot are vCenter's (external).                 *)
(*                                                                         *)
(* A name is a sequence of the parts that "/" separates, a path of         *)
(* snapshots joined by "/" the concatenation of their names (VcenterPath). *)
(* Snapshots are numbered as they are made, which is their order in a list.*)
(***************************************************************************)
EXTENDS Integers, Sequences

CONSTANTS Cmds,
          Asks      \* what each command may ask for

Kinds == {"create", "list", "restore", "remove"}
(* No name begins or ends with "/", which VcenterPath would strip.          *)
IsName(n) == n \in Seq(STRING) \ {<<>>} /\ n[1] # "" /\ n[Len(n)] # ""
AsksAssumption ==
    \A c \in Cmds : \A r \in Asks[c] :
        r.do \in Kinds /\ (r.do = "create" => IsName(r.name))

VARIABLES
    snaps,      \* vCenter: name and parent (0: none) of each snapshot
    made,       \* vCenter: snapshots ever made
    current,    \* vCenter: the snapshot the VM runs on, 0: none
    job,        \* per command: its locals
    tangled     \* history: commands overlapped, or a removal kept children

vars == <<snaps, made, current, job, tangled>>
vm == <<snaps, made, current>>
Over == {"done", "failed"}

Init ==
    /\ \/ snaps = <<>> /\ made = 0 /\ current = 0
       \/ /\ snaps = <<[name |-> <<"a">>, parent |-> 0], [name |-> <<"b">>, parent |-> 1]>>
          /\ made = 2
          /\ current \in 1 .. 2
    /\ job = [c \in Cmds |-> [pc |-> "new", ask |-> [do |-> "list"], path |-> <<>>,
                              snap |-> 0, tree |-> <<>>, hints |-> <<>>]]
    /\ tangled = FALSE

At(c, label) == job[c].pc = label
Update(c, j) == job' = [job EXCEPT ![c] = j]
Goto(c, label) == Update(c, [job[c] EXCEPT !.pc = label])

(* _get_snapshot_path and the paths of yield_vm_snapshots.                 *)
Path(tree) ==
    LET p[s \in DOMAIN tree] ==
            IF tree[s].parent = 0 THEN tree[s].name ELSE p[tree[s].parent] \o tree[s].name
    IN  p

Children(tree, s) == {t \in DOMAIN tree : tree[t].parent = s}
AtPath(p) == {s \in DOMAIN snaps : Path(snaps)[s] = p}
Under(tree, s) ==     \* the subtree of s
    LET inside[t \in DOMAIN tree] ==
            t = s \/ (tree[t].parent # 0 /\ inside[tree[t].parent])
    IN  {t \in DOMAIN tree : inside[t]}

(* A path that the caller has been told, or one that nothing has.          *)
KnownPaths == {Path(snaps)[s] : s \in DOMAIN snaps} \cup {<<"?">>}

Begin(c) ==
    \E r \in Asks[c], p \in KnownPaths :
        /\ At(c, "new")
        /\ r.do \in {"create", "list"} => p = <<"?">>
        /\ Update(c, [job[c] EXCEPT !.ask = r, !.path = p,
                                    !.pc = CASE r.do = "create" -> "look"
                                             [] r.do = "list" -> "list"
                                             [] OTHER -> "find"])
        /\ tangled' = (tangled \/ \E d \in Cmds : job[d].pc \notin {"new"} \cup Over)
        /\ UNCHANGED vm

(* Fault: the path is the name. *)
NewPathIsName(name) == name
NewPath(name) == IF current = 0 THEN name ELSE Path(snaps)[current] \o name

(* Fault: names in use are not looked for. *)
LookUnchecked(c) ==
    /\ At(c, "look")
    /\ IF DOMAIN snaps # {} /\ current = 0 THEN Goto(c, "failed")
       ELSE Update(c, [job[c] EXCEPT !.pc = "take", !.path = NewPath(job[c].ask.name)])
    /\ UNCHANGED <<vm, tangled>>

(* create_snapshot: DuplicatedSnapshotName; with snapshots but no current  *)
(* one the handler wraps None, which has no path: AttributeError.          *)
Look(c) ==
    LET p == NewPath(job[c].ask.name) IN
    /\ At(c, "look")
    /\ IF DOMAIN snaps # {} /\ (current = 0 \/ AtPath(p) # {}) THEN Goto(c, "failed")
       ELSE Update(c, [job[c] EXCEPT !.pc = "take", !.path = p])
    /\ UNCHANGED <<vm, tangled>>

(* The task puts the new snapshot under what is current by now, or fails:  *)
(* quiescing the guest may.                                                *)
Take(c) ==
    /\ At(c, "take")
    /\ \/ /\ made' = made + 1
          /\ snaps' = [s \in DOMAIN snaps \cup {made + 1} |->
                          IF s \in DOMAIN snaps THEN snaps[s]
                          ELSE [name |-> job[c].ask.name, parent |-> current]]
          /\ current' = made + 1
          /\ Update(c, [job[c] EXCEPT !.pc = "done", !.snap = made + 1])
       \/ Goto(c, "failed") /\ UNCHANGED vm
    /\ UNCHANGED tangled

(* get_snapshot_by_path: the first in the list, or SnapshotNotFoundByPath. *)
Find(c) ==
    /\ At(c, "find")
    /\ IF AtPath(job[c].path) = {} THEN Goto(c, "failed")
       ELSE \E s \in AtPath(job[c].path) :
                Update(c, [job[c] EXCEPT !.pc = job[c].ask.do, !.snap = s])
    /\ UNCHANGED <<vm, tangled>>

(* RevertToSnapshot_Task *)
Restore(c) ==
    /\ At(c, "restore")
    /\ IF job[c].snap \in DOMAIN snaps
       THEN current' = job[c].snap /\ Goto(c, "done")
       ELSE Goto(c, "failed") /\ UNCHANGED current
    /\ UNCHANGED <<snaps, made, tangled>>

(* RemoveSnapshot_Task: the children go too, or move up to the parent.     *)
Remove(c) ==
    LET s == job[c].snap
        gone == IF job[c].ask.children THEN Under(snaps, s) ELSE {s}
    IN
    /\ At(c, "remove")
    /\ IF s \in DOMAIN snaps
       THEN /\ snaps' = [t \in DOMAIN snaps \ gone |->
                            IF snaps[t].parent = s
                            THEN [snaps[t] EXCEPT !.parent = snaps[s].parent] ELSE snaps[t]]
            /\ current' = IF current \in gone THEN snaps[s].parent ELSE current
            /\ Goto(c, "done")
            /\ tangled' = (tangled \/ (Children(snaps, s) # {} /\ ~job[c].ask.children))
       ELSE Goto(c, "failed") /\ UNCHANGED <<snaps, current, tangled>>
    /\ UNCHANGED made

(* _get_snapshot_list, the hints for a snapshot attribute, with "/" spelled*)
(* out: siblings share the variable the path is built in.                  *)
Spelled(path) ==
    [i \in 1 .. 2 * Len(path) - 1 |-> IF i % 2 = 1 THEN path[(i + 1) \div 2] ELSE "/"]

ElderSiblings(tree, s) == {t \in Children(tree, tree[s].parent) : t < s}

(* Fault: "/" is never added. *)
HintsUnslashed(tree) ==
    LET h[s \in DOMAIN tree] ==
            IF tree[s].parent = 0 THEN Spelled(tree[s].name)
            ELSE h[tree[s].parent] \o Spelled(tree[s].name)
    IN  h

Hints(tree) ==
    LET h[s \in DOMAIN tree] ==
            LET elder == ElderSiblings(tree, s)
                last == CHOOSE t \in elder : \A u \in elder : u <= t
                prefix == CASE elder # {} /\ Children(tree, last) # {} -> h[last] \o <<"/">>
                            [] elder # {} /\ Children(tree, last) = {} -> h[last]
                            [] elder = {} /\ tree[s].parent # 0 -> h[tree[s].parent] \o <<"/">>
                            [] OTHER -> <<>>
            IN  prefix \o Spelled(tree[s].name)
    IN  h

ListHints(c) ==
    /\ At(c, "list")
    /\ Update(c, [job[c] EXCEPT !.pc = "done", !.tree = snaps, !.hints = Hints(snaps)])
    /\ UNCHANGED <<vm, tangled>>

Working(c) ==
    \/ Look(c)
    \/ Take(c)
    \/ Find(c)
    \/ Restore(c)
    \/ Remove(c)
    \/ ListHints(c)

Next == \E c \in Cmds : Begin(c) \/ Working(c)
Fairness == \A c \in Cmds : WF_vars(Working(c))
Spec == Init /\ [][Next]_vars /\ Fairness

-----------------------------------------------------------------------------
\* The path that save_snapshot returns is the path of the snapshot it made and
\* of no other, so restoring from it restores that snapshot, until one above
\* it is removed while its children stay or two commands overlap
\* (vm_handler.py:351-377, snapshot_handler.py:51-56).
PathFindsSnapshot ==
    \A c \in Cmds :
        /\ ~tangled
        /\ At(c, "done") /\ job[c].ask.do = "create"
        /\ job[c].snap \in DOMAIN snaps
        => AtPath(job[c].path) = {job[c].snap}

\* A snapshot's hint is the path that the commands accept for it exactly if
\* neither it nor one above it comes after a sibling
\* (attribute_hints.py:264-278).
HintsOfChain ==
    \A c \in Cmds :
        LET tree == job[c].tree IN
        \A s \in DOMAIN tree :
            job[c].hints[s] = Spelled(Path(tree)[s])
                <=> \A t \in DOMAIN tree :
                        s \in Under(tree, t) => ElderSiblings(tree, t) = {}
=============================================================================
