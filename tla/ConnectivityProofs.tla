------------------------- MODULE ConnectivityProofs -------------------------
(***************************************************************************)
(* Proofs about Connectivity for any flows, VMs, hosts, networks and        *)
(* requests: its type correctness, the use it makes of network_lock, and    *)
(* what whole commands leave behind.                                       *)
(*                                                                         *)
(* Only the flow that holds a network's lock adds to its port groups, and   *)
(* a flow holds the lock from its look-up to its creation (LockHeld): what  *)
(* the look-up found missing is still missing.  Every action is first       *)
(* reduced to its effect on the lock and the port groups, one of the five   *)
(* kinds below; that these preserve the invariant is proved once.           *)
(*                                                                         *)
(* The rest goes from what a step does to one flow (StepMoves, on top of    *)
(* Steady) to three invariants: who will still look at an unused network    *)
(* (Attended, for NoLeak), what a connect that nobody races has cleared     *)
(* (AllClearing, for ClearedUnlessRaced), and that nothing a connect needs  *)
(* is ever taken from it (Smooth, for ConcurrentConnectsSucceed).           *)
(***************************************************************************)
EXTENDS Connectivity, TLAPS

Creating == {"create", "recreate"}

LockHeld ==
    \A f \in Flows :
        /\ flow[f].pc \in {"pre", "post"} => flow[f].net \in Generated
        /\ flow[f].pc \in PreSteps => /\ flow[f].net \in Generated
                                      /\ flow[f].place \in Places
                                      /\ holder[flow[f].net] = f

IInv == TypeOK /\ LockHeld /\ NoDuplicateCreate

Same(f) == flow'[f].net = flow[f].net /\ flow'[f].place = flow[f].place
Others(f) == \A g \in Flows \ {f} : flow'[g] = flow[g]
Shrinks == \A n \in Generated : pg'[n] \subseteq pg[n]

(* The kinds of steps a flow takes. *)
Enters(f) ==
    /\ flow[f].pc = "pre" /\ flow'[f].pc = "clear"
    /\ flow'[f].net = flow[f].net /\ flow'[f].place \in Places
    /\ holder[flow[f].net] = Nobody
    /\ holder' = [holder EXCEPT ![flow[f].net] = f]
    /\ pg' = pg

Works(f) ==
    /\ flow[f].pc \in PreSteps /\ flow'[f].pc \in PreSteps
    /\ Same(f) /\ holder' = holder /\ Shrinks
    /\ flow'[f].pc \in Creating => flow[f].place \notin pg[flow[f].net]

Adds(f) ==
    /\ flow[f].pc \in Creating /\ flow'[f].pc \in PreSteps \ Creating
    /\ Same(f) /\ holder' = holder
    /\ pg' = [pg EXCEPT ![flow[f].net] = @ \cup {flow[f].place}]

Leaves(f) ==
    /\ flow[f].pc \in PreSteps /\ flow'[f].pc \notin PreSteps
    /\ flow'[f].net = flow[f].net
    /\ holder' = [holder EXCEPT ![flow[f].net] = Nobody]
    /\ pg' = pg

Elsewhere(f) ==
    /\ flow[f].pc \notin PreSteps /\ flow'[f].pc \notin PreSteps
    /\ flow'[f].pc \in {"pre", "post"} => flow'[f].net \in Generated
    /\ holder' = holder /\ Shrinks

Kind(f) == Enters(f) \/ Works(f) \/ Adds(f) \/ Leaves(f) \/ Elsewhere(f)
StepOf(f) == TypeOK' /\ Others(f) /\ Kind(f)

(* A step of one of the kinds preserves the invariant: another flow's lock  *)
(* is on another network, or it is not inside the lock.                     *)
LEMMA KindPreserves ==
    ASSUME IInv, NEW f \in Flows, StepOf(f)
    PROVE  IInv'
<1> USE DEF IInv, StepOf, Others, Same
<1>n. /\ Nobody \notin Flows
      /\ "pre" \notin PreSteps /\ "post" \notin PreSteps /\ "clear" \in PreSteps \ Creating
      /\ Creating \subseteq PreSteps
  BY ConnectivityAssumption DEF PreSteps, Creating
<1>t. /\ pg \in [Generated -> SUBSET Places]
      /\ holder \in [Generated -> Flows \cup {Nobody}]
  BY DEF TypeOK
<1>d. NoDuplicateCreate <=>
        \A g \in Flows : flow[g].pc \in Creating => flow[g].place \notin pg[flow[g].net]
  BY DEF NoDuplicateCreate, Creating
<1>e. NoDuplicateCreate' <=>
        \A g \in Flows : flow'[g].pc \in Creating => flow'[g].place \notin pg'[flow'[g].net]
  BY DEF NoDuplicateCreate, Creating
<1>1. CASE Enters(f)
  <2>1. LockHeld'
    BY <1>1, <1>n, <1>t DEF Enters, LockHeld
  <2>2. NoDuplicateCreate'
    BY <1>1, <1>n, <1>d, <1>e DEF Enters
  <2> QED BY <2>1, <2>2
<1>2. CASE Works(f)
  <2>1. LockHeld'
    BY <1>2, <1>n DEF Works, LockHeld
  <2>2. NoDuplicateCreate'
    BY <1>2, <1>n, <1>d, <1>e DEF Works, LockHeld, Shrinks
  <2> QED BY <2>1, <2>2
<1>3. CASE Adds(f)
  <2>1. LockHeld'
    BY <1>3, <1>n DEF Adds, LockHeld
  <2>2. \A g \in Flows \ {f} : flow[g].pc \in Creating => flow[g].net # flow[f].net
    BY <1>3, <1>n DEF Adds, LockHeld
  <2>3. NoDuplicateCreate'
    BY <1>3, <2>2, <1>n, <1>t, <1>d, <1>e DEF Adds, LockHeld
  <2> QED BY <2>1, <2>3
<1>4. CASE Leaves(f)
  <2>1. LockHeld'
    BY <1>4, <1>n, <1>t DEF Leaves, LockHeld
  <2>2. NoDuplicateCreate'
    BY <1>4, <1>n, <1>d, <1>e DEF Leaves
  <2> QED BY <2>1, <2>2
<1>5. CASE Elsewhere(f)
  <2>1. LockHeld'
    BY <1>5, <1>n DEF Elsewhere, LockHeld
  <2>2. NoDuplicateCreate'
    BY <1>5, <1>n, <1>d, <1>e DEF Elsewhere, LockHeld, Shrinks
  <2> QED BY <2>1, <2>2
<1> QED BY <1>1, <1>2, <1>3, <1>4, <1>5 DEF Kind

-----------------------------------------------------------------------------
(* What storing a flow's new locals does to `flow`. *)
LEMMA FlowStep ==
    ASSUME TypeOK, NEW f \in Flows, NEW r \in FlowRecord, Update(f, r)
    PROVE  flow' \in [Flows -> FlowRecord] /\ flow'[f] = r /\ Others(f)
BY DEF TypeOK, Update, Others

LEMMA GotoStep ==
    ASSUME TypeOK, NEW f \in Flows, NEW label \in Labels, Goto(f, label)
    PROVE  /\ flow' \in [Flows -> FlowRecord] /\ flow'[f].pc = label
           /\ Same(f) /\ Others(f)
<1> DEFINE r == [flow[f] EXCEPT !.pc = label]
<1>1. flow[f] \in FlowRecord
  BY DEF TypeOK
<1>2. r \in FlowRecord /\ r.pc = label /\ r.net = flow[f].net /\ r.place = flow[f].place
  BY <1>1 DEF FlowRecord
<1>3. flow' \in [Flows -> FlowRecord] /\ flow'[f] = r /\ Others(f)
  BY <1>2, FlowStep DEF Goto
<1> QED BY <1>2, <1>3 DEF Same

(* Steps inside the lock that leave vCenter and the lock alone. *)
LEMMA QuietWork ==
    ASSUME TypeOK, NEW f \in Flows, NEW r \in FlowRecord, Update(f, r),
           pg' = pg, born' = born, conn' \in [Vms -> Networks \cup {None}],
           holder' = holder,
           flow[f].pc \in PreSteps, r.pc \in PreSteps,
           r.net = flow[f].net, r.place = flow[f].place,
           r.pc \in Creating => flow[f].place \notin pg[flow[f].net]
    PROVE  StepOf(f)
<1>1. flow' \in [Flows -> FlowRecord] /\ flow'[f] = r /\ Others(f)
  BY FlowStep
<1>2. TypeOK'
  BY <1>1 DEF TypeOK
<1>3. Works(f)
  BY <1>1 DEF Works, Same, Shrinks
<1> QED BY <1>1, <1>2, <1>3 DEF StepOf, Kind

(* Steps outside the lock. *)
LEMMA OutsideWork ==
    ASSUME TypeOK, NEW f \in Flows, NEW r \in FlowRecord, Update(f, r),
           pg' \in [Generated -> SUBSET Places], Shrinks, born' = born,
           conn' \in [Vms -> Networks \cup {None}], holder' = holder,
           flow[f].pc \notin PreSteps, r.pc \notin PreSteps,
           r.pc \in {"pre", "post"} => r.net \in Generated
    PROVE  StepOf(f)
<1>1. flow' \in [Flows -> FlowRecord] /\ flow'[f] = r /\ Others(f)
  BY FlowStep
<1>2. TypeOK'
  BY <1>1 DEF TypeOK
<1>3. Elsewhere(f)
  BY <1>1 DEF Elsewhere
<1> QED BY <1>1, <1>2, <1>3 DEF StepOf, Kind

(* The end of an item, by success or failure, is a way out of the lock. *)
LEMMA EndItemLeaves ==
    ASSUME TypeOK, NEW f \in Flows, NEW r \in FlowRecord, EndItem(f, r), Unlock(f),
           UNCHANGED vcenter, flow[f].pc \in PreSteps, r.net = flow[f].net
    PROVE  StepOf(f)
<1> DEFINE next == flow'[f]
<1>1. /\ flow' \in [Flows -> FlowRecord] /\ Others(f)
      /\ next.pc \notin PreSteps /\ next.net = r.net
  <2> DEFINE r1 == [r EXCEPT !.pc = "pre"]  r2 == [r EXCEPT !.pc = "act"]
             r3 == [r EXCEPT !.pc = "aborted"]
             r4 == [r EXCEPT !.pc = "act", !.left = {}, !.failed = r.vms]
  <2>1. /\ r1 \in FlowRecord /\ r1.pc \notin PreSteps /\ r1.net = r.net
        /\ r2 \in FlowRecord /\ r2.pc \notin PreSteps /\ r2.net = r.net
        /\ r3 \in FlowRecord /\ r3.pc \notin PreSteps /\ r3.net = r.net
    BY DEF FlowRecord, Labels, PreSteps, Terminal
  <2>2. r4 \in FlowRecord /\ r4.pc \notin PreSteps /\ r4.net = r.net
    <3>1. r2 \in FlowRecord /\ r.vms \in SUBSET Vms
      BY <2>1 DEF FlowRecord
    <3>2. r4 \in FlowRecord
      <4>1. r4 = [r2 EXCEPT !.left = {}, !.failed = r.vms]
        OBVIOUS
      <4> HIDE DEF r2, r4
      <4> QED BY <3>1, <4>1 DEF FlowRecord
    <3>3. r4.pc = "act" /\ r4.net = r.net
      BY DEF FlowRecord
    <3> QED BY <3>2, <3>3, "act" \notin PreSteps DEF PreSteps
  <2>3. Update(f, r1) \/ Update(f, r2) \/ Update(f, r3) \/ Update(f, r4)
    BY Zenon DEF EndItem
  <2>4. \E q \in {r1, r2, r3, r4} :
            flow' \in [Flows -> FlowRecord] /\ flow'[f] = q /\ Others(f)
    <3> HIDE DEF r1, r2, r3, r4
    <3> QED BY <2>1, <2>2, <2>3, FlowStep
  <2> QED BY <2>1, <2>2, <2>4
<1>2. TypeOK'
  BY <1>1 DEF TypeOK, Unlock, vcenter
<1>3. Leaves(f)
  BY <1>1 DEF Leaves, Unlock, vcenter
<1> QED BY <1>1, <1>2, <1>3 DEF StepOf, Kind

LEMMA RaiseLeaves ==
    ASSUME TypeOK, NEW f \in Flows, ItemRaises(f), flow[f].pc \in PreSteps
    PROVE  StepOf(f)
<1>1. flow[f] \in FlowRecord
  BY DEF TypeOK
<1>2. Reset(f) \in FlowRecord /\ Reset(f).net = flow[f].net
  BY <1>1 DEF Reset, FlowRecord
<1> QED BY <1>2, EndItemLeaves DEF ItemRaises

-----------------------------------------------------------------------------
(* Removing a port group from a place only takes port groups away. *)
LEMMA RemoveShrinks ==
    ASSUME TypeOK, NEW n, NEW p, RemoveAt(n, p)
    PROVE  pg' \in [Generated -> SUBSET Places] /\ Shrinks
BY DEF TypeOK, RemoveAt, Shrinks

(* Every step of _get_or_create_network is of one of the kinds. *)
LEMMA PreStep ==
    ASSUME IInv, NEW f \in Flows, Pre(f)
    PROVE  StepOf(f)
<1> DEFINE l == flow[f]
<1>t. /\ TypeOK /\ l \in FlowRecord
      /\ pg \in [Generated -> SUBSET Places]
      /\ conn \in [Vms -> Networks \cup {None}]
      /\ holder \in [Generated -> Flows \cup {Nobody}]
      /\ flow \in [Flows -> FlowRecord]
  BY DEF IInv, TypeOK
<1>f. LockHeld
  BY DEF IInv
<1>q. ASSUME NEW label \in PreSteps \ Creating, l.pc \in PreSteps, Goto(f, label),
             UNCHANGED <<vcenter, holder>>
      PROVE  StepOf(f)
  <2> DEFINE r == [l EXCEPT !.pc = label]
  <2>1. r \in FlowRecord /\ r.pc = label /\ r.net = l.net /\ r.place = l.place
    BY <1>t DEF FlowRecord, Labels
  <2> QED BY <2>1, <1>q, <1>t, QuietWork DEF Goto, vcenter
<1>1. CASE LockNetwork(f)
  <2>1. PICK p \in l.places :
            Update(f, [l EXCEPT !.pc = "clear", !.place = p, !.places = @ \ {p},
                                !.todo = Conflicting(l.net)])
    BY <1>1 DEF LockNetwork
  <2> DEFINE r == [l EXCEPT !.pc = "clear", !.place = p, !.places = @ \ {p},
                            !.todo = Conflicting(l.net)]
  <2>2. l.pc = "pre" /\ l.net \in Generated /\ p \in Places /\ l.places \subseteq Places
    BY <1>1, <1>t, <1>f, <2>1 DEF LockNetwork, At, LockHeld, FlowRecord
  <2>3. Conflicting(l.net) \subseteq Generated
    BY DEF Conflicting, SameVlan
  <2>4. r \in FlowRecord /\ r.pc = "clear" /\ r.net = l.net /\ r.place = p
    BY <1>t, <2>2, <2>3 DEF FlowRecord, Labels, PreSteps
  <2>5. flow' \in [Flows -> FlowRecord] /\ flow'[f] = r /\ Others(f)
    BY <1>t, <2>1, <2>4, FlowStep
  <2>6. /\ holder[l.net] = Nobody /\ holder' = [holder EXCEPT ![l.net] = f]
        /\ pg' = pg /\ born' = born /\ conn' = conn
    BY <1>1 DEF LockNetwork, vcenter
  <2>7. TypeOK'
    BY <1>t, <2>5, <2>6 DEF TypeOK
  <2>8. Enters(f)
    BY <2>2, <2>4, <2>5, <2>6 DEF Enters
  <2> QED BY <2>5, <2>7, <2>8 DEF StepOf, Kind
<1>2. ASSUME NEW m \in Generated, PickConflict(f, m)
      PROVE  StepOf(f)
  <2>1. l.pc = "clear" /\ l.pc \in PreSteps
    BY <1>2 DEF PickConflict, At, PreSteps
  <2>2. CASE ~Exists(m)
    BY <1>2, <1>t, <2>1, <2>2, RaiseLeaves DEF PickConflict
  <2>3. CASE Exists(m)
    <3> DEFINE W == {v \in Vms : /\ conn[v] = m
                                 /\ m = l.net => OtherSandbox(f, v)}
               r == [l EXCEPT !.pc = "migrate", !.cur = m, !.ref = born[m],
                              !.todo = @ \ {m}, !.vmsLeft = W]
    <3>1. Update(f, r) /\ UNCHANGED <<vcenter, holder>>
      BY <1>2, <2>3 DEF PickConflict
    <3>2. born[m] \in Nat /\ W \subseteq Vms
      BY <1>t DEF TypeOK
    <3> HIDE DEF W
    <3>3. /\ r \in FlowRecord /\ r.pc \in PreSteps \ Creating
          /\ r.net = l.net /\ r.place = l.place
      BY <1>t, <3>2 DEF FlowRecord, Labels, PreSteps, Creating
    <3> QED BY <2>1, <3>1, <3>3, <1>t, QuietWork DEF vcenter
  <2> QED BY <2>2, <2>3
<1>3. ASSUME NEW v \in Vms, CheckVnic(f, v)
      PROVE  StepOf(f)
  <2> DEFINE r1 == [l EXCEPT !.pc = "move", !.victim = v]
             r2 == [l EXCEPT !.vmsLeft = @ \ {v}]
  <2>1. l.pc = "migrate" /\ l.pc \in PreSteps /\ UNCHANGED <<vcenter, holder>>
    BY <1>3 DEF CheckVnic, At, PreSteps
  <2>2. Update(f, r1) \/ Update(f, r2)
    BY <1>3, Zenon DEF CheckVnic
  <2>3. /\ r1 \in FlowRecord /\ r1.pc \in PreSteps \ Creating
        /\ r1.net = l.net /\ r1.place = l.place
    BY <1>t DEF FlowRecord, Labels, PreSteps, Creating
  <2>4. /\ r2 \in FlowRecord /\ r2.pc \in PreSteps \ Creating
        /\ r2.net = l.net /\ r2.place = l.place
    BY <1>t, <2>1 DEF FlowRecord, PreSteps, Creating
  <2> HIDE DEF r1, r2
  <2> QED BY <2>1, <2>2, <2>3, <2>4, <1>t, QuietWork DEF vcenter
<1>4. CASE MoveVnic(f)
  <2> DEFINE r == [l EXCEPT !.pc = "migrate", !.vmsLeft = @ \ {l.victim}, !.victim = None]
  <2>1. /\ l.pc \in PreSteps /\ Update(f, r) /\ pg' = pg /\ born' = born /\ holder' = holder
    BY <1>4 DEF MoveVnic, At, PreSteps
  <2>2. conn' \in [Vms -> Networks \cup {None}]
    BY <1>4, <1>t DEF MoveVnic, Plug, Networks
  <2>3. /\ r \in FlowRecord /\ r.pc \in PreSteps \ Creating
        /\ r.net = l.net /\ r.place = l.place
    BY <1>t DEF FlowRecord, Labels, PreSteps, Creating
  <2> QED BY <2>1, <2>2, <2>3, <1>t, QuietWork
<1>5. CASE Migrated(f)
  <2> DEFINE r == [l EXCEPT !.pc = "clear", !.cur = None]
  <2>1. l.pc \in PreSteps /\ UNCHANGED <<vcenter, holder>>
    BY <1>5 DEF Migrated, At, PreSteps
  <2>2. Update(f, r) \/ Goto(f, "wait")
    BY <1>5, Zenon DEF Migrated
  <2>3. /\ r \in FlowRecord /\ r.pc \in PreSteps \ Creating
        /\ r.net = l.net /\ r.place = l.place
    BY <1>t DEF FlowRecord, Labels, PreSteps, Creating
  <2>4. "wait" \in PreSteps \ Creating
    BY DEF PreSteps, Creating
  <2> HIDE DEF r
  <2> QED BY <2>1, <2>2, <2>3, <2>4, <1>q, <1>t, QuietWork DEF vcenter
<1>6. CASE WaitFree(f)
  <2>1. l.pc \in PreSteps /\ {"destroy", "unhost"} \subseteq PreSteps \ Creating
    BY <1>6 DEF WaitFree, At, PreSteps, Creating
  <2>2. CASE Alive(l.cur, l.ref)
    BY <1>6, <1>q, <2>1, <2>2 DEF WaitFree
  <2>3. CASE ~Alive(l.cur, l.ref)
    BY <1>6, <1>t, <2>1, <2>3, RaiseLeaves DEF WaitFree
  <2> QED BY <2>2, <2>3
<1>c. ASSUME Cleared(f), l.pc \in PreSteps, Shrinks,
             pg' \in [Generated -> SUBSET Places],
             UNCHANGED <<born, conn, holder>>
      PROVE  StepOf(f)
  <2> DEFINE r == [l EXCEPT !.pc = "clear", !.cur = None, !.hosts = {}]
  <2>1. /\ r \in FlowRecord /\ r.pc \in PreSteps \ Creating
        /\ r.net = l.net /\ r.place = l.place
    BY <1>t DEF FlowRecord, Labels, PreSteps, Creating
  <2>2. flow' \in [Flows -> FlowRecord] /\ flow'[f] = r /\ Others(f)
    BY <1>c, <1>t, <2>1, FlowStep DEF Cleared
  <2>3. TypeOK'
    BY <1>c, <1>t, <2>2 DEF TypeOK
  <2>4. Works(f)
    BY <1>c, <2>1, <2>2 DEF Works, Same
  <2> QED BY <2>2, <2>3, <2>4 DEF StepOf, Kind
<1>7. CASE DestroyConflict(f)
  <2>1. l.pc \in PreSteps
    BY <1>7 DEF DestroyConflict, At, PreSteps
  <2>2. CASE ~Alive(l.cur, l.ref)
    BY <1>7, <1>c, <1>t, <2>1, <2>2 DEF DestroyConflict, vcenter, Shrinks
  <2>3. CASE Alive(l.cur, l.ref) /\ Attached(l.cur)
    BY <1>7, <1>t, <2>1, <2>3, RaiseLeaves DEF DestroyConflict
  <2>4. CASE Alive(l.cur, l.ref) /\ ~Attached(l.cur)
    <3>1. /\ pg' = [pg EXCEPT ![l.cur] = {}] /\ Cleared(f)
          /\ UNCHANGED <<born, conn, holder>>
      BY <1>7, <2>4 DEF DestroyConflict
    <3>2. pg' \in [Generated -> SUBSET Places] /\ Shrinks
      BY <3>1, <1>t DEF Shrinks
    <3> QED BY <1>c, <2>1, <3>1, <3>2
  <2> QED BY <2>2, <2>3, <2>4
<1>8. ASSUME NEW h \in Hosts, ClearFromHost(f, h)
      PROVE  StepOf(f)
  <2> DEFINE r == [l EXCEPT !.hosts = @ \cup {h}]
  <2>1. l.pc = "unhost" /\ l.pc \in PreSteps /\ UNCHANGED <<born, conn, holder>>
    BY <1>8 DEF ClearFromHost, At, PreSteps
  <2>2. pg' \in [Generated -> SUBSET Places] /\ Shrinks
    BY <1>8, <1>t, RemoveShrinks DEF ClearFromHost
  <2>3. Cleared(f) \/ Update(f, r)
    BY <1>8 DEF ClearFromHost
  <2>4. CASE Cleared(f)
    BY <1>c, <2>1, <2>2, <2>4
  <2>5. CASE Update(f, r)
    <3>1. /\ r \in FlowRecord /\ r.pc \in PreSteps \ Creating
          /\ r.net = l.net /\ r.place = l.place
      BY <1>t, <2>1 DEF FlowRecord, PreSteps, Creating
    <3>2. flow' \in [Flows -> FlowRecord] /\ flow'[f] = r /\ Others(f)
      BY <1>t, <2>5, <3>1, FlowStep
    <3>3. TypeOK'
      BY <1>t, <2>1, <2>2, <3>2 DEF TypeOK
    <3>4. Works(f)
      BY <2>1, <2>2, <3>1, <3>2 DEF Works, Same
    <3> QED BY <3>2, <3>3, <3>4 DEF StepOf, Kind
  <2> QED BY <2>3, <2>4, <2>5
<1>r. ASSUME NEW label \in PreSteps, l.pc \in PreSteps,
             label \in Creating => l.place \notin pg[l.net],
             Update(f, [l EXCEPT !.pc = label, !.ref = born[l.net]]),
             UNCHANGED <<vcenter, holder>>
      PROVE  StepOf(f)
  <2> DEFINE r == [l EXCEPT !.pc = label, !.ref = born[l.net]]
  <2>1. born[l.net] \in Nat
    BY <1>f, <1>r, <1>t DEF LockHeld, TypeOK
  <2>2. r \in FlowRecord /\ r.pc = label /\ r.net = l.net /\ r.place = l.place
    BY <1>t, <2>1 DEF FlowRecord, Labels
  <2> QED BY <1>r, <1>t, <2>2, QuietWork DEF vcenter
<1>g. ASSUME l.pc \in PreSteps, NEW label \in PreSteps, Goto(f, label),
             label \in Creating => l.place \notin pg[l.net],
             UNCHANGED <<vcenter, holder>>
      PROVE  StepOf(f)
  <2> DEFINE r == [l EXCEPT !.pc = label]
  <2>1. r \in FlowRecord /\ r.pc = label /\ r.net = l.net /\ r.place = l.place
    BY <1>t DEF FlowRecord, Labels
  <2> QED BY <2>1, <1>g, <1>t, QuietWork DEF Goto, vcenter
<1>9. CASE GetNetwork(f)
  <2>1. l.pc \in PreSteps /\ UNCHANGED <<vcenter, holder>>
    BY <1>9 DEF GetNetwork, At, PreSteps
  <2>2. CASE ~Exists(l.net)
    <3>1. pg[l.net] = {} /\ Goto(f, "create")
      BY <1>9, <2>2 DEF GetNetwork, Exists
    <3> QED BY <1>g, <2>1, <3>1 DEF PreSteps
  <2>3. CASE Exists(l.net)
    BY <1>9, <1>r, <2>1, <2>3 DEF GetNetwork, PreSteps, Creating
  <2> QED BY <2>2, <2>3
<1>10. CASE Validate(f)
  <2>1. l.pc \in PreSteps
    BY <1>10 DEF Validate, At, PreSteps
  <2>2. CASE ~Alive(l.net, l.ref)
    BY <1>10, <1>t, <2>1, <2>2, RaiseLeaves DEF Validate
  <2>3. CASE Alive(l.net, l.ref)
    BY <1>10, <1>g, <2>1, <2>3 DEF Validate, PreSteps, Creating
  <2> QED BY <2>2, <2>3
<1>a. ASSUME NEW label \in PreSteps \ Creating, l.pc \in Creating,
             AddPortGroup(f), Goto(f, label)
      PROVE  StepOf(f)
  <2>1. l.pc \in PreSteps /\ l.net \in Generated /\ l.place \in Places
    BY <1>a, <1>f DEF LockHeld, PreSteps, Creating
  <2>2. /\ flow' \in [Flows -> FlowRecord] /\ flow'[f].pc = label
        /\ Same(f) /\ Others(f)
    BY <1>a, <1>t, GotoStep DEF Labels
  <2>3. /\ pg' = [pg EXCEPT ![l.net] = @ \cup {l.place}]
        /\ born' = [born EXCEPT ![l.net] = IF Exists(l.net) THEN @ ELSE @ + 1]
        /\ conn' = conn /\ holder' = holder
    BY <1>a DEF AddPortGroup
  <2>4. pg' \in [Generated -> SUBSET Places] /\ born' \in [Generated -> Nat]
    BY <1>t, <2>1, <2>3 DEF TypeOK
  <2>5. TypeOK'
    BY <1>t, <2>2, <2>3, <2>4 DEF TypeOK
  <2>6. Adds(f)
    BY <1>a, <2>2, <2>3 DEF Adds
  <2> QED BY <2>2, <2>5, <2>6 DEF StepOf, Kind
<1>11. CASE Create(f)
  <2>1. l.pc = "create" /\ ~Duplicate(f)
    BY <1>11 DEF Create, At, IInv, NoDuplicateCreate, Duplicate
  <2> QED BY <1>11, <1>a, <2>1 DEF Create, PreSteps, Creating
<1>12. CASE Recreate(f)
  <2>1. l.pc = "recreate" /\ ~Duplicate(f)
    BY <1>12 DEF Recreate, At, IInv, NoDuplicateCreate, Duplicate
  <2> QED BY <1>12, <1>a, <2>1 DEF Recreate, PreSteps, Creating
<1>13. CASE WaitAppears(f)
  <2>1. l.pc \in PreSteps
    BY <1>13 DEF WaitAppears, At, PreSteps
  <2>2. CASE ~Exists(l.net)
    BY <1>13, <1>t, <2>1, <2>2, RaiseLeaves DEF WaitAppears
  <2>3. CASE Exists(l.net)
    BY <1>13, <1>r, <2>1, <2>3 DEF WaitAppears, PreSteps, Creating
  <2> QED BY <2>2, <2>3
<1>14. CASE Store(f)
  <2> DEFINE r == [l EXCEPT !.got = l.ref, !.place = None]
  <2>1. r \in FlowRecord /\ r.net = l.net
    BY <1>t DEF FlowRecord
  <2>2. l.pc \in PreSteps /\ EndItem(f, r) /\ Unlock(f) /\ UNCHANGED vcenter
    BY <1>14 DEF Store, At, PreSteps
  <2> HIDE DEF r
  <2> QED BY <1>t, <2>1, <2>2, EndItemLeaves
<1> QED
  BY <1>1, <1>2, <1>3, <1>4, <1>5, <1>6, <1>7, <1>8, <1>9, <1>10, <1>11, <1>12,
     <1>13, <1>14 DEF Pre

-----------------------------------------------------------------------------
(* So is every step outside it: the request's actions and what follows. *)
LEMMA StartStep ==
    ASSUME IInv, NEW f \in Flows, NEW q \in Requests, Start(f, q)
    PROVE  StepOf(f)
<1> DEFINE gone == {v \in q.vms : conn[v] = None}
           creates == q.kind = "set" /\ q.net \in Generated
           places == IF creates THEN {PlaceOf(v) : v \in q.vms} ELSE {}
           label == IF ~creates THEN "act" ELSE IF gone = {} THEN "pre" ELSE "aborted"
           r == [IdleFlow EXCEPT
                    !.kind = q.kind, !.net = q.net, !.vms = q.vms, !.left = q.vms,
                    !.gone = gone, !.places = places, !.pc = label]
<1>1. TypeOK /\ pg \in [Generated -> SUBSET Places] /\ conn \in [Vms -> Networks \cup {None}]
  BY DEF IInv, TypeOK
<1>2. Update(f, r) /\ UNCHANGED <<vcenter, holder>> /\ flow[f].pc = "idle"
  BY DEF Start, At
<1>3. q.kind \in {"set", "remove"} /\ q.net \in Networks /\ q.vms \subseteq Vms
  BY ConnectivityAssumption DEF Networks
<1>4. places \subseteq Places
  BY <1>3, ConnectivityAssumption DEF Places, PlaceOf
<1>5. /\ label \in Labels \ PreSteps
      /\ label \in {"pre", "post"} => q.net \in Generated
      /\ gone \subseteq Vms
  BY <1>3 DEF Labels, PreSteps, Terminal
<1>6. IdleFlow \in FlowRecord
  BY DEF IdleFlow, FlowRecord, Networks, Labels
<1> HIDE DEF label, places, gone, creates
<1>7. r \in FlowRecord /\ r.pc = label /\ r.net = q.net
  BY <1>3, <1>4, <1>5, <1>6 DEF FlowRecord
<1>8. flow[f].pc \notin PreSteps
  BY <1>2 DEF PreSteps
<1> HIDE DEF r
<1> QED BY <1>1, <1>2, <1>5, <1>7, <1>8, OutsideWork DEF vcenter, Shrinks

LEMMA ActStep ==
    ASSUME IInv, NEW f \in Flows, Act(f)
    PROVE  StepOf(f)
<1> DEFINE l == flow[f]
<1>t. /\ TypeOK /\ l \in FlowRecord
      /\ pg \in [Generated -> SUBSET Places]
      /\ conn \in [Vms -> Networks \cup {None}]
  BY DEF IInv, TypeOK
<1>p. ASSUME NEW v \in Vms, NEW n \in Networks, Plug(v, n)
      PROVE  conn' \in [Vms -> Networks \cup {None}]
  BY <1>t, <1>p DEF Plug
<1>d. ASSUME NEW v \in Vms, NEW ok \in BOOLEAN, ActionDone(f, v, ok), l.pc = "act",
             conn' \in [Vms -> Networks \cup {None}], UNCHANGED <<pg, born, holder>>
      PROVE  StepOf(f)
  <2> DEFINE r == [l EXCEPT !.left = @ \ {v},
                            !.failed = IF ok THEN @ ELSE @ \cup {v}]
  <2>1. r \in FlowRecord /\ r.pc = "act" /\ r.pc \notin PreSteps
    BY <1>t, <1>d DEF FlowRecord, PreSteps
  <2>2. Update(f, r)
    BY <1>d DEF ActionDone
  <2> HIDE DEF r
  <2> QED BY <1>d, <1>t, <2>1, <2>2, OutsideWork DEF Shrinks
<1>1. ASSUME NEW v \in Vms, RemoveVlan(f, v)
      PROVE  StepOf(f)
  <2>1. (v \in l.gone \/ conn[v] # None) \in BOOLEAN /\ Holding \in Networks
    BY DEF Networks
  <2> QED BY <1>1, <1>p, <1>d, <2>1 DEF RemoveVlan, At
<1>2. ASSUME NEW v \in Vms, Clear(f, v)
      PROVE  StepOf(f)
  <2> DEFINE r == [l EXCEPT !.cleared = @ \cup {v}]
  <2>1. l.pc = "act" /\ UNCHANGED <<pg, born, holder>> /\ Holding \in Networks
    BY <1>2 DEF Clear, At, Networks
  <2>2. CASE conn[v] = None
    BY <1>2, <1>d, <1>t, <2>1, <2>2 DEF Clear
  <2>3. CASE conn[v] # None
    <3>1. Update(f, r) /\ conn' \in [Vms -> Networks \cup {None}]
      BY <1>2, <1>p, <2>1, <2>3 DEF Clear
    <3>2. r \in FlowRecord /\ r.pc = "act" /\ r.pc \notin PreSteps
      BY <1>t, <2>1 DEF FlowRecord, PreSteps
    <3> HIDE DEF r
    <3> QED BY <1>t, <2>1, <3>1, <3>2, OutsideWork DEF Shrinks
  <2> QED BY <2>2, <2>3
<1>3. ASSUME NEW v \in Vms, SetVlan(f, v)
      PROVE  StepOf(f)
  <2> DEFINE n == IF Usable(f, v) THEN l.net ELSE Holding
  <2>1. n \in Networks /\ Usable(f, v) \in BOOLEAN
    BY <1>t DEF Networks, FlowRecord, Usable
  <2>2. l.pc = "act" /\ UNCHANGED <<pg, born, holder>> /\ Plug(v, n)
        /\ ActionDone(f, v, Usable(f, v))
    BY <1>3 DEF SetVlan, At
  <2> HIDE DEF n
  <2> QED BY <1>p, <1>d, <2>1, <2>2
<1> QED BY <1>1, <1>2, <1>3 DEF Act

LEMMA PostStep ==
    ASSUME IInv, NEW f \in Flows, Post(f)
    PROVE  StepOf(f)
<1> DEFINE l == flow[f]
<1>t. /\ TypeOK /\ l \in FlowRecord
      /\ pg \in [Generated -> SUBSET Places]
      /\ conn \in [Vms -> Networks \cup {None}]
      /\ born \in [Generated -> Nat]
  BY DEF IInv, TypeOK
<1> DEFINE Outside == (Labels \ PreSteps) \ {"pre", "post"}
<1>l. {"act", "postwait", "postdestroy", "postunhost", "done", "broken"} \subseteq Outside
  BY DEF Labels, PreSteps, Terminal
<1> HIDE DEF Outside
<1>g. ASSUME NEW label \in Outside, Goto(f, label), l.pc \notin PreSteps,
             pg' \in [Generated -> SUBSET Places], Shrinks,
             UNCHANGED <<born, conn, holder>>
      PROVE  StepOf(f)
  <2> DEFINE r == [l EXCEPT !.pc = label]
  <2>1. r \in FlowRecord /\ r.pc = label
    BY <1>g, <1>t DEF FlowRecord, Outside
  <2>2. Update(f, r) /\ label \notin PreSteps \cup {"pre", "post"}
    BY <1>g DEF Goto, Outside
  <2> HIDE DEF r
  <2> QED BY <1>g, <1>t, <2>1, <2>2, OutsideWork
<1>s. pg' = pg => pg' \in [Generated -> SUBSET Places] /\ Shrinks
  BY <1>t DEF Shrinks
<1>1. CASE ActionsDone(f)
  <2>1. l.pc = "act" /\ l.pc \notin PreSteps /\ UNCHANGED <<vcenter, holder>>
    BY <1>1 DEF ActionsDone, At, PreSteps
  <2>2. CASE ToRemove(f) = {}
    BY <1>1, <1>g, <1>l, <1>s, <2>1, <2>2 DEF ActionsDone, vcenter
  <2>3. CASE ToRemove(f) # {}
    <3>1. PICK v \in ToRemove(f) : Update(f, [l EXCEPT !.pc = "post", !.victim = v])
      BY <1>1, <2>3 DEF ActionsDone
    <3> DEFINE r == [l EXCEPT !.pc = "post", !.victim = v]
    <3>2. v \in Vms /\ l.net \in Generated
      BY <1>t, <3>1 DEF ToRemove, Disused, FlowRecord
    <3>3. r \in FlowRecord /\ r.pc = "post" /\ r.net = l.net
      BY <1>t, <3>2 DEF FlowRecord, Labels
    <3>4. l.pc \notin PreSteps /\ "post" \notin PreSteps
      BY <2>1 DEF PreSteps
    <3>5. Update(f, r)
      BY <3>1
    <3> HIDE DEF r
    <3> QED BY <1>t, <2>1, <3>3, <3>4, <3>5, <3>2, OutsideWork DEF Shrinks, vcenter
  <2> QED BY <2>2, <2>3
<1>2. CASE PostGet(f)
  <2>1. l.pc = "post" /\ l.pc \notin PreSteps /\ UNCHANGED <<vcenter, holder>>
    BY <1>2 DEF PostGet, At, PreSteps
  <2>2. CASE Exists(l.net)
    <3> DEFINE r == [l EXCEPT !.pc = "postwait", !.ref = born[l.net]]
    <3>1. Update(f, r)
      BY <1>2, <2>2 DEF PostGet
    <3>2. born[l.net] \in Nat
      BY <1>t, <2>1 DEF IInv, LockHeld
    <3>3. r \in FlowRecord /\ r.pc = "postwait"
      BY <1>t, <3>2 DEF FlowRecord, Labels
    <3>4. l.pc \notin PreSteps /\ "postwait" \notin PreSteps
      BY <2>1 DEF PreSteps
    <3> HIDE DEF r
    <3> QED BY <1>t, <2>1, <3>1, <3>3, <3>4, OutsideWork DEF Shrinks, vcenter
  <2>3. CASE ~Exists(l.net)
    BY <1>2, <1>g, <1>l, <1>s, <2>1, <2>3 DEF PostGet, vcenter
  <2> QED BY <2>2, <2>3
<1>3. CASE PostWait(f)
  <2>1. l.pc \notin PreSteps /\ UNCHANGED <<vcenter, holder>>
    BY <1>3 DEF PostWait, At, PreSteps
  <2>2. \E label \in {"broken", "done", "postdestroy"} : Goto(f, label)
    BY <1>3 DEF PostWait
  <2> QED BY <1>g, <1>l, <1>s, <2>1, <2>2 DEF vcenter
<1>4. CASE PostDestroyDv(f)
  <2>1. /\ l.pc \notin PreSteps /\ Goto(f, "done") /\ UNCHANGED <<born, conn, holder>>
        /\ pg' = [pg EXCEPT ![l.net] =
                     IF Alive(l.net, l.ref) /\ ~Attached(l.net) THEN {} ELSE @]
    BY <1>4 DEF PostDestroyDv, At, PreSteps
  <2>2. pg' \in [Generated -> SUBSET Places] /\ Shrinks
    BY <1>t, <2>1 DEF Shrinks
  <2> QED BY <1>g, <1>l, <2>1, <2>2
<1>5. CASE PostDestroyHost(f)
  <2>1. l.pc \notin PreSteps /\ UNCHANGED <<born, conn, holder>>
    BY <1>5 DEF PostDestroyHost, At, PreSteps
  <2>2. /\ Goto(f, "done") \/ Goto(f, "broken")
        /\ RemoveAt(l.net, HostOf[l.victim]) \/ pg' = pg
    BY <1>5 DEF PostDestroyHost
  <2>3. pg' \in [Generated -> SUBSET Places] /\ Shrinks
    BY <1>t, <1>s, <2>2, RemoveShrinks
  <2> QED BY <1>g, <1>l, <2>1, <2>2, <2>3
<1>6. CASE PostDestroyEverywhere(f)
  <2>1. l.pc \notin PreSteps /\ UNCHANGED <<vcenter, holder>>
    BY <1>6 DEF PostDestroyEverywhere, At, PreSteps
  <2>2. \E label \in {"postunhost", "broken"} : Goto(f, label)
    BY <1>6 DEF PostDestroyEverywhere
  <2> QED BY <1>g, <1>l, <1>s, <2>1, <2>2 DEF vcenter
<1>7. ASSUME NEW h \in Hosts, PostFromHost(f, h)
      PROVE  StepOf(f)
  <2> DEFINE label == IF l.hosts \cup {h} = Hosts THEN "done" ELSE l.pc
             r == [l EXCEPT !.hosts = @ \cup {h}, !.pc = label]
  <2>1. /\ l.pc = "postunhost" /\ l.pc \notin PreSteps /\ UNCHANGED <<born, conn, holder>>
        /\ RemoveAt(l.net, h) /\ Update(f, r)
    BY <1>7 DEF PostFromHost, At, PreSteps
  <2>2. pg' \in [Generated -> SUBSET Places] /\ Shrinks
    BY <1>t, <2>1, RemoveShrinks
  <2>3. label \in Outside
    BY <1>l, <2>1
  <2>4. label \in Labels /\ label \notin PreSteps \cup {"pre", "post"}
    BY <2>3 DEF Outside
  <2> HIDE DEF label
  <2>5. r \in FlowRecord /\ r.pc = label
    BY <1>t, <2>4 DEF FlowRecord
  <2> HIDE DEF r
  <2> QED BY <1>t, <2>1, <2>2, <2>4, <2>5, OutsideWork
<1> QED BY <1>1, <1>2, <1>3, <1>4, <1>5, <1>6, <1>7 DEF Post

-----------------------------------------------------------------------------
LEMMA InitInv == Init => IInv
<1> SUFFICES ASSUME Init PROVE IInv
  OBVIOUS
<1>1. IdleFlow \in FlowRecord /\ IdleFlow.pc = "idle"
  BY DEF IdleFlow, FlowRecord, Networks, Labels
<1>2. \A f \in Flows : flow[f] \in FlowRecord /\ flow[f].pc = "idle"
  BY <1>1 DEF Init
<1>3. pg \in [Generated -> SUBSET Places]
  BY ConnectivityAssumption DEF Init, Places, PlaceOf
<1>4. TypeOK
  BY <1>2, <1>3 DEF Init, TypeOK
<1>5. LockHeld /\ NoDuplicateCreate
  BY <1>2 DEF LockHeld, NoDuplicateCreate, PreSteps
<1> QED BY <1>4, <1>5 DEF IInv

LEMMA NextInv == IInv /\ [Next]_vars => IInv'
<1> SUFFICES ASSUME IInv, [Next]_vars PROVE IInv'
  OBVIOUS
<1>1. CASE \E v \in Vms : DeleteVm(v)
  <2>1. PICK v \in Vms : DeleteVm(v)
    BY <1>1
  <2>2. conn' \in [Vms -> Networks \cup {None}] /\ UNCHANGED <<pg, born, holder, flow>>
    BY <2>1 DEF DeleteVm, IInv, TypeOK
  <2> QED BY <2>2 DEF IInv, TypeOK, LockHeld, NoDuplicateCreate
<1>2. ASSUME NEW f \in Flows,
             (\E q \in Requests : Start(f, q)) \/ Pre(f) \/ Act(f) \/ Post(f)
      PROVE  IInv'
  BY <1>2, KindPreserves, StartStep, PreStep, ActStep, PostStep
<1>3. CASE UNCHANGED vars
  BY <1>3 DEF vars, IInv, TypeOK, LockHeld, NoDuplicateCreate
<1> QED BY <1>1, <1>2, <1>3 DEF Next

LEMMA Inductive == Spec => []IInv
BY InitInv, NextInv, PTL DEF Spec

(* Every variable and every local of a flow keeps its type, whatever the    *)
(* threads of the driver process do and whichever of their calls raise.     *)
THEOREM TypeCorrect == Spec => []TypeOK
<1>1. IInv => TypeOK
  BY DEF IInv
<1> QED BY <1>1, Inductive, PTL

(* _get_or_create_network never creates a port group that is there already: *)
(* for any number of commands, VMs and hosts, on a DvSwitch or vSwitches.   *)
THEOREM CreatesOnce == Spec => []NoDuplicateCreate
<1>1. IInv => NoDuplicateCreate
  BY DEF IInv
<1> QED BY <1>1, Inductive, PTL
-----------------------------------------------------------------------------
(* What a flow is asked stays, and what it does to vCenter is little.       *)

Kept(f) ==
    /\ flow'[f].kind = flow[f].kind /\ flow'[f].net = flow[f].net
    /\ flow'[f].vms = flow[f].vms /\ flow'[f].gone = flow[f].gone

InPre == PreSteps \cup {"pre"}

(* A flow has VMs to serve, and prepares networks before it plugs any in.   *)
Whole(f) ==
    /\ Started(f) => flow[f].vms # {}
    /\ flow[f].pc \in InPre => flow[f].kind = "set" /\ flow[f].left # {}

(* A vNIC is in a network only where the network has its port group. *)
Plugged == \A v \in Vms : conn[v] \in Generated => PlaceOf(v) \in pg[conn[v]]

LEMMA Becomes ==
    ASSUME TypeOK, NEW f \in Flows, NEW r, Update(f, r)
    PROVE  flow'[f] = r /\ Others(f)
BY DEF TypeOK, Update, Others

LEMMA GoesTo ==
    ASSUME TypeOK, NEW f \in Flows, NEW label, Goto(f, label)
    PROVE  /\ Others(f) /\ Kept(f) /\ flow'[f].pc = label
           /\ flow'[f].left = flow[f].left /\ flow'[f].failed = flow[f].failed
           /\ flow'[f].got = flow[f].got /\ flow'[f].ref = flow[f].ref
           /\ flow'[f].places = flow[f].places /\ flow'[f].place = flow[f].place
           /\ flow'[f].preFailed = flow[f].preFailed /\ flow'[f].todo = flow[f].todo
           /\ flow'[f].cur = flow[f].cur /\ flow'[f].hosts = flow[f].hosts
<1>1. flow[f] \in FlowRecord
  BY DEF TypeOK
<1>2. flow'[f] = [flow[f] EXCEPT !.pc = label] /\ Others(f)
  BY Becomes DEF Goto
<1> QED BY <1>1, <1>2 DEF FlowRecord, Kept

(* How an item of executor.map ends. *)
LEMMA ItemOver ==
    ASSUME TypeOK, NEW f \in Flows, NEW r \in FlowRecord, EndItem(f, r)
    PROVE  /\ Others(f)
           /\ flow'[f].kind = r.kind /\ flow'[f].net = r.net
           /\ flow'[f].vms = r.vms /\ flow'[f].gone = r.gone
           /\ flow'[f].got = r.got /\ flow'[f].preFailed = r.preFailed
           /\ flow'[f].places = r.places /\ flow'[f].hosts = r.hosts
           /\ \/ /\ \/ flow'[f].pc = "pre"
                    \/ flow'[f].pc = "act" /\ r.places = {} /\ ~r.preFailed
                 /\ flow'[f].left = r.left /\ flow'[f].failed = r.failed
              \/ r.preFailed /\ flow'[f].pc = "aborted"
              \/ r.preFailed /\ flow'[f].pc = "act" /\ flow'[f].failed = r.vms
<1>1. CASE r.places # {}
  <2>1. flow'[f] = [r EXCEPT !.pc = "pre"] /\ Others(f)
    BY <1>1, Becomes DEF EndItem
  <2> QED BY <2>1 DEF FlowRecord
<1>2. CASE r.places = {} /\ ~r.preFailed
  <2>1. flow'[f] = [r EXCEPT !.pc = "act"] /\ Others(f)
    BY <1>2, Becomes DEF EndItem
  <2> QED BY <1>2, <2>1 DEF FlowRecord
<1>3. CASE r.places = {} /\ r.preFailed /\ Update(f, [r EXCEPT !.pc = "aborted"])
  <2>1. flow'[f] = [r EXCEPT !.pc = "aborted"] /\ Others(f)
    BY <1>3, Becomes
  <2>2. /\ flow'[f].kind = r.kind /\ flow'[f].net = r.net /\ flow'[f].vms = r.vms
        /\ flow'[f].gone = r.gone /\ flow'[f].got = r.got /\ flow'[f].places = r.places
        /\ flow'[f].hosts = r.hosts
        /\ flow'[f].preFailed = r.preFailed /\ flow'[f].pc = "aborted"
    BY <2>1 DEF FlowRecord
  <2> QED BY <1>3, <2>1, <2>2, Zenon
<1>4. CASE r.places = {} /\ r.preFailed
           /\ Update(f, [r EXCEPT !.pc = "act", !.left = {}, !.failed = r.vms])
  <2>1. flow'[f] = [r EXCEPT !.pc = "act", !.left = {}, !.failed = r.vms] /\ Others(f)
    BY <1>4, Becomes
  <2>2. /\ flow'[f].kind = r.kind /\ flow'[f].net = r.net /\ flow'[f].vms = r.vms
        /\ flow'[f].gone = r.gone /\ flow'[f].got = r.got /\ flow'[f].places = r.places
        /\ flow'[f].hosts = r.hosts
        /\ flow'[f].preFailed = r.preFailed /\ flow'[f].pc = "act"
        /\ flow'[f].failed = r.vms
    BY <2>1 DEF FlowRecord
  <2> QED BY <1>4, <2>1, <2>2, Zenon
<1>5. r.preFailed \in BOOLEAN
  BY DEF FlowRecord
<1> QED BY <1>1, <1>2, <1>3, <1>4, <1>5 DEF EndItem

LEMMA ItemRaised ==
    ASSUME TypeOK, NEW f \in Flows, ItemRaises(f)
    PROVE  /\ Others(f) /\ Kept(f) /\ UNCHANGED vcenter
           /\ flow'[f].got = flow[f].got /\ flow'[f].hosts = {}
           /\ \/ flow'[f].pc = "pre" /\ flow'[f].left = flow[f].left
              \/ flow'[f].pc = "aborted"
              \/ flow'[f].pc = "act" /\ flow'[f].failed = flow[f].vms
<1> DEFINE r == Reset(f)
<1>1. flow[f] \in FlowRecord
  BY DEF TypeOK
<1>2. /\ r \in FlowRecord /\ r.kind = flow[f].kind /\ r.net = flow[f].net
      /\ r.vms = flow[f].vms /\ r.gone = flow[f].gone /\ r.got = flow[f].got
      /\ r.left = flow[f].left /\ r.preFailed /\ r.hosts = {}
  BY <1>1 DEF Reset, FlowRecord
<1>3. EndItem(f, r) /\ UNCHANGED vcenter
  BY DEF ItemRaises
<1> HIDE DEF r
<1> QED BY <1>2, <1>3, ItemOver DEF Kept

(* Where a step under the lock leads: on, out of the item, or, if an item   *)
(* has raised, to the end of all items, with every action failed.          *)
LEMMA PreMoves ==
    ASSUME TypeOK, NEW f \in Flows, Pre(f), flow[f].left # {}
    PROVE  /\ Others(f) /\ Kept(f) /\ Started(f) /\ flow[f].pc \in InPre
           /\ \/ flow'[f].pc \in InPre \cup {"act"} /\ flow'[f].left # {}
              \/ flow'[f].pc = "act" /\ flow'[f].failed = flow[f].vms
              \/ flow'[f].pc = "aborted"
<1> DEFINE l == flow[f]
<1> USE DEF InPre, PreSteps
<1>t. l \in FlowRecord
  BY DEF TypeOK
<1>g. ASSUME NEW label \in InPre, Goto(f, label)
      PROVE  Others(f) /\ Kept(f) /\ flow'[f].pc \in InPre /\ flow'[f].left # {}
  BY <1>g, GoesTo
<1>s. l.pc \in InPre => Started(f)
  BY DEF Started, At
<1>u. ASSUME NEW r, Update(f, r), r.pc \in InPre, r.left = l.left,
             r.kind = l.kind, r.net = l.net, r.vms = l.vms, r.gone = l.gone
      PROVE  Others(f) /\ Kept(f) /\ flow'[f].pc \in InPre /\ flow'[f].left # {}
  BY <1>u, Becomes DEF Kept
<1>1. CASE LockNetwork(f)
  <2>1. l.pc = "pre"
    BY <1>1 DEF LockNetwork, At
  <2>2. PICK p \in l.places :
            Update(f, [l EXCEPT !.pc = "clear", !.place = p, !.places = @ \ {p},
                                !.todo = Conflicting(l.net)])
    BY <1>1 DEF LockNetwork
  <2> QED BY <1>t, <1>u, <1>s, <2>1, <2>2 DEF FlowRecord
<1>2. ASSUME NEW m \in Generated, PickConflict(f, m)
      PROVE  /\ Others(f) /\ Kept(f) /\ Started(f) /\ flow[f].pc \in InPre
             /\ \/ flow'[f].pc \in InPre \cup {"act"} /\ flow'[f].left # {}
                \/ flow'[f].pc = "act" /\ flow'[f].failed = flow[f].vms
                \/ flow'[f].pc = "aborted"
  <2>1. l.pc = "clear"
    BY <1>2 DEF PickConflict, At
  <2>2. CASE ~Exists(m)
    BY <1>2, <1>s, <2>1, <2>2, ItemRaised DEF PickConflict
  <2>3. CASE Exists(m)
    <3> DEFINE W == {v \in Vms : /\ conn[v] = m
                                 /\ m = l.net => OtherSandbox(f, v)}
    <3>1. Update(f, [l EXCEPT !.pc = "migrate", !.cur = m, !.ref = born[m],
                              !.todo = @ \ {m}, !.vmsLeft = W])
      BY <1>2, <2>3 DEF PickConflict
    <3> HIDE DEF W
    <3> QED BY <1>t, <1>u, <1>s, <2>1, <3>1 DEF FlowRecord
  <2> QED BY <2>2, <2>3
<1>3. ASSUME NEW v \in Vms, CheckVnic(f, v)
      PROVE  /\ Others(f) /\ Kept(f) /\ Started(f) /\ flow[f].pc \in InPre
             /\ flow'[f].pc \in InPre /\ flow'[f].left # {}
  <2>1. l.pc = "migrate"
    BY <1>3 DEF CheckVnic, At
  <2>2. \/ Update(f, [l EXCEPT !.pc = "move", !.victim = v])
        \/ Update(f, [l EXCEPT !.vmsLeft = @ \ {v}])
    BY <1>3, Zenon DEF CheckVnic
  <2>3. CASE Update(f, [l EXCEPT !.pc = "move", !.victim = v])
    BY <1>t, <1>u, <1>s, <2>1, <2>3 DEF FlowRecord
  <2>4. CASE Update(f, [l EXCEPT !.vmsLeft = @ \ {v}])
    BY <1>t, <1>u, <1>s, <2>1, <2>4 DEF FlowRecord
  <2> QED BY <2>2, <2>3, <2>4
<1>4. CASE MoveVnic(f)
  <2>1. l.pc = "move"
        /\ Update(f, [l EXCEPT !.pc = "migrate", !.vmsLeft = @ \ {l.victim}, !.victim = None])
    BY <1>4 DEF MoveVnic, At
  <2> QED BY <1>t, <1>u, <1>s, <2>1 DEF FlowRecord
<1>5. CASE Migrated(f)
  <2>1. l.pc = "migrate"
    BY <1>5 DEF Migrated, At
  <2>2. Update(f, [l EXCEPT !.pc = "clear", !.cur = None]) \/ Goto(f, "wait")
    BY <1>5, Zenon DEF Migrated
  <2>3. CASE Update(f, [l EXCEPT !.pc = "clear", !.cur = None])
    BY <1>t, <1>u, <1>s, <2>1, <2>3 DEF FlowRecord
  <2> QED BY <1>g, <1>s, <2>1, <2>2, <2>3
<1>6. CASE WaitFree(f)
  <2>1. l.pc = "wait" /\ (Goto(f, "destroy") \/ Goto(f, "unhost") \/ ItemRaises(f))
    BY <1>6 DEF WaitFree, At
  <2> QED BY <1>g, <1>s, <2>1, ItemRaised
<1>c. ASSUME Cleared(f)
      PROVE  Others(f) /\ Kept(f) /\ flow'[f].pc \in InPre /\ flow'[f].left # {}
  BY <1>c, <1>t, <1>u DEF Cleared, FlowRecord
<1>7. CASE DestroyConflict(f)
  <2>1. l.pc = "destroy" /\ (Cleared(f) \/ ItemRaises(f))
    BY <1>7 DEF DestroyConflict, At
  <2> QED BY <1>c, <1>s, <2>1, ItemRaised
<1>8. ASSUME NEW h \in Hosts, ClearFromHost(f, h)
      PROVE  /\ Others(f) /\ Kept(f) /\ Started(f) /\ flow[f].pc \in InPre
             /\ flow'[f].pc \in InPre /\ flow'[f].left # {}
  <2>1. l.pc = "unhost" /\ (Cleared(f) \/ Update(f, [l EXCEPT !.hosts = @ \cup {h}]))
    BY <1>8 DEF ClearFromHost, At
  <2>2. CASE Update(f, [l EXCEPT !.hosts = @ \cup {h}])
    BY <1>t, <1>u, <1>s, <2>1, <2>2 DEF FlowRecord
  <2> QED BY <1>c, <1>s, <2>1, <2>2
<1>r. ASSUME NEW label \in InPre, NEW n, Update(f, [l EXCEPT !.ref = n, !.pc = label])
      PROVE  Others(f) /\ Kept(f) /\ flow'[f].pc \in InPre /\ flow'[f].left # {}
  BY <1>r, <1>t, <1>u DEF FlowRecord
<1>9. CASE GetNetwork(f)
  <2>1. l.pc = "clear"
    BY <1>9 DEF GetNetwork, At
  <2>2. CASE ~Exists(l.net)
    BY <1>9, <1>g, <1>s, <2>1, <2>2 DEF GetNetwork
  <2>3. CASE Exists(l.net)
    BY <1>9, <1>r, <1>s, <2>1, <2>3 DEF GetNetwork
  <2> QED BY <2>2, <2>3
<1>10. CASE Validate(f)
  <2>1. l.pc = "validate" /\ (ItemRaises(f) \/ Goto(f, "store") \/ Goto(f, "recreate"))
    BY <1>10 DEF Validate, At
  <2> QED BY <1>g, <1>s, <2>1, ItemRaised
<1>11. CASE Create(f)
  <2>1. l.pc = "create" /\ (ItemRaises(f) \/ Goto(f, "appear"))
    BY <1>11 DEF Create, At
  <2> QED BY <1>g, <1>s, <2>1, ItemRaised
<1>12. CASE Recreate(f)
  <2>1. l.pc = "recreate" /\ (ItemRaises(f) \/ Goto(f, "store"))
    BY <1>12 DEF Recreate, At
  <2> QED BY <1>g, <1>s, <2>1, ItemRaised
<1>13. CASE WaitAppears(f)
  <2>1. /\ l.pc = "appear"
        /\ ItemRaises(f) \/ Update(f, [l EXCEPT !.pc = "store", !.ref = born[l.net]])
    BY <1>13 DEF WaitAppears, At
  <2>2. CASE Update(f, [l EXCEPT !.pc = "store", !.ref = born[l.net]])
    BY <1>t, <1>u, <1>s, <2>1, <2>2 DEF FlowRecord
  <2> QED BY <1>s, <2>1, <2>2, ItemRaised
<1>14. CASE Store(f)
  <2> DEFINE r == [l EXCEPT !.got = l.ref, !.place = None]
  <2>1. /\ r \in FlowRecord /\ r.kind = l.kind /\ r.net = l.net /\ r.vms = l.vms
        /\ r.gone = l.gone /\ r.left = l.left
    BY <1>t DEF FlowRecord
  <2>2. l.pc = "store" /\ EndItem(f, r)
    BY <1>14 DEF Store, At
  <2> HIDE DEF r
  <2> QED BY <1>s, <2>1, <2>2, ItemOver DEF Kept
<1> QED
  BY <1>1, <1>2, <1>3, <1>4, <1>5, <1>6, <1>7, <1>8, <1>9, <1>10, <1>11, <1>12,
     <1>13, <1>14 DEF Pre

(* vCenter lets go of a port group only where no vNIC is in it.             *)
Respects ==
    \A v \in Vms : conn[v] \in Generated /\ PlaceOf(v) \in pg[conn[v]]
                   => PlaceOf(v) \in pg'[conn[v]]
Pulls == \A v \in Vms : conn'[v] = conn[v] \/ (conn[v] # None /\ conn'[v] = Holding)

LEMMA Removes ==
    ASSUME TypeOK, NEW n, NEW p, RemoveAt(n, p)
    PROVE  Respects
BY DEF TypeOK, RemoveAt, Respects, AttachedAt

LEMMA Destroys ==
    ASSUME TypeOK, NEW n, ~Attached(n), pg' = [pg EXCEPT ![n] = {}]
    PROVE  Respects
BY DEF TypeOK, Respects, Attached

LEMMA PlugMoves ==
    ASSUME TypeOK, NEW v \in Vms, Plug(v, Holding)
    PROVE  Pulls /\ conn'[v] \notin Generated
BY ConnectivityAssumption DEF TypeOK, Plug, Pulls, Networks

LEMMA StaysPlugged ==
    ASSUME TypeOK, Plugged, Pulls, Respects
    PROVE  Plugged'
<1> SUFFICES ASSUME NEW v \in Vms, conn'[v] \in Generated
             PROVE  PlaceOf(v) \in pg'[conn'[v]]
  BY DEF Plugged, PlaceOf
<1>1. conn'[v] = conn[v]
  BY ConnectivityAssumption DEF Pulls
<1> QED BY <1>1 DEF Plugged, Respects

(* The steps of a flow that connect or disconnect a vNIC. *)
LEMMA ActMoves ==
    ASSUME TypeOK, NEW f \in Flows, Act(f)
    PROVE  /\ Others(f) /\ Kept(f) /\ flow[f].pc = "act" /\ flow'[f].pc = "act"
           /\ flow'[f].got = flow[f].got /\ flow'[f].preFailed = flow[f].preFailed
           /\ flow'[f].left \subseteq flow[f].left
           /\ UNCHANGED <<pg, born, holder>>
           /\ \/ flow[f].kind = "remove" /\ \E v \in Vms : Plug(v, Holding)
              \/ /\ flow[f].kind = "set"
                 /\ \E v \in flow[f].left :
                       \/ conn[v] = None /\ conn' = conn
                       \/ /\ conn[v] # None /\ Plug(v, Holding)
                          /\ flow'[f].left = flow[f].left
                          /\ flow'[f].failed = flow[f].failed
                       \/ /\ ~Usable(f, v) /\ Plug(v, Holding)
                          /\ flow'[f].failed = flow[f].failed \cup {v}
                       \/ /\ Usable(f, v) /\ conn' = [conn EXCEPT ![v] = flow[f].net]
                          /\ flow'[f].failed = flow[f].failed
<1> DEFINE l == flow[f]
<1>t. l \in FlowRecord
  BY DEF TypeOK
<1>d. ASSUME NEW v, NEW ok \in BOOLEAN, ActionDone(f, v, ok), l.pc = "act"
      PROVE  /\ Others(f) /\ Kept(f) /\ flow'[f].pc = "act" /\ flow'[f].got = l.got
             /\ flow'[f].preFailed = l.preFailed /\ flow'[f].left \subseteq l.left
             /\ flow'[f].failed = IF ok THEN l.failed ELSE l.failed \cup {v}
  <2>1. /\ flow'[f] = [l EXCEPT !.left = @ \ {v},
                                !.failed = IF ok THEN @ ELSE @ \cup {v}]
        /\ Others(f)
    BY <1>d, Becomes DEF ActionDone
  <2> QED BY <1>t, <1>d, <2>1 DEF FlowRecord, Kept
<1>1. ASSUME NEW v \in Vms, RemoveVlan(f, v)
      PROVE  /\ Others(f) /\ Kept(f) /\ l.pc = "act" /\ flow'[f].pc = "act"
             /\ flow'[f].got = l.got /\ flow'[f].preFailed = l.preFailed
             /\ flow'[f].left \subseteq l.left
             /\ UNCHANGED <<pg, born, holder>>
             /\ l.kind = "remove" /\ Plug(v, Holding)
  <2>1. (v \in l.gone \/ conn[v] # None) \in BOOLEAN
    OBVIOUS
  <2> QED BY <1>1, <1>d, <2>1 DEF RemoveVlan, At
<1>2. ASSUME NEW v \in Vms, Clear(f, v)
      PROVE  /\ Others(f) /\ Kept(f) /\ l.pc = "act" /\ flow'[f].pc = "act"
             /\ flow'[f].got = l.got /\ flow'[f].preFailed = l.preFailed
             /\ flow'[f].left \subseteq l.left
             /\ UNCHANGED <<pg, born, holder>> /\ l.kind = "set" /\ v \in l.left
             /\ \/ conn[v] = None /\ conn' = conn
                \/ /\ conn[v] # None /\ Plug(v, Holding)
                   /\ flow'[f].left = l.left /\ flow'[f].failed = l.failed
  <2>1. l.pc = "act" /\ UNCHANGED <<pg, born, holder>> /\ l.kind = "set" /\ v \in l.left
    BY <1>2 DEF Clear, At
  <2>2. CASE conn[v] = None
    BY <1>2, <1>d, <2>1, <2>2 DEF Clear
  <2>3. CASE conn[v] # None
    <3>1. Plug(v, Holding) /\ flow'[f] = [l EXCEPT !.cleared = @ \cup {v}] /\ Others(f)
      BY <1>2, <2>3, Becomes DEF Clear
    <3> QED BY <1>t, <2>1, <2>3, <3>1 DEF FlowRecord, Kept
  <2> QED BY <2>2, <2>3
<1>3. ASSUME NEW v \in Vms, SetVlan(f, v)
      PROVE  /\ Others(f) /\ Kept(f) /\ l.pc = "act" /\ flow'[f].pc = "act"
             /\ flow'[f].got = l.got /\ flow'[f].preFailed = l.preFailed
             /\ flow'[f].left \subseteq l.left
             /\ UNCHANGED <<pg, born, holder>> /\ l.kind = "set" /\ v \in l.left
             /\ \/ /\ ~Usable(f, v) /\ Plug(v, Holding)
                   /\ flow'[f].failed = l.failed \cup {v}
                \/ /\ Usable(f, v) /\ conn' = [conn EXCEPT ![v] = l.net]
                   /\ flow'[f].failed = l.failed
  <2>1. /\ l.pc = "act" /\ UNCHANGED <<pg, born, holder>> /\ l.kind = "set" /\ v \in l.left
        /\ Plug(v, IF Usable(f, v) THEN l.net ELSE Holding)
        /\ ActionDone(f, v, Usable(f, v))
    BY <1>3 DEF SetVlan, At
  <2>2. Usable(f, v) \in BOOLEAN
    BY DEF Usable
  <2>3. /\ Others(f) /\ Kept(f) /\ flow'[f].pc = "act" /\ flow'[f].got = l.got
        /\ flow'[f].preFailed = l.preFailed /\ flow'[f].left \subseteq l.left
        /\ flow'[f].failed = IF Usable(f, v) THEN l.failed ELSE l.failed \cup {v}
    BY <1>d, <2>1, <2>2
  <2>4. CASE Usable(f, v)
    <3>1. conn' = [conn EXCEPT ![v] = l.net]
      BY <2>1, <2>4 DEF Plug, Usable
    <3> QED BY <2>1, <2>3, <2>4, <3>1
  <2>5. CASE ~Usable(f, v)
    BY <2>1, <2>3, <2>5
  <2> QED BY <2>4, <2>5
<1>4. PICK v \in Vms : RemoveVlan(f, v) \/ Clear(f, v) \/ SetVlan(f, v)
  BY DEF Act
<1>5. CASE RemoveVlan(f, v)
  BY <1>1, <1>5
<1>6. CASE Clear(f, v)
  BY <1>2, <1>6
<1>7. CASE SetVlan(f, v)
  BY <1>3, <1>7
<1> QED BY <1>4, <1>5, <1>6, <1>7

(* The steps of post_connectivity. *)
LEMMA PostMoves ==
    ASSUME TypeOK, NEW f \in Flows, Post(f)
    PROVE  /\ Others(f) /\ Kept(f) /\ flow'[f].got = flow[f].got
           /\ flow'[f].failed = flow[f].failed /\ flow'[f].preFailed = flow[f].preFailed
           /\ UNCHANGED <<born, conn, holder>> /\ Shrinks /\ Respects
           /\ flow'[f].pc \in {"post", "postwait", "postdestroy", "postunhost",
                               "done", "broken"}
           /\ \/ /\ flow[f].pc = "act" /\ pg' = pg
                 /\ \/ ToRemove(f) = {} /\ flow[f].left = {} /\ flow'[f].pc = "done"
                    \/ ToRemove(f) # {} /\ flow'[f].pc = "post"
              \/ /\ flow[f].pc = "post" /\ pg' = pg
                 /\ \/ flow'[f].pc = "postwait" /\ flow'[f].ref = born[flow[f].net]
                    \/ ~Exists(flow[f].net)
              \/ /\ flow[f].pc = "postwait" /\ pg' = pg /\ flow'[f].ref = flow[f].ref
                 /\ \/ flow'[f].pc \in {"postdestroy", "broken"}
                    \/ Attached(flow[f].net)
              \/ /\ flow[f].pc = "postdestroy"
                 /\ Distributed => pg' = [pg EXCEPT ![flow[f].net] =
                        IF Alive(flow[f].net, flow[f].ref) /\ ~Attached(flow[f].net)
                        THEN {} ELSE @]
              \/ flow[f].pc = "postunhost"
<1> DEFINE l == flow[f]
<1>t. l \in FlowRecord
  BY DEF TypeOK
<1>s. pg' = pg => Shrinks /\ Respects
  BY DEF Shrinks, Respects
<1>g. ASSUME NEW label, Goto(f, label)
      PROVE  /\ Others(f) /\ Kept(f) /\ flow'[f].pc = label /\ flow'[f].ref = l.ref
             /\ flow'[f].got = l.got /\ flow'[f].failed = l.failed
             /\ flow'[f].preFailed = l.preFailed
  BY <1>g, GoesTo
<1>1. CASE ActionsDone(f)
  <2>1. l.pc = "act" /\ l.left = {} /\ UNCHANGED <<vcenter, holder>>
    BY <1>1 DEF ActionsDone, At
  <2>2. CASE ToRemove(f) = {}
    BY <1>1, <1>g, <1>s, <2>1, <2>2 DEF ActionsDone, vcenter
  <2>3. CASE ToRemove(f) # {}
    <3>1. PICK v \in ToRemove(f) : Update(f, [l EXCEPT !.pc = "post", !.victim = v])
      BY <1>1, <2>3 DEF ActionsDone
    <3>2. flow'[f] = [l EXCEPT !.pc = "post", !.victim = v] /\ Others(f)
      BY <3>1, Becomes
    <3>3. /\ Kept(f) /\ flow'[f].got = l.got /\ flow'[f].failed = l.failed
          /\ flow'[f].preFailed = l.preFailed /\ flow'[f].pc = "post"
      BY <1>t, <3>2 DEF FlowRecord, Kept
    <3> QED BY <1>s, <2>1, <2>3, <3>2, <3>3 DEF vcenter
  <2> QED BY <2>2, <2>3
<1>2. CASE PostGet(f)
  <2>1. l.pc = "post" /\ UNCHANGED <<vcenter, holder>>
    BY <1>2 DEF PostGet, At
  <2>2. CASE Exists(l.net)
    <3>1. flow'[f] = [l EXCEPT !.pc = "postwait", !.ref = born[l.net]] /\ Others(f)
      BY <1>2, <2>2, Becomes DEF PostGet
    <3>2. /\ Kept(f) /\ flow'[f].got = l.got /\ flow'[f].failed = l.failed
          /\ flow'[f].preFailed = l.preFailed /\ flow'[f].pc = "postwait"
          /\ flow'[f].ref = born[l.net]
      BY <1>t, <3>1 DEF FlowRecord, Kept
    <3> QED BY <1>s, <2>1, <3>1, <3>2 DEF vcenter
  <2>3. CASE ~Exists(l.net)
    BY <1>2, <1>g, <1>s, <2>1, <2>3 DEF PostGet, vcenter
  <2> QED BY <2>2, <2>3
<1>3. CASE PostWait(f)
  <2>1. l.pc = "postwait" /\ UNCHANGED <<vcenter, holder>>
    BY <1>3 DEF PostWait, At
  <2>2. \/ Goto(f, "broken") \/ Goto(f, "postdestroy")
        \/ Goto(f, "done") /\ Attached(l.net)
    BY <1>3 DEF PostWait
  <2> QED BY <1>g, <1>s, <2>1, <2>2 DEF vcenter
<1>4. CASE PostDestroyDv(f)
  <2>1. /\ l.pc = "postdestroy" /\ Goto(f, "done") /\ UNCHANGED <<born, conn, holder>>
        /\ pg' = [pg EXCEPT ![l.net] =
                     IF Alive(l.net, l.ref) /\ ~Attached(l.net) THEN {} ELSE @]
    BY <1>4 DEF PostDestroyDv, At
  <2>2. Shrinks
    BY <2>1 DEF TypeOK, Shrinks
  <2>3. Respects
    <3>1. CASE Alive(l.net, l.ref) /\ ~Attached(l.net)
      BY <2>1, <3>1, Destroys
    <3>2. CASE ~(Alive(l.net, l.ref) /\ ~Attached(l.net))
      BY <2>1, <3>2 DEF TypeOK, Respects
    <3> QED BY <3>1, <3>2
  <2> QED BY <1>g, <2>1, <2>2, <2>3
<1>5. CASE PostDestroyHost(f)
  <2>1. l.pc = "postdestroy" /\ ~Distributed /\ UNCHANGED <<born, conn, holder>>
    BY <1>5 DEF PostDestroyHost, At
  <2>2. /\ Goto(f, "done") \/ Goto(f, "broken")
        /\ RemoveAt(l.net, HostOf[l.victim]) \/ pg' = pg
    BY <1>5 DEF PostDestroyHost
  <2>3. Shrinks /\ Respects
    BY <1>s, <2>2, RemoveShrinks, Removes
  <2> QED BY <1>g, <2>1, <2>2, <2>3
<1>6. CASE PostDestroyEverywhere(f)
  <2>1. l.pc = "postdestroy" /\ ~Distributed /\ UNCHANGED <<vcenter, holder>>
        /\ (Goto(f, "postunhost") \/ Goto(f, "broken"))
    BY <1>6 DEF PostDestroyEverywhere, At
  <2> QED BY <1>g, <1>s, <2>1 DEF vcenter
<1>7. ASSUME NEW h \in Hosts, PostFromHost(f, h)
      PROVE  /\ Others(f) /\ Kept(f) /\ flow'[f].got = l.got
             /\ flow'[f].failed = l.failed /\ flow'[f].preFailed = l.preFailed
             /\ UNCHANGED <<born, conn, holder>> /\ Shrinks /\ Respects
             /\ flow'[f].pc \in {"postunhost", "done"} /\ l.pc = "postunhost"
  <2> DEFINE label == IF l.hosts \cup {h} = Hosts THEN "done" ELSE l.pc
  <2>1. /\ l.pc = "postunhost" /\ UNCHANGED <<born, conn, holder>> /\ RemoveAt(l.net, h)
        /\ Update(f, [l EXCEPT !.hosts = @ \cup {h}, !.pc = label])
    BY <1>7 DEF PostFromHost, At
  <2>2. label \in {"postunhost", "done"}
    BY <2>1
  <2> HIDE DEF label
  <2>3. flow'[f] = [l EXCEPT !.hosts = @ \cup {h}, !.pc = label] /\ Others(f)
    BY <2>1, Becomes
  <2>4. /\ Kept(f) /\ flow'[f].got = l.got /\ flow'[f].failed = l.failed
        /\ flow'[f].preFailed = l.preFailed /\ flow'[f].pc = label
    BY <1>t, <2>3 DEF FlowRecord, Kept
  <2>5. Shrinks /\ Respects
    BY <2>1, RemoveShrinks, Removes
  <2> QED BY <2>1, <2>2, <2>3, <2>4, <2>5
<1> QED BY <1>1, <1>2, <1>3, <1>4, <1>5, <1>6, <1>7 DEF Post

(* A flow is under the lock, or about to take it, in _get_or_create_network. *)
LEMMA PrePc == ASSUME NEW f \in Flows, Pre(f) PROVE flow[f].pc \in InPre
BY DEF Pre, LockNetwork, PickConflict, CheckVnic, MoveVnic, Migrated, WaitFree,
       DestroyConflict, ClearFromHost, GetNetwork, Validate, Create, Recreate,
       WaitAppears, Store, At, InPre, PreSteps

(* The steps under the lock move VMs to the holding network at most. *)
LEMMA PreTouches ==
    ASSUME TypeOK, NEW f \in Flows, Pre(f)
    PROVE  Pulls /\ Respects
<1>1. UNCHANGED <<pg, conn>> => Pulls /\ Respects
  BY DEF Pulls, Respects
<1>2. conn' = conn => Pulls
  BY DEF Pulls
<1>3. pg' = pg => Respects
  BY DEF Respects
<1>4. ItemRaises(f) => UNCHANGED <<pg, conn>>
  BY DEF ItemRaises, vcenter
<1>5. AddPortGroup(f) => Pulls /\ Respects
  BY <1>2 DEF TypeOK, AddPortGroup, Respects
<1>6. ASSUME MoveVnic(f) PROVE Pulls /\ Respects
  <2>1. Plug(flow[f].victim, Holding) /\ pg' = pg
    BY <1>6 DEF MoveVnic
  <2>2. Pulls
    BY <2>1 DEF TypeOK, Plug, Pulls
  <2> QED BY <1>3, <2>1, <2>2
<1>7. ASSUME DestroyConflict(f) PROVE Pulls /\ Respects
  <2>1. CASE ~Attached(flow[f].cur) /\ pg' = [pg EXCEPT ![flow[f].cur] = {}] /\ conn' = conn
    BY <1>2, <2>1, Destroys
  <2>2. CASE UNCHANGED <<pg, conn>>
    BY <1>1, <2>2
  <2>3. \/ ItemRaises(f) \/ UNCHANGED vcenter
        \/ /\ ~Attached(flow[f].cur) /\ conn' = conn
           /\ pg' = [pg EXCEPT ![flow[f].cur] = {}]
    BY <1>7 DEF DestroyConflict
  <2> QED BY <1>4, <2>1, <2>2, <2>3 DEF vcenter
<1>8. ASSUME NEW h \in Hosts, ClearFromHost(f, h) PROVE Pulls /\ Respects
  <2>1. RemoveAt(flow[f].cur, h) /\ conn' = conn
    BY <1>8 DEF ClearFromHost
  <2> QED BY <1>2, <2>1, Removes
<1>9. LockNetwork(f) => UNCHANGED vcenter
  BY DEF LockNetwork
<1>10. ASSUME NEW m \in Generated, PickConflict(f, m) PROVE ItemRaises(f) \/ UNCHANGED vcenter
  BY <1>10 DEF PickConflict
<1>11. ASSUME NEW v \in Vms, CheckVnic(f, v) PROVE UNCHANGED vcenter
  BY <1>11 DEF CheckVnic
<1>12. Migrated(f) => UNCHANGED vcenter
  BY DEF Migrated
<1>13. WaitFree(f) => ItemRaises(f) \/ UNCHANGED vcenter
  BY DEF WaitFree
<1>14. GetNetwork(f) => UNCHANGED vcenter
  BY DEF GetNetwork
<1>15. Validate(f) => ItemRaises(f) \/ UNCHANGED vcenter
  BY DEF Validate
<1>16. Create(f) => ItemRaises(f) \/ UNCHANGED vcenter \/ AddPortGroup(f)
  BY DEF Create
<1>17. Recreate(f) => ItemRaises(f) \/ AddPortGroup(f)
  BY DEF Recreate
<1>18. WaitAppears(f) => ItemRaises(f) \/ UNCHANGED vcenter
  BY DEF WaitAppears
<1>19. Store(f) => UNCHANGED vcenter
  BY DEF Store
<1>20. UNCHANGED vcenter => UNCHANGED <<pg, conn>>
  BY DEF vcenter
<1> QED
  BY <1>1, <1>4, <1>5, <1>6, <1>7, <1>8, <1>9, <1>10, <1>11, <1>12, <1>13, <1>14,
     <1>15, <1>16, <1>17, <1>18, <1>19, <1>20 DEF Pre

LEMMA StartMoves ==
    ASSUME TypeOK, NEW f \in Flows, NEW q \in Requests, Start(f, q)
    PROVE  /\ Others(f) /\ flow[f].pc = "idle" /\ UNCHANGED <<pg, born, conn, holder>>
           /\ flow'[f].kind = q.kind /\ flow'[f].net = q.net /\ flow'[f].vms = q.vms
           /\ flow'[f].left = q.vms /\ flow'[f].vms # {} /\ flow'[f].got = 0
           /\ ~flow'[f].preFailed /\ flow'[f].failed = {} /\ flow'[f].hosts = {}
           /\ flow'[f].gone = {v \in q.vms : conn[v] = None}
           /\ \/ /\ flow'[f].pc = "pre" /\ q.kind = "set" /\ q.net \in Generated
                 /\ flow'[f].places = {PlaceOf(v) : v \in q.vms}
              \/ flow'[f].pc = "act" /\ ~(q.kind = "set" /\ q.net \in Generated)
              \/ flow'[f].pc = "aborted" /\ flow'[f].gone # {}
<1> DEFINE gone == {v \in q.vms : conn[v] = None}
           creates == q.kind = "set" /\ q.net \in Generated
           places == IF creates THEN {PlaceOf(v) : v \in q.vms} ELSE {}
           label == IF ~creates THEN "act" ELSE IF gone = {} THEN "pre" ELSE "aborted"
<1>1. q.vms # {}
  BY ConnectivityAssumption
<1>2. Update(f, [IdleFlow EXCEPT
            !.kind = q.kind, !.net = q.net, !.vms = q.vms, !.left = q.vms,
            !.gone = gone, !.places = places, !.pc = label])
      /\ UNCHANGED <<vcenter, holder>> /\ flow[f].pc = "idle"
  BY DEF Start, At
<1>3. \/ label = "pre" /\ creates /\ places = {PlaceOf(v) : v \in q.vms}
      \/ label = "act" /\ ~creates
      \/ label = "aborted" /\ gone # {}
  OBVIOUS
<1>4. gone = {v \in q.vms : conn[v] = None}
  OBVIOUS
<1> HIDE DEF label, places, gone
<1>5. flow'[f] = [IdleFlow EXCEPT
            !.kind = q.kind, !.net = q.net, !.vms = q.vms, !.left = q.vms,
            !.gone = gone, !.places = places, !.pc = label]
      /\ Others(f)
  BY <1>2, Becomes
<1>6. /\ flow'[f].kind = q.kind /\ flow'[f].net = q.net /\ flow'[f].vms = q.vms
      /\ flow'[f].left = q.vms /\ flow'[f].gone = gone /\ flow'[f].places = places
      /\ flow'[f].pc = label /\ flow'[f].got = 0 /\ flow'[f].preFailed = FALSE
      /\ flow'[f].failed = {} /\ flow'[f].hosts = {}
  BY <1>5 DEF IdleFlow
<1> QED BY <1>1, <1>2, <1>3, <1>4, <1>5, <1>6 DEF vcenter

-----------------------------------------------------------------------------
Steady == IInv /\ (\A f \in Flows : Whole(f)) /\ Plugged

LEMMA InitSteady == Init => Steady
<1> SUFFICES ASSUME Init PROVE Steady
  OBVIOUS
<1>1. IInv
  BY InitInv
<1>2. \A f \in Flows : flow[f].pc = "idle"
  BY DEF Init, IdleFlow
<1>3. \A f \in Flows : Whole(f)
  BY <1>2 DEF Whole, Started, At, InPre, PreSteps
<1>4. Plugged
  BY DEF Init, Plugged
<1> QED BY <1>1, <1>3, <1>4 DEF Steady

(* A step of one flow leaves the others as they were. *)
LEMMA WholeOthers ==
    ASSUME NEW f \in Flows, \A g \in Flows : Whole(g), Others(f), Whole(f)'
    PROVE  \A g \in Flows : Whole(g)'
<1>1. ASSUME NEW g \in Flows \ {f} PROVE Whole(g)'
  BY <1>1 DEF Others, Whole, Started, At
<1> QED BY <1>1

LEMMA StepSteady ==
    ASSUME Steady, NEW f \in Flows,
           (\E q \in Requests : Start(f, q)) \/ Pre(f) \/ Act(f) \/ Post(f)
    PROVE  Steady'
<1>t. TypeOK /\ LockHeld /\ Plugged /\ Whole(f) /\ \A g \in Flows : Whole(g)
  BY DEF Steady, IInv
<1>i. IInv'
  BY KindPreserves, StartStep, PreStep, ActStep, PostStep DEF Steady
<1>1. CASE \E q \in Requests : Start(f, q)
  <2>1. PICK q \in Requests : Start(f, q)
    BY <1>1
  <2>2. Whole(f)' /\ Others(f) /\ UNCHANGED <<pg, conn>>
    BY <1>t, <2>1, StartMoves DEF Whole, Started, At, InPre, PreSteps
  <2>3. Plugged'
    BY <1>t, <2>2 DEF Plugged, PlaceOf
  <2> QED BY <1>i, <1>t, <2>2, <2>3, WholeOthers DEF Steady
<1>2. CASE Pre(f)
  <2>1. flow[f].pc \in InPre
    BY <1>2, PrePc
  <2>2. flow[f].left # {} /\ flow[f].kind = "set" /\ flow[f].vms # {}
    BY <1>t, <2>1 DEF Whole, Started, At, InPre, PreSteps
  <2>3. Whole(f)' /\ Others(f)
    BY <1>2, <1>t, <2>2, PreMoves DEF Whole, Started, At, InPre, PreSteps, Kept
  <2>4. Plugged'
    BY <1>2, <1>t, PreTouches, StaysPlugged
  <2> QED BY <1>i, <1>t, <2>3, <2>4, WholeOthers DEF Steady
<1>3. CASE Act(f)
  <2>1. Whole(f)' /\ Others(f) /\ pg' = pg
    BY <1>3, <1>t, ActMoves DEF Whole, Started, At, InPre, PreSteps, Kept
  <2>2. Respects
    BY <2>1 DEF Respects
  <2>3. ASSUME NEW v \in Vms, conn' = [conn EXCEPT ![v] = flow[f].net], Usable(f, v)
        PROVE  Plugged'
    BY <1>t, <2>1, <2>3 DEF Plugged, PlaceOf, Usable, TypeOK
  <2>4. Pulls => Plugged'
    BY <1>t, <2>2, StaysPlugged
  <2>5. conn' = conn => Pulls
    BY DEF Pulls
  <2>6. flow[f].left \subseteq Vms
    BY <1>t DEF TypeOK, FlowRecord
  <2>7. Plugged'
    BY <1>3, <1>t, <2>3, <2>4, <2>5, <2>6, ActMoves, PlugMoves
  <2> QED BY <1>i, <1>t, <2>1, <2>7, WholeOthers DEF Steady
<1>4. CASE Post(f)
  <2>1. flow[f].pc # "idle"
    BY <1>4, <1>t, PostMoves
  <2>2. Whole(f)' /\ Others(f)
    BY <1>4, <1>t, <2>1, PostMoves DEF Whole, Started, At, InPre, PreSteps, Kept
  <2>3. Pulls
    BY <1>4, <1>t, PostMoves DEF Pulls
  <2>4. Plugged'
    BY <1>4, <1>t, <2>3, PostMoves, StaysPlugged
  <2> QED BY <1>i, <1>t, <2>2, <2>4, WholeOthers DEF Steady
<1> QED BY <1>1, <1>2, <1>3, <1>4

LEMMA NextSteady == Steady /\ [Next]_vars => Steady'
<1> SUFFICES ASSUME Steady, [Next]_vars PROVE Steady'
  OBVIOUS
<1>i. IInv'
  BY NextInv DEF Steady
<1>1. CASE \E v \in Vms : DeleteVm(v)
  <2>1. PICK v \in Vms : DeleteVm(v)
    BY <1>1
  <2>2. pg' = pg /\ flow' = flow /\ \A w \in Vms : conn'[w] \in {conn[w], None}
    BY <2>1 DEF DeleteVm, Steady, IInv, TypeOK
  <2>3. \A f \in Flows : Whole(f)'
    BY <2>2 DEF Steady, Whole, Started, At
  <2>4. None \notin Generated
    BY ConnectivityAssumption DEF Networks
  <2>5. Plugged'
    BY <2>2, <2>4 DEF Steady, Plugged, PlaceOf
  <2> QED BY <1>i, <2>3, <2>5 DEF Steady
<1>2. ASSUME NEW f \in Flows,
             (\E q \in Requests : Start(f, q)) \/ Pre(f) \/ Act(f) \/ Post(f)
      PROVE  Steady'
  BY <1>2, StepSteady
<1>3. CASE UNCHANGED vars
  BY <1>i, <1>3 DEF vars, Steady, Whole, Started, At, Plugged, PlaceOf
<1> QED BY <1>1, <1>2, <1>3 DEF Next

LEMMA AlwaysSteady == Spec => []Steady
BY InitSteady, NextSteady, PTL DEF Spec

StepBy(f) == (\E q \in Requests : Start(f, q)) \/ Pre(f) \/ Act(f) \/ Post(f)

(* What every step of a flow keeps: what it was asked, and that a VM that   *)
(* is gone stays so.                                                        *)
LEMMA StepMoves ==
    ASSUME Steady, NEW f \in Flows, StepBy(f)
    PROVE  /\ Others(f) /\ (Started(f) => Kept(f)) /\ Started(f)'
           /\ flow[f].pc \notin {"done", "aborted", "broken"}
           /\ \A v \in Vms : conn[v] = None => conn'[v] = None
<1>t. TypeOK /\ Whole(f)
  BY DEF Steady, IInv
<1>1. CASE \E q \in Requests : Start(f, q)
  BY <1>1, <1>t, StartMoves DEF Started, At
<1>2. CASE Pre(f)
  <2>1. flow[f].left # {} /\ flow[f].pc \in InPre
    BY <1>2, <1>t, PrePc DEF Whole
  <2> QED BY <1>2, <1>t, <2>1, PreMoves, PreTouches DEF Started, At, InPre, PreSteps, Pulls
<1>3. CASE Act(f)
  <2>1. /\ flow[f].pc = "act" /\ flow'[f].pc = "act" /\ Others(f) /\ Kept(f)
        /\ flow[f].left \subseteq Vms
    BY <1>3, <1>t, ActMoves DEF TypeOK, FlowRecord
  <2>2. \A v \in Vms : Plug(v, Holding) => \A w \in Vms : conn[w] = None => conn'[w] = None
    BY <1>t, PlugMoves DEF Pulls
  <2>3. \A v \in Vms : Usable(f, v) /\ conn' = [conn EXCEPT ![v] = flow[f].net]
            => \A w \in Vms : conn[w] = None => conn'[w] = None
    BY <1>t DEF TypeOK, Usable
  <2>4. \A w \in Vms : conn[w] = None => conn'[w] = None
    BY <1>3, <1>t, <2>1, <2>2, <2>3, ActMoves
  <2> QED BY <2>1, <2>4 DEF Started, At
<1>4. CASE Post(f)
  BY <1>4, <1>t, PostMoves DEF Started, At
<1> QED BY <1>1, <1>2, <1>3, <1>4 DEF StepBy

-----------------------------------------------------------------------------
(* NoLeak on a DvSwitch.  While all commands are about one network, a       *)
(* network that exists unused has a flow that will still connect to it, or  *)
(* that will look whether it is in use, and remove that very object.        *)

About(n) ==
    /\ \A v \in Vms : conn[v] # None
    /\ \A f \in Flows : Started(f) => flow[f].net = n
    /\ \A f \in Flows : flow[f].pc \notin {"aborted", "broken"}

Responsible(f, n) ==
    \/ flow[f].pc \in InPre \cup {"post"}
    \/ flow[f].pc = "act" /\ (flow[f].left # {} \/ ToRemove(f) # {})
    \/ flow[f].pc \in {"postwait", "postdestroy"} /\ flow[f].ref = born[n]

Watched(n) ==
    About(n) /\ Exists(n) /\ ~Attached(n) => \E f \in Flows : Responsible(f, n)

(* What all commands are about, they have been about from the start. *)
LEMMA AboutBefore ==
    ASSUME Steady, NEW f \in Flows, StepBy(f), NEW n, About(n)'
    PROVE  About(n)
BY StepMoves DEF About, Others, Kept, Started, At

LEMMA WatchedStep ==
    ASSUME Steady, Steady', Distributed, NEW f \in Flows, StepBy(f),
           NEW n \in Generated, Watched(n)
    PROVE  Watched(n)'
<1> DEFINE l == flow[f]
<1> SUFFICES ASSUME About(n)', Exists(n)', ~Attached(n)'
             PROVE  \E g \in Flows : Responsible(g, n)'
  BY DEF Watched
<1>t. TypeOK /\ Whole(f) /\ Whole(f)' /\ About(n) /\ LockHeld
  BY AboutBefore DEF Steady, IInv
<1>m. Others(f) /\ Started(f)' /\ flow'[f].net = n /\ flow'[f].pc \notin {"aborted", "broken"}
  BY StepMoves DEF About
<1>n. Started(f) => l.net = n
  BY <1>t DEF About
(* Where f was not the one to look, or passes nothing on, another one is. *)
<1>o. ASSUME ~Responsible(f, n), UNCHANGED <<born, conn>>, Exists(n)
      PROVE  \E g \in Flows : Responsible(g, n)'
  <2>1. ~Attached(n)
    BY <1>o DEF Attached
  <2>2. PICK g \in Flows : Responsible(g, n)
    BY <1>o, <1>t, <2>1 DEF Watched
  <2>3. g # f
    BY <1>o, <2>2
  <2>4. flow'[g] = flow[g]
    BY <1>m, <2>3 DEF Others
  <2> QED BY <1>o, <2>2, <2>4 DEF Responsible, ToRemove, Disused
<1>1. CASE \E q \in Requests : Start(f, q)
  <2>1. l.pc = "idle" /\ UNCHANGED <<pg, born, conn>>
    BY <1>1, <1>t, StartMoves
  <2> QED BY <1>o, <2>1 DEF Responsible, InPre, PreSteps, Exists
<1>2. CASE Pre(f)
  <2>1. l.pc \in InPre /\ l.left # {} /\ l.kind = "set" /\ l.vms # {}
    BY <1>2, <1>t, PrePc DEF Whole, Started, At, InPre, PreSteps
  <2>2. Kept(f)
    BY <1>2, <1>t, <2>1, PreMoves
  <2>3. \/ flow'[f].pc \in InPre
        \/ flow'[f].pc = "act" /\ flow'[f].left # {}
        \/ flow'[f].pc = "act" /\ flow'[f].failed = l.vms
    BY <1>2, <1>t, <1>m, <2>1, PreMoves
  <2>4. flow'[f].failed # {} => ToRemove(f)' # {}
    BY <1>m, <2>1, <2>2 DEF ToRemove, Disused, Kept
  <2> QED BY <2>1, <2>3, <2>4 DEF Responsible
<1>3. CASE Act(f)
  <2>1. /\ l.pc = "act" /\ flow'[f].pc = "act" /\ Kept(f) /\ l.net = n /\ l.left \subseteq Vms
        /\ \A v \in Vms : conn[v] # None
    BY <1>3, <1>t, <1>n, ActMoves DEF Started, At, TypeOK, FlowRecord, About
  <2>2. l.vms # {}
    BY <1>t, <2>1 DEF Whole, Started, At
  <2>3. CASE l.kind = "remove"
    <3>1. ToRemove(f)' # {}
      BY <2>1, <2>2, <2>3 DEF ToRemove, Disused, Kept
    <3> QED BY <2>1, <3>1 DEF Responsible
  <2>4. ASSUME NEW v \in l.left, Usable(f, v), conn' = [conn EXCEPT ![v] = l.net]
        PROVE  FALSE
    BY <1>t, <2>1, <2>4 DEF Attached, TypeOK
  <2>5. ASSUME flow'[f].failed # {}, l.kind = "set"
        PROVE  \E g \in Flows : Responsible(g, n)'
    <3>1. ToRemove(f)' # {}
      BY <2>1, <2>5 DEF ToRemove, Disused, Kept
    <3> QED BY <2>1, <3>1 DEF Responsible
  <2>6. ASSUME NEW v \in l.left, flow'[f].left = l.left
        PROVE  \E g \in Flows : Responsible(g, n)'
    BY <2>1, <2>6 DEF Responsible
  <2> QED BY <1>3, <1>t, <2>1, <2>3, <2>4, <2>5, <2>6, ActMoves
<1>4. CASE Post(f)
  <2>1. Started(f) /\ l.net = n /\ Kept(f) /\ UNCHANGED <<born, conn>> /\ Exists(n)
    <3>1. Started(f) /\ Kept(f) /\ UNCHANGED <<born, conn>> /\ Shrinks
      BY <1>4, <1>t, PostMoves DEF Started, At
    <3> QED BY <1>n, <3>1 DEF Shrinks, Exists
  <2>2. ~Attached(n)
    BY <2>1 DEF Attached
  <2>3. CASE l.pc = "act"
    <3>1. CASE ToRemove(f) = {} /\ l.left = {}
      BY <1>o, <2>1, <2>3, <3>1 DEF Responsible, InPre, PreSteps
    <3> QED BY <1>4, <1>t, <2>3, <3>1, PostMoves DEF Responsible
  <2>4. CASE l.pc = "post"
    BY <1>4, <1>t, <2>1, <2>4, PostMoves DEF Responsible
  <2>5. CASE l.pc = "postwait"
    <3>1. l.ref = born[n] => \E g \in Flows : Responsible(g, n)'
      BY <1>4, <1>t, <1>m, <2>1, <2>2, <2>5, PostMoves DEF Responsible
    <3> QED BY <1>o, <2>1, <2>5, <3>1 DEF Responsible, InPre, PreSteps
  <2>6. CASE l.pc = "postdestroy"
    <3>1. CASE l.ref = born[n]
      <4>1. pg' = [pg EXCEPT ![n] = {}]
        BY <1>4, <1>t, <2>1, <2>2, <2>6, <3>1, PostMoves DEF Alive
      <4> QED BY <1>t, <4>1 DEF TypeOK, Exists
    <3> QED BY <1>o, <2>1, <2>6, <3>1 DEF Responsible, InPre, PreSteps
  <2>7. CASE l.pc = "postunhost"
    BY <1>o, <2>1, <2>7 DEF Responsible, InPre, PreSteps
  <2> QED BY <1>4, <1>t, <2>3, <2>4, <2>5, <2>6, <2>7, PostMoves
<1> QED BY <1>1, <1>2, <1>3, <1>4 DEF StepBy

Attended == \A n \in Generated : Watched(n)

LEMMA InitAttended == Init => Attended
BY DEF Init, Attended, Watched, Exists, Attached

LEMMA NextAttended == Distributed /\ Steady /\ Steady' /\ Attended /\ [Next]_vars => Attended'
<1> SUFFICES ASSUME Distributed, Steady, Steady', Attended, [Next]_vars,
                    NEW n \in Generated
             PROVE  Watched(n)'
  BY DEF Attended
<1>1. CASE \E v \in Vms : DeleteVm(v)
  <2>1. \E v \in Vms : conn'[v] = None
    BY <1>1 DEF DeleteVm, Steady, IInv, TypeOK
  <2> QED BY <2>1 DEF Watched, About
<1>2. ASSUME NEW f \in Flows, StepBy(f) PROVE Watched(n)'
  BY <1>2, WatchedStep DEF Attended
<1>3. CASE UNCHANGED vars
  BY <1>3 DEF vars, Attended, Watched, About, Exists, Attached, Started, At, Responsible,
              ToRemove, Disused
<1> QED BY <1>1, <1>2, <1>3 DEF Next, StepBy

(* After commands about one network of a DvSwitch have all succeeded it is  *)
(* in use or gone: for any number of commands, in any order of their looks  *)
(* at it, also when one removes what another has just created               *)
(* (post_connectivity, _remove_pg, connectivity_flow.py:199-218, 319-351).  *)
THEOREM NothingLeaks == ASSUME Distributed PROVE Spec => []NoLeak
<1>1. Steady /\ Attended => NoLeak
  <2> SUFFICES ASSUME Steady, Attended, NEW n \in Generated, Over,
                      \A f \in Flows : Started(f) => flow[f].net = n,
                      \A v \in Vms : conn[v] # None, NEW p \in pg[n]
               PROVE  AttachedAt(n, p)
    BY DEF NoLeak
  <2>1. About(n) /\ Exists(n)
    BY DEF About, Over, Exists
  <2>2. \A f \in Flows : ~Responsible(f, n)
    BY DEF Over, Responsible, InPre, PreSteps
  <2>3. PICK v \in Vms : conn[v] = n
    BY <2>1, <2>2 DEF Attended, Watched, Attached
  <2>4. p = Dvs
    BY DEF Steady, IInv, TypeOK, Places
  <2> QED BY <2>3, <2>4 DEF AttachedAt, PlaceOf
<1>2. Distributed /\ Steady /\ Attended /\ Steady' /\ [Next]_vars => Attended'
  BY NextAttended
<1>3. Init /\ []Steady /\ [][Next]_vars => []Attended
  BY <1>2, InitAttended, PTL
<1> QED BY <1>1, <1>3, AlwaysSteady, PTL DEF Spec

-----------------------------------------------------------------------------
(* ClearedUnlessRaced.  While nobody else connects, what is in the way of   *)
(* the network is among what the flow still has to clear: nothing of it     *)
(* comes back, for only connecting creates networks and plugs VMs in.       *)

Alone(f) ==
    /\ flow[f].kind = "set"
    /\ \A g \in Flows \ {f} : Started(g) => flow[g].kind = "remove"

Conflicts(f) == Conflicting(flow[f].net) \ {flow[f].net}

Evicting == {"migrate", "move"}
Removing == {"wait", "destroy", "unhost"}
Preparing == {"validate", "create", "recreate", "appear", "store"}

Clearing(f) ==
    LET l == flow[f] IN
    /\ l.pc = "clear" => Conflicts(f) \subseteq l.todo
    /\ l.pc \in Evicting \cup Removing =>
           l.cur \in Generated /\ Conflicts(f) \subseteq l.todo \cup {l.cur}
    /\ l.pc \in Preparing => Conflicts(f) = {}
    /\ l.got > 0 => l.net \in Generated /\ Conflicts(f) = {}
    /\ l.pc \in Evicting \cup Removing /\ l.cur # l.net /\ Exists(l.cur) =>
           born[l.cur] = l.ref
    /\ l.pc \in Evicting /\ l.cur # l.net =>
           \A v \in Vms : conn[v] = l.cur => v \in l.vmsLeft
    /\ l.pc \in Removing => l.cur # l.net /\ ~Attached(l.cur)
    /\ l.pc = "unhost" => ~Distributed /\ pg[l.cur] \cap l.hosts = {}
    /\ l.pc \in InPre \ {"unhost"} => l.hosts = {}

LEMMA ConflictsLessen ==
    ASSUME NEW f \in Flows, flow'[f].net = flow[f].net,
           \A m \in Generated : pg[m] = {} /\ m # flow[f].net => pg'[m] = {}
    PROVE  Conflicts(f)' \subseteq Conflicts(f)
BY DEF Conflicts, Conflicting, SameVlan, Exists

(* What the others do to vCenter meanwhile does no harm. *)
Eases ==
    /\ Shrinks /\ born' = born
    /\ \A v \in Vms : conn'[v] \in Generated => conn'[v] = conn[v]

LEMMA ClearingEased ==
    ASSUME TypeOK, NEW f \in Flows, Clearing(f), Eases, flow'[f] = flow[f]
    PROVE  Clearing(f)'
<1> DEFINE l == flow[f]
<1>1. Conflicts(f)' \subseteq Conflicts(f)
  BY ConflictsLessen DEF Eases, Shrinks
<1>2. ASSUME l.pc \in Evicting \cup Removing
      PROVE  l.cur \in Generated /\ (Exists(l.cur)' => Exists(l.cur))
             /\ (Attached(l.cur)' => Attached(l.cur)) /\ pg'[l.cur] \subseteq pg[l.cur]
             /\ \A v \in Vms : conn'[v] = l.cur => conn[v] = l.cur
  BY <1>2 DEF Clearing, Eases, Shrinks, Exists, Attached
<1>3. "unhost" \in Removing
  BY DEF Removing
<1>4. born' = born
  BY DEF Eases
<1> HIDE DEF l
<1> QED BY <1>1, <1>2, <1>3, <1>4 DEF Clearing, l

(* So does leaving the item, with the network stored before or not at all.  *)
LEMMA ClearingLeft ==
    ASSUME TypeOK, NEW f \in Flows, Clearing(f), Shrinks,
           flow'[f].net = flow[f].net, flow'[f].got = flow[f].got,
           flow'[f].pc \notin PreSteps, flow'[f].pc = "pre" => flow'[f].hosts = {}
    PROVE  Clearing(f)'
<1>1. Conflicts(f)' \subseteq Conflicts(f)
  BY ConflictsLessen DEF Shrinks
<1>2. flow'[f].pc \notin {"clear", "unhost"} \cup Evicting \cup Removing \cup Preparing
  BY DEF PreSteps, Evicting, Removing, Preparing
<1> QED BY <1>1, <1>2 DEF Clearing, InPre

LEMMA ClearingRaised ==
    ASSUME TypeOK, NEW f \in Flows, Clearing(f), ItemRaises(f)
    PROVE  Clearing(f)'
<1>1. /\ flow'[f].net = flow[f].net /\ flow'[f].got = flow[f].got /\ flow'[f].hosts = {}
      /\ flow'[f].pc \in {"pre", "act", "aborted"} /\ UNCHANGED vcenter
  BY ItemRaised DEF Kept
<1> QED BY <1>1, ClearingLeft DEF PreSteps, Shrinks, vcenter

(* On with the network itself: all that is left is what had been cleared.   *)
LEMMA ClearingPrepares ==
    ASSUME TypeOK, NEW f \in Flows, Clearing(f), Conflicts(f)' \subseteq Conflicts(f),
           Conflicts(f) = {}, flow'[f].net = flow[f].net, flow'[f].got = flow[f].got,
           flow'[f].hosts = {}, flow'[f].pc \in Preparing
    PROVE  Clearing(f)'
<1>1. flow'[f].pc \notin {"clear", "unhost"} \cup Evicting \cup Removing
  BY DEF Evicting, Removing, Preparing
<1> QED BY <1>1 DEF Clearing

LEMMA ClearingPre ==
    ASSUME Steady, NEW f \in Flows, Pre(f), Clearing(f)
    PROVE  Clearing(f)'
<1> DEFINE l == flow[f]
<1> USE DEF Evicting, Removing, Preparing
<1>t. TypeOK /\ l \in FlowRecord /\ LockHeld /\ Plugged
  BY DEF Steady, IInv, TypeOK
<1>c. Clearing(f)
  OBVIOUS
<1>v. UNCHANGED vcenter /\ flow'[f].net = l.net => Conflicts(f)' = Conflicts(f)
  BY DEF vcenter, Conflicts, Conflicting, SameVlan, Exists
<1>g. ASSUME NEW label \in Preparing, Goto(f, label), Conflicts(f)' \subseteq Conflicts(f),
             l.pc \in {"clear"} \cup Preparing, Conflicts(f) = {}
      PROVE  Clearing(f)'
  <2>1. l.hosts = {}
    BY <1>g, <1>c DEF Clearing, InPre, PreSteps
  <2>2. /\ flow'[f].net = l.net /\ flow'[f].got = l.got /\ flow'[f].hosts = l.hosts
        /\ flow'[f].pc = label
    BY <1>g, <1>t, GoesTo DEF Kept
  <2> QED BY <1>g, <1>t, <2>1, <2>2, ClearingPrepares
<1>u. ASSUME NEW r, Update(f, r), r.net = l.net, r.got = l.got, r.hosts = l.hosts,
             r.pc \in Preparing, Conflicts(f) = {}, UNCHANGED vcenter,
             l.pc \in {"clear"} \cup Preparing
      PROVE  Clearing(f)'
  <2>1. l.hosts = {}
    BY <1>u, <1>c DEF Clearing, InPre, PreSteps
  <2>2. flow'[f] = r
    BY <1>u, <1>t, Becomes
  <2> QED BY <1>u, <1>v, <1>t, <2>1, <2>2, ClearingPrepares
<1>1. CASE LockNetwork(f)
  <2>1. PICK p \in l.places :
            Update(f, [l EXCEPT !.pc = "clear", !.place = p, !.places = @ \ {p},
                                !.todo = Conflicting(l.net)])
    BY <1>1 DEF LockNetwork
  <2>2. flow'[f] = [l EXCEPT !.pc = "clear", !.place = p, !.places = @ \ {p},
                             !.todo = Conflicting(l.net)]
    BY <1>t, <2>1, Becomes
  <2>3. /\ flow'[f].pc = "clear" /\ flow'[f].todo = Conflicting(l.net)
        /\ flow'[f].net = l.net /\ flow'[f].got = l.got /\ flow'[f].hosts = l.hosts
    BY <1>t, <2>2 DEF FlowRecord
  <2>4. l.pc = "pre" /\ UNCHANGED vcenter
    BY <1>1 DEF LockNetwork, At
  <2>5. Conflicts(f)' \subseteq Conflicting(l.net) /\ Conflicts(f)' = Conflicts(f)
    BY <1>v, <2>3, <2>4 DEF Conflicts
  <2> QED BY <1>c, <2>3, <2>4, <2>5 DEF Clearing, InPre
<1>2. ASSUME NEW m \in Generated, PickConflict(f, m)
      PROVE  Clearing(f)'
  <2>1. l.pc = "clear" /\ m \in l.todo
    BY <1>2 DEF PickConflict, At
  <2>2. CASE ~Exists(m)
    BY <1>2, <1>t, <2>2, ClearingRaised DEF PickConflict
  <2>3. CASE Exists(m)
    <3> DEFINE W == {v \in Vms : /\ conn[v] = m
                                 /\ m = l.net => OtherSandbox(f, v)}
    <3>1. /\ Update(f, [l EXCEPT !.pc = "migrate", !.cur = m, !.ref = born[m],
                                 !.todo = @ \ {m}, !.vmsLeft = W])
          /\ UNCHANGED vcenter
      BY <1>2, <2>3 DEF PickConflict
    <3>2. m # l.net => W = {v \in Vms : conn[v] = m}
      OBVIOUS
    <3> HIDE DEF W
    <3>3. flow'[f] = [l EXCEPT !.pc = "migrate", !.cur = m, !.ref = born[m],
                               !.todo = @ \ {m}, !.vmsLeft = W]
      BY <1>t, <3>1, Becomes
    <3>4. /\ flow'[f].pc = "migrate" /\ flow'[f].cur = m /\ flow'[f].ref = born[m]
          /\ flow'[f].todo = l.todo \ {m} /\ flow'[f].vmsLeft = W
          /\ flow'[f].net = l.net /\ flow'[f].got = l.got /\ flow'[f].hosts = l.hosts
      BY <1>t, <3>3 DEF FlowRecord
    <3>5. /\ Conflicts(f)' = Conflicts(f) /\ born' = born /\ conn' = conn
      BY <1>v, <3>1, <3>4 DEF vcenter
    <3> QED BY <1>c, <2>1, <3>2, <3>4, <3>5 DEF Clearing, InPre, PreSteps
  <2> QED BY <2>2, <2>3
<1>3. ASSUME NEW v \in Vms, CheckVnic(f, v)
      PROVE  Clearing(f)'
  <2>1. l.pc = "migrate" /\ UNCHANGED vcenter
    BY <1>3 DEF CheckVnic, At
  <2>2. \/ Update(f, [l EXCEPT !.pc = "move", !.victim = v])
        \/ /\ Update(f, [l EXCEPT !.vmsLeft = @ \ {v}])
           /\ ~(conn[v] = l.cur /\ Alive(l.cur, l.ref))
    BY <1>3, Zenon DEF CheckVnic
  <2>3. /\ pg' = pg /\ born' = born /\ conn' = conn
        /\ flow'[f].net = l.net => Conflicts(f)' = Conflicts(f)
    BY <1>v, <2>1 DEF vcenter
  <2>4. CASE Update(f, [l EXCEPT !.pc = "move", !.victim = v])
    <3>1. flow'[f] = [l EXCEPT !.pc = "move", !.victim = v]
      BY <1>t, <2>4, Becomes
    <3>2. /\ flow'[f].pc = "move" /\ flow'[f].cur = l.cur /\ flow'[f].ref = l.ref
          /\ flow'[f].todo = l.todo /\ flow'[f].vmsLeft = l.vmsLeft
          /\ flow'[f].net = l.net /\ flow'[f].got = l.got /\ flow'[f].hosts = l.hosts
      BY <1>t, <3>1 DEF FlowRecord
    <3> QED BY <1>c, <2>1, <2>3, <3>2 DEF Clearing, InPre, PreSteps, Exists
  <2>5. CASE /\ Update(f, [l EXCEPT !.vmsLeft = @ \ {v}])
             /\ ~(conn[v] = l.cur /\ Alive(l.cur, l.ref))
    <3>1. flow'[f] = [l EXCEPT !.vmsLeft = @ \ {v}]
      BY <1>t, <2>5, Becomes
    <3>2. /\ flow'[f].pc = "migrate" /\ flow'[f].cur = l.cur /\ flow'[f].ref = l.ref
          /\ flow'[f].todo = l.todo /\ flow'[f].vmsLeft = l.vmsLeft \ {v}
          /\ flow'[f].net = l.net /\ flow'[f].got = l.got /\ flow'[f].hosts = l.hosts
      BY <1>t, <2>1, <3>1 DEF FlowRecord
    <3>3. l.cur # l.net => conn[v] # l.cur
      BY <1>c, <1>t, <2>1, <2>5 DEF Clearing, Plugged, Alive, Exists
    <3> QED BY <1>c, <2>1, <2>3, <3>2, <3>3 DEF Clearing, InPre, PreSteps, Exists
  <2> QED BY <2>2, <2>4, <2>5
<1>4. CASE MoveVnic(f)
  <2>1. /\ l.pc = "move" /\ Plug(l.victim, Holding) /\ pg' = pg /\ born' = born
        /\ Update(f, [l EXCEPT !.pc = "migrate", !.vmsLeft = @ \ {l.victim}, !.victim = None])
    BY <1>4 DEF MoveVnic, At
  <2>2. flow'[f] = [l EXCEPT !.pc = "migrate", !.vmsLeft = @ \ {l.victim}, !.victim = None]
    BY <1>t, <2>1, Becomes
  <2>3. /\ flow'[f].pc = "migrate" /\ flow'[f].cur = l.cur /\ flow'[f].ref = l.ref
        /\ flow'[f].todo = l.todo /\ flow'[f].vmsLeft = l.vmsLeft \ {l.victim}
        /\ flow'[f].net = l.net /\ flow'[f].got = l.got /\ flow'[f].hosts = l.hosts
    BY <1>t, <2>2 DEF FlowRecord
  <2>4. Conflicts(f)' = Conflicts(f)
    BY <2>1, <2>3 DEF Conflicts, Conflicting, SameVlan, Exists
  <2>5. \A v \in Vms : conn'[v] \in Generated => conn[v] = conn'[v] /\ v # l.victim
    BY <1>t, <2>1, ConnectivityAssumption DEF TypeOK, Plug, Networks
  <2> QED BY <1>c, <2>1, <2>3, <2>4, <2>5 DEF Clearing, InPre, PreSteps, Exists
<1>5. CASE Migrated(f)
  <2>1. l.pc = "migrate" /\ l.vmsLeft = {} /\ UNCHANGED vcenter
    BY <1>5 DEF Migrated, At
  <2>2. /\ pg' = pg /\ born' = born /\ conn' = conn
        /\ flow'[f].net = l.net => Conflicts(f)' = Conflicts(f)
    BY <1>v, <2>1 DEF vcenter
  <2>3. CASE l.cur = l.net
    <3>1. flow'[f] = [l EXCEPT !.pc = "clear", !.cur = None]
      BY <1>5, <1>t, <2>3, Becomes DEF Migrated
    <3>2. /\ flow'[f].pc = "clear" /\ flow'[f].todo = l.todo
          /\ flow'[f].net = l.net /\ flow'[f].got = l.got /\ flow'[f].hosts = l.hosts
      BY <1>t, <3>1 DEF FlowRecord
    <3>3. Conflicts(f) \subseteq l.todo
      BY <1>c, <2>1, <2>3 DEF Clearing, Conflicts
    <3> QED BY <1>c, <2>1, <2>2, <3>2, <3>3 DEF Clearing, InPre, PreSteps
  <2>4. CASE l.cur # l.net
    <3>1. /\ flow'[f].pc = "wait" /\ flow'[f].cur = l.cur /\ flow'[f].todo = l.todo
          /\ flow'[f].ref = l.ref
          /\ flow'[f].net = l.net /\ flow'[f].got = l.got /\ flow'[f].hosts = l.hosts
      BY <1>5, <1>t, <2>4, GoesTo DEF Migrated, Kept
    <3>2. ~Attached(l.cur) /\ ~Attached(l.cur)'
      BY <1>c, <2>1, <2>2, <2>4, <3>1 DEF Clearing, Attached
    <3> QED BY <1>c, <2>1, <2>2, <2>4, <3>1, <3>2 DEF Clearing, InPre, PreSteps, Exists, Attached
  <2> QED BY <2>3, <2>4
<1>6. CASE WaitFree(f)
  <2>1. l.pc = "wait"
    BY <1>6 DEF WaitFree, At
  <2>2. CASE Alive(l.cur, l.ref)
    <3>1. /\ Goto(f, IF Distributed THEN "destroy" ELSE "unhost") /\ UNCHANGED vcenter
      BY <1>6, <2>2 DEF WaitFree
    <3>2. /\ flow'[f].cur = l.cur /\ flow'[f].todo = l.todo /\ flow'[f].ref = l.ref
          /\ flow'[f].net = l.net /\ flow'[f].got = l.got /\ flow'[f].hosts = l.hosts
          /\ flow'[f].pc = IF Distributed THEN "destroy" ELSE "unhost"
      BY <1>t, <3>1, GoesTo DEF Kept
    <3>3. pg' = pg /\ born' = born /\ conn' = conn /\ Conflicts(f)' = Conflicts(f)
      BY <1>v, <3>1, <3>2 DEF vcenter
    <3>4. l.hosts = {}
      BY <1>c, <2>1 DEF Clearing, InPre, PreSteps
    <3> QED BY <1>c, <2>1, <3>2, <3>3, <3>4 DEF Clearing, InPre, PreSteps, Exists, Attached
  <2>3. CASE ~Alive(l.cur, l.ref)
    BY <1>6, <1>t, <2>3, ClearingRaised DEF WaitFree
  <2> QED BY <2>2, <2>3
(* One conflicting network less. *)
<1>d. ASSUME Cleared(f), l.pc \in Removing, pg'[l.cur] = {}, Shrinks
      PROVE  Clearing(f)'
  <2>1. flow'[f] = [l EXCEPT !.pc = "clear", !.cur = None, !.hosts = {}]
    BY <1>d, <1>t, Becomes DEF Cleared
  <2>2. /\ flow'[f].pc = "clear" /\ flow'[f].todo = l.todo
        /\ flow'[f].net = l.net /\ flow'[f].got = l.got /\ flow'[f].hosts = {}
    BY <1>t, <2>1 DEF FlowRecord
  <2>3. Conflicts(f)' \subseteq Conflicts(f)
    BY <1>d, <2>2, ConflictsLessen DEF Shrinks
  <2>4. l.cur \notin Conflicts(f)'
    BY <1>d DEF Conflicts, Conflicting, SameVlan, Exists
  <2> QED BY <1>c, <1>d, <2>2, <2>3, <2>4 DEF Clearing, InPre
<1>7. CASE DestroyConflict(f)
  <2>1. l.pc = "destroy" /\ ~Attached(l.cur) /\ l.cur \in Generated /\ l.cur # l.net
    BY <1>7, <1>c DEF DestroyConflict, At, Clearing
  <2>2. CASE ~Alive(l.cur, l.ref)
    <3>1. Cleared(f) /\ pg' = pg
      BY <1>7, <2>2 DEF DestroyConflict, vcenter
    <3>2. pg[l.cur] = {}
      BY <1>c, <2>1, <2>2 DEF Clearing, Alive, Exists
    <3> QED BY <1>d, <2>1, <3>1, <3>2 DEF Shrinks
  <2>3. CASE Alive(l.cur, l.ref)
    <3>1. Cleared(f) /\ pg' = [pg EXCEPT ![l.cur] = {}]
      BY <1>7, <2>1, <2>3 DEF DestroyConflict
    <3>2. pg'[l.cur] = {} /\ Shrinks
      BY <1>t, <2>1, <3>1 DEF TypeOK, Shrinks
    <3> QED BY <1>d, <2>1, <3>1, <3>2
  <2> QED BY <2>2, <2>3
<1>8. ASSUME NEW h \in Hosts, ClearFromHost(f, h)
      PROVE  Clearing(f)'
  <2>1. /\ l.pc = "unhost" /\ RemoveAt(l.cur, h) /\ UNCHANGED <<born, conn>>
    BY <1>8 DEF ClearFromHost, At
  <2>2. /\ ~Attached(l.cur) /\ l.cur \in Generated /\ l.cur # l.net
        /\ ~Distributed /\ pg[l.cur] \cap l.hosts = {}
    BY <1>c, <2>1 DEF Clearing
  <2>3. pg' = [pg EXCEPT ![l.cur] = @ \ {h}]
    BY <2>1, <2>2 DEF RemoveAt, AttachedAt, Attached
  <2>4. pg'[l.cur] = pg[l.cur] \ {h} /\ Shrinks
    BY <1>t, <2>2, <2>3 DEF TypeOK, Shrinks
  <2>5. CASE l.hosts \cup {h} = Hosts
    <3>1. Cleared(f)
      BY <1>8, <2>5 DEF ClearFromHost
    <3>2. pg'[l.cur] = {}
      BY <1>t, <2>2, <2>4, <2>5 DEF TypeOK, Places
    <3> QED BY <1>d, <2>1, <2>4, <3>1, <3>2
  <2>6. CASE l.hosts \cup {h} # Hosts
    <3>1. flow'[f] = [l EXCEPT !.hosts = @ \cup {h}]
      BY <1>8, <1>t, <2>6, Becomes DEF ClearFromHost
    <3>2. /\ flow'[f].cur = l.cur /\ flow'[f].todo = l.todo /\ flow'[f].ref = l.ref
          /\ flow'[f].net = l.net /\ flow'[f].got = l.got /\ flow'[f].hosts = l.hosts \cup {h}
          /\ flow'[f].pc = "unhost"
      BY <1>t, <2>1, <3>1 DEF FlowRecord
    <3>3. Conflicts(f)' \subseteq Conflicts(f)
      BY <2>4, <3>2, ConflictsLessen DEF Shrinks
    <3>4. pg'[l.cur] \cap (l.hosts \cup {h}) = {} /\ ~Attached(l.cur)'
          /\ (Exists(l.cur)' => Exists(l.cur))
      BY <2>1, <2>2, <2>4, <3>2 DEF Attached, Exists
    <3> QED BY <1>c, <2>1, <2>2, <3>2, <3>3, <3>4 DEF Clearing
  <2> QED BY <2>5, <2>6
<1>9. CASE GetNetwork(f)
  <2>1. l.pc = "clear" /\ l.todo = {} /\ UNCHANGED vcenter
    BY <1>9 DEF GetNetwork, At
  <2>2. Conflicts(f) = {}
    BY <1>c, <2>1 DEF Clearing
  <2>3. CASE ~Exists(l.net)
    <3>1. Goto(f, "create")
      BY <1>9, <2>3 DEF GetNetwork
    <3>2. flow'[f].net = l.net
      BY <1>t, <3>1, GoesTo DEF Kept
    <3> QED BY <1>g, <1>v, <2>1, <2>2, <3>1, <3>2
  <2>4. CASE Exists(l.net)
    <3> DEFINE label == IF Distributed THEN "store" ELSE "validate"
               r == [l EXCEPT !.ref = born[l.net], !.pc = label]
    <3>1. Update(f, r)
      BY <1>9, <2>4 DEF GetNetwork
    <3>2. r.net = l.net /\ r.got = l.got /\ r.hosts = l.hosts /\ r.pc \in Preparing
      BY <1>t DEF FlowRecord
    <3> HIDE DEF r
    <3> QED BY <1>u, <2>1, <2>2, <3>1, <3>2
  <2> QED BY <2>3, <2>4
<1>p. l.pc \in Preparing => Conflicts(f) = {}
  BY <1>c DEF Clearing
<1>n. ASSUME NEW label \in Preparing, Goto(f, label), l.pc \in Preparing, UNCHANGED vcenter
      PROVE  Clearing(f)'
  <2>1. flow'[f].net = l.net
    BY <1>t, <1>n, GoesTo DEF Kept
  <2> QED BY <1>g, <1>n, <1>p, <1>v, <2>1
<1>a. ASSUME NEW label \in Preparing, Goto(f, label), l.pc \in Preparing, AddPortGroup(f)
      PROVE  Clearing(f)'
  <2>1. flow'[f].net = l.net
    BY <1>t, <1>a, GoesTo DEF Kept
  <2>2. \A m \in Generated : m # l.net => pg'[m] = pg[m]
    BY <1>t, <1>a DEF AddPortGroup, TypeOK
  <2>3. Conflicts(f)' \subseteq Conflicts(f)
    BY <2>1, <2>2, ConflictsLessen
  <2> QED BY <1>a, <1>g, <1>p, <2>3
<1>10. CASE Validate(f)
  <2>1. /\ l.pc = "validate"
        /\ \/ ItemRaises(f)
           \/ (Goto(f, "store") \/ Goto(f, "recreate")) /\ UNCHANGED vcenter
    BY <1>10 DEF Validate, At
  <2> QED BY <1>n, <1>t, <2>1, ClearingRaised
<1>11. CASE Create(f)
  <2>1. /\ l.pc = "create"
        /\ \/ ItemRaises(f)
           \/ Goto(f, "appear") /\ (UNCHANGED vcenter \/ AddPortGroup(f))
    BY <1>11 DEF Create, At
  <2> QED BY <1>n, <1>a, <1>t, <2>1, ClearingRaised
<1>12. CASE Recreate(f)
  <2>1. l.pc = "recreate" /\ (ItemRaises(f) \/ (Goto(f, "store") /\ AddPortGroup(f)))
    BY <1>12 DEF Recreate, At
  <2> QED BY <1>a, <1>t, <2>1, ClearingRaised
<1>13. CASE WaitAppears(f)
  <2> DEFINE r == [l EXCEPT !.pc = "store", !.ref = born[l.net]]
  <2>1. l.pc = "appear" /\ (ItemRaises(f) \/ (Update(f, r) /\ UNCHANGED vcenter))
    BY <1>13 DEF WaitAppears, At
  <2>2. r.net = l.net /\ r.got = l.got /\ r.hosts = l.hosts /\ r.pc \in Preparing
    BY <1>t DEF FlowRecord
  <2> HIDE DEF r
  <2> QED BY <1>p, <1>u, <1>t, <2>1, <2>2, ClearingRaised
<1>14. CASE Store(f)
  <2> DEFINE r == [l EXCEPT !.got = l.ref, !.place = None]
  <2>1. l.pc = "store" /\ EndItem(f, r) /\ UNCHANGED vcenter
    BY <1>14 DEF Store, At
  <2>2. r \in FlowRecord /\ r.net = l.net /\ r.hosts = l.hosts
    BY <1>t DEF FlowRecord
  <2> HIDE DEF r
  <2>3. /\ flow'[f].net = l.net /\ flow'[f].hosts = l.hosts
        /\ flow'[f].pc \in {"pre", "act", "aborted"}
    BY <1>t, <2>1, <2>2, ItemOver
  <2>4. l.hosts = {} /\ Conflicts(f) = {} /\ l.net \in Generated
    BY <1>c, <1>p, <1>t, <2>1 DEF Clearing, InPre, PreSteps, LockHeld
  <2>5. Conflicts(f)' = {}
    BY <1>v, <2>1, <2>3, <2>4
  <2> QED BY <2>3, <2>4, <2>5 DEF Clearing, InPre
<1> QED
  BY <1>1, <1>2, <1>3, <1>4, <1>5, <1>6, <1>7, <1>8, <1>9, <1>10, <1>11, <1>12,
     <1>13, <1>14 DEF Pre

AllClearing == \A f \in Flows : Alone(f) => Clearing(f)

LEMMA ClearingStep ==
    ASSUME Steady, Steady', AllClearing, NEW f \in Flows, StepBy(f),
           NEW g \in Flows, Alone(g)'
    PROVE  Clearing(g)'
<1>t. TypeOK /\ Whole(f)
  BY DEF Steady, IInv
<1>m. Others(f) /\ (Started(f) => Kept(f)) /\ Started(f)'
  BY StepMoves
<1>h. "pre" \notin PreSteps
  BY DEF PreSteps
<1>1. CASE g = f
  <2>1. CASE \E q \in Requests : Start(f, q)
    <3>1. /\ flow'[f].got = 0 /\ flow'[f].hosts = {}
          /\ flow'[f].pc \in {"pre", "act", "aborted"}
      BY <1>t, <2>1, StartMoves
    <3> QED BY <1>1, <3>1 DEF Clearing, Evicting, Removing, Preparing, InPre
  <2>2. ASSUME Started(f) PROVE Clearing(f)
    <3>1. flow'[f].kind = flow[f].kind
      BY <1>m, <2>2 DEF Kept
    <3>2. Alone(f)
      BY <1>1, <1>m, <3>1 DEF Alone, Others, Started, At
    <3> QED BY <3>2 DEF AllClearing
  <2>3. CASE Pre(f)
    <3>1. Started(f)
      BY <2>3, PrePc DEF Started, At, InPre, PreSteps
    <3> QED BY <1>1, <2>2, <2>3, <3>1, ClearingPre
  <2>4. CASE Act(f)
    <3>1. /\ flow[f].pc = "act" /\ flow'[f].pc = "act" /\ Kept(f)
          /\ flow'[f].got = flow[f].got /\ pg' = pg
      BY <1>t, <2>4, ActMoves
    <3>2. Clearing(f) /\ Shrinks /\ flow'[f].net = flow[f].net
          /\ flow'[f].pc \notin InPre
      BY <2>2, <3>1 DEF Started, At, Shrinks, Kept, InPre, PreSteps
    <3> QED BY <1>1, <1>t, <3>1, <3>2, ClearingLeft DEF InPre
  <2>5. CASE Post(f)
    <3>1. /\ flow[f].pc # "idle" /\ flow'[f].pc \notin InPre /\ Kept(f)
          /\ flow'[f].got = flow[f].got /\ Shrinks
      BY <1>t, <2>5, PostMoves DEF InPre, PreSteps
    <3>2. Clearing(f) /\ flow'[f].net = flow[f].net
      BY <2>2, <3>1 DEF Started, At, Kept
    <3> QED BY <1>1, <1>t, <3>1, <3>2, ClearingLeft DEF InPre
  <2> QED BY <2>1, <2>3, <2>4, <2>5 DEF StepBy
<1>2. CASE g # f
  <2>1. flow'[g] = flow[g] /\ flow'[f].kind = "remove"
    BY <1>2, <1>m DEF Others, Alone
  <2>2. Alone(g)
    BY <1>2, <1>m, <2>1 DEF Alone, Others, Kept, Started, At
  <2>3. Clearing(g)
    BY <2>2 DEF AllClearing
  <2>4. Holding \notin Generated
    BY ConnectivityAssumption
  <2>5. UNCHANGED <<pg, born, conn>> => Eases
    BY DEF Eases, Shrinks
  <2>6. CASE \E q \in Requests : Start(f, q)
    BY <1>t, <2>1, <2>3, <2>5, <2>6, StartMoves, ClearingEased
  <2>7. CASE Pre(f)
    <3>1. flow[f].kind = "set" /\ Started(f)
      BY <1>t, <2>7, PrePc DEF Whole, Started, At, InPre, PreSteps
    <3> QED BY <1>m, <2>1, <3>1 DEF Kept
  <2>8. CASE Act(f)
    <3>1. flow[f].kind = "remove" /\ UNCHANGED <<pg, born>> /\ \E v \in Vms : Plug(v, Holding)
      BY <1>t, <2>1, <2>8, ActMoves DEF Kept
    <3>2. Pulls
      BY <1>t, <3>1, PlugMoves
    <3>3. Eases
      BY <2>4, <3>1, <3>2 DEF Eases, Shrinks, Pulls
    <3> QED BY <1>t, <2>1, <2>3, <3>3, ClearingEased
  <2>9. CASE Post(f)
    <3>1. Eases
      BY <1>t, <2>9, PostMoves DEF Eases
    <3> QED BY <1>t, <2>1, <2>3, <3>1, ClearingEased
  <2> QED BY <2>6, <2>7, <2>8, <2>9 DEF StepBy
<1> QED BY <1>1, <1>2

LEMMA InitClearing == Init => AllClearing
<1> SUFFICES ASSUME Init, NEW f \in Flows PROVE Clearing(f)
  BY DEF AllClearing
<1>1. flow[f].pc = "idle" /\ flow[f].got = 0
  BY DEF Init, IdleFlow
<1> QED BY <1>1 DEF Clearing, Evicting, Removing, Preparing, InPre, PreSteps

LEMMA NextClearing == Steady /\ Steady' /\ AllClearing /\ [Next]_vars => AllClearing'
<1> SUFFICES ASSUME Steady, Steady', AllClearing, [Next]_vars, NEW g \in Flows, Alone(g)'
             PROVE  Clearing(g)'
  BY DEF AllClearing
<1>t. TypeOK
  BY DEF Steady, IInv
<1>a. flow' = flow => Clearing(g)
  BY DEF AllClearing, Alone, Started, At
<1>1. CASE \E v \in Vms : DeleteVm(v)
  <2>1. PICK v \in Vms : DeleteVm(v)
    BY <1>1
  <2>2. /\ pg' = pg /\ born' = born /\ flow' = flow
        /\ \A w \in Vms : conn'[w] \in {conn[w], None}
    BY <1>t, <2>1 DEF DeleteVm, TypeOK
  <2>3. None \notin Generated
    BY ConnectivityAssumption DEF Networks
  <2>4. Eases
    BY <2>2, <2>3 DEF Eases, Shrinks
  <2> QED BY <1>a, <1>t, <2>2, <2>4, ClearingEased
<1>2. ASSUME NEW f \in Flows, StepBy(f) PROVE Clearing(g)'
  BY <1>2, ClearingStep
<1>3. CASE UNCHANGED vars
  <2>1. flow' = flow /\ Eases
    BY <1>3 DEF vars, Eases, Shrinks
  <2> QED BY <1>a, <1>t, <2>1, ClearingEased
<1> QED BY <1>1, <1>2, <1>3 DEF Next, StepBy

(* A network that was prepared while all others were disconnecting has its  *)
(* VLAN as its isolation demands, on a DvSwitch and on vSwitches, whatever  *)
(* the others remove and whichever VMs are deleted meanwhile                *)
(* (_clear_networks_for_exclusive, _clear_exclusive_networks,               *)
(* connectivity_flow.py:410-459).                                           *)
THEOREM ClearedVlan == Spec => []ClearedUnlessRaced
<1>1. Steady /\ AllClearing => ClearedUnlessRaced
  <2> SUFFICES ASSUME Steady, AllClearing, NEW f \in Flows,
                      flow[f].kind = "set", flow[f].got > 0,
                      \A g \in Flows \ {f} : Started(g) => flow[g].kind = "remove",
                      NEW m \in SameVlan(flow[f].net) \ {flow[f].net}
               PROVE  {m, flow[f].net} \subseteq Shared
    BY DEF ClearedUnlessRaced
  <2>1. Clearing(f)
    BY DEF AllClearing, Alone
  <2>2. flow[f].net \in Generated /\ Conflicts(f) = {}
    BY <2>1 DEF Clearing
  <2>3. m \notin Conflicting(flow[f].net)
    BY <2>2 DEF Conflicts
  <2>4. m \in Generated
    BY DEF SameVlan
  <2> QED BY <2>2, <2>3, <2>4 DEF Conflicting, Generated
<1>2. Init /\ []Steady /\ [][Next]_vars => []AllClearing
  BY InitClearing, NextClearing, PTL
<1> QED BY <1>1, <1>2, AlwaysSteady, PTL DEF Spec

-----------------------------------------------------------------------------
(* ConcurrentConnectsSucceed.  Where all there is are connects to shared    *)
(* networks, nothing is ever removed: what a flow has found or created is   *)
(* still there, and in the places of its VMs, when it plugs them in.        *)

Calm ==
    /\ \A f \in Flows : Started(f) =>
           flow[f].kind = "set" /\ flow[f].net \in Shared /\ flow[f].gone = {}
    /\ \A e \in Exclusive : born[e] = 0
    /\ \A v \in Vms : conn[v] # None

Born == \A n \in Generated : Exists(n) => born[n] # 0

(* Where the flow's VMs are there is the port group, or will be. *)
Covered(f) ==
    \A v \in flow[f].vms :
        \/ PlaceOf(v) \in flow[f].places \cup pg[flow[f].net]
        \/ flow[f].pc \in PreSteps /\ PlaceOf(v) = flow[f].place

Ready(f) ==
    LET l == flow[f] IN
    /\ l.pc \in {"idle", "pre", "clear", "act", "done"} \cup Preparing
    /\ ~l.preFailed /\ l.failed = {} /\ l.left \subseteq l.vms
    /\ l.pc \in InPre => Covered(f)
    /\ l.pc \in PreSteps => l.todo = {}
    /\ l.pc \in {"validate", "recreate", "store"} => Alive(l.net, l.ref)
    /\ l.pc \in {"appear", "store"} => l.place \in pg[l.net]
    /\ l.pc = "act" =>
           Alive(l.net, l.got) /\ \A v \in l.vms : PlaceOf(v) \in pg[l.net]

Smooth == Calm => \A f \in Flows : Ready(f)

Grown == \A n \in Generated : pg[n] \subseteq pg'[n] /\ (Exists(n) => born'[n] = born[n])

LEMMA ReadyGrown ==
    ASSUME Steady, Calm, NEW f \in Flows, Ready(f), Grown, flow'[f] = flow[f]
    PROVE  Ready(f)'
<1>1. flow[f].pc \in InPre \cup {"act"} => flow[f].net \in Generated
  BY DEF Calm, Started, At, Generated, InPre, PreSteps
<1>2. InPre \cup {"act"} = PreSteps \cup {"pre", "act"}
      /\ {"validate", "recreate", "store", "appear"} \subseteq PreSteps
  BY DEF InPre, PreSteps
<1>3. Covered(f) /\ flow[f].pc \in InPre => Covered(f)'
  BY <1>1 DEF Covered, Grown, PlaceOf
<1>4. flow[f].pc \in InPre \cup {"act"} =>
          /\ pg[flow[f].net] \subseteq pg'[flow[f].net]
          /\ Exists(flow[f].net) => Exists(flow[f].net)'
          /\ Exists(flow[f].net) => born'[flow[f].net] = born[flow[f].net]
  BY <1>1 DEF Grown, Exists
<1> QED BY <1>2, <1>3, <1>4 DEF Ready, Alive, Exists, PlaceOf

(* What a step does to the port groups and their incarnations. *)
LEMMA Builds ==
    ASSUME Steady, NEW f \in Flows, StepBy(f)
    PROVE  (Shrinks /\ born' = born) \/ (AddPortGroup(f) /\ flow[f].pc \in Creating)
<1>t. TypeOK
  BY DEF Steady, IInv
<1>1. UNCHANGED vcenter => Shrinks /\ born' = born
  BY DEF vcenter, Shrinks
<1>2. ItemRaises(f) => UNCHANGED vcenter
  BY DEF ItemRaises
<1>3. ASSUME DestroyConflict(f) PROVE Shrinks /\ born' = born
  <2>1. \/ ItemRaises(f) \/ UNCHANGED vcenter
        \/ pg' = [pg EXCEPT ![flow[f].cur] = {}] /\ born' = born
    BY <1>3 DEF DestroyConflict
  <2>2. pg' = [pg EXCEPT ![flow[f].cur] = {}] => Shrinks
    BY <1>t DEF TypeOK, Shrinks
  <2> QED BY <1>1, <1>2, <2>1, <2>2
<1>4. ASSUME NEW h \in Hosts, ClearFromHost(f, h) PROVE Shrinks /\ born' = born
  BY <1>4, <1>t, RemoveShrinks DEF ClearFromHost
<1>5. MoveVnic(f) => Shrinks /\ born' = born
  BY DEF MoveVnic, Shrinks
<1>6. LockNetwork(f) \/ Migrated(f) \/ GetNetwork(f) \/ Store(f) => UNCHANGED vcenter
  BY DEF LockNetwork, Migrated, GetNetwork, Store
<1>7. WaitFree(f) \/ Validate(f) \/ WaitAppears(f) => ItemRaises(f) \/ UNCHANGED vcenter
  BY DEF WaitFree, Validate, WaitAppears
<1>8. ASSUME NEW m \in Generated, PickConflict(f, m) PROVE ItemRaises(f) \/ UNCHANGED vcenter
  BY <1>8 DEF PickConflict
<1>9. ASSUME NEW v \in Vms, CheckVnic(f, v) PROVE UNCHANGED vcenter
  BY <1>9 DEF CheckVnic
<1>10. Create(f) \/ Recreate(f) =>
           \/ ItemRaises(f) \/ UNCHANGED vcenter
           \/ AddPortGroup(f) /\ flow[f].pc \in Creating
  BY DEF Create, Recreate, At, Creating
<1>11. CASE Pre(f)
  BY <1>1, <1>2, <1>3, <1>4, <1>5, <1>6, <1>7, <1>8, <1>9, <1>10, <1>11 DEF Pre
<1>12. CASE \E q \in Requests : Start(f, q)
  BY <1>1, <1>12 DEF Start
<1>13. CASE Act(f)
  BY <1>t, <1>13, ActMoves DEF Shrinks
<1>14. CASE Post(f)
  BY <1>t, <1>14, PostMoves
<1> QED BY <1>11, <1>12, <1>13, <1>14 DEF StepBy

LEMMA BornStep ==
    ASSUME Steady, Born, NEW f \in Flows, StepBy(f)
    PROVE  Born'
<1>t. TypeOK /\ LockHeld
  BY DEF Steady, IInv
<1>1. CASE Shrinks /\ born' = born
  BY <1>1 DEF Born, Shrinks, Exists
<1>2. CASE AddPortGroup(f) /\ flow[f].pc \in Creating
  <2>1. flow[f].net \in Generated
    BY <1>t, <1>2 DEF LockHeld, Creating, PreSteps
  <2>2. \A n \in Generated : n # flow[f].net => pg'[n] = pg[n] /\ born'[n] = born[n]
    BY <1>t, <1>2 DEF AddPortGroup, TypeOK
  <2>3. born[flow[f].net] \in Nat
        /\ born'[flow[f].net] = IF Exists(flow[f].net) THEN born[flow[f].net]
                                ELSE born[flow[f].net] + 1
    BY <1>t, <1>2, <2>1 DEF AddPortGroup, TypeOK
  <2>4. born'[flow[f].net] # 0
    BY <2>1, <2>3 DEF Born
  <2> QED BY <2>2, <2>4 DEF Born, Exists
<1> QED BY <1>1, <1>2, Builds

LEMMA CalmBefore ==
    ASSUME Steady, NEW f \in Flows, StepBy(f), Calm'
    PROVE  Calm
<1>1. /\ Others(f) /\ (Started(f) => Kept(f)) /\ Started(f)'
      /\ \A v \in Vms : conn[v] = None => conn'[v] = None
  BY StepMoves
<1>2. \A g \in Flows : Started(g) =>
          flow[g].kind = "set" /\ flow[g].net \in Shared /\ flow[g].gone = {}
  BY <1>1 DEF Calm, Others, Kept, Started, At
<1>3. \A e \in Exclusive : born[e] = 0
  <2>1. CASE born' = born
    BY <2>1 DEF Calm
  <2>2. CASE AddPortGroup(f) /\ flow[f].pc \in Creating
    <3>1. flow[f].net \in Shared
      BY <1>2, <2>2 DEF Started, At, Creating
    <3>2. \A e \in Exclusive : born'[e] = born[e]
      BY <2>2, <3>1, ConnectivityAssumption DEF AddPortGroup, Steady, IInv, TypeOK, Generated
    <3> QED BY <3>2 DEF Calm
  <2> QED BY <2>1, <2>2, Builds
<1>4. \A v \in Vms : conn[v] # None
  BY <1>1 DEF Calm
<1> QED BY <1>2, <1>3, <1>4 DEF Calm

LEMMA ReadyPre ==
    ASSUME Steady, Steady', Born, Calm, NEW f \in Flows, Ready(f), Pre(f)
    PROVE  Ready(f)' /\ Grown
<1> DEFINE l == flow[f]
<1> USE DEF Preparing, InPre, PreSteps
<1>t. /\ TypeOK /\ l \in FlowRecord /\ LockHeld /\ NoDuplicateCreate
      /\ pg \in [Generated -> SUBSET Places] /\ born \in [Generated -> Nat]
  BY DEF Steady, IInv, TypeOK
<1>p. l.pc \in InPre
  BY PrePc
<1>n. l.net \in Generated
  BY <1>p, <1>t DEF LockHeld
<1>s. l.net \in Shared
  BY <1>p DEF Calm, Started, At
<1>r. Ready(f)
  OBVIOUS
<1>k. Conflicting(l.net) = {}
  <2>1. \A e \in Exclusive : ~Exists(e)
    BY DEF Calm, Born, Generated
  <2>2. l.net \notin Exclusive
    BY <1>s, ConnectivityAssumption
  <2> QED BY <2>1, <2>2 DEF Conflicting, SameVlan
<1>v. UNCHANGED vcenter => Grown /\ pg' = pg /\ born' = born
  BY DEF vcenter, Grown
(* On under the lock, with vCenter as it was or with a port group more. *)
<1>g. ASSUME NEW label \in Preparing, Goto(f, label), l.pc \in PreSteps, Grown,
             label \in {"validate", "recreate", "store"} => Alive(l.net, l.ref)',
             label \in {"appear", "store"} => l.place \in pg'[l.net],
             flow'[f].net = l.net => (Exists(l.net) => Exists(l.net)')
      PROVE  Ready(f)'
  <2>1. /\ Kept(f) /\ flow'[f].pc = label /\ flow'[f].left = l.left
        /\ flow'[f].failed = l.failed /\ flow'[f].ref = l.ref /\ flow'[f].got = l.got
        /\ flow'[f].places = l.places /\ flow'[f].place = l.place
        /\ flow'[f].preFailed = l.preFailed /\ flow'[f].todo = l.todo
    BY <1>g, <1>t, GoesTo
  <2>2. pg[l.net] \subseteq pg'[l.net]
    BY <1>g, <1>n DEF Grown
  <2>3. Covered(f)'
    BY <1>g, <1>p, <1>r, <2>1, <2>2 DEF Ready, Covered, Kept, PlaceOf
  <2> QED BY <1>g, <1>r, <2>1, <2>3 DEF Ready, Kept
<1>1. CASE LockNetwork(f)
  <2>1. PICK p \in l.places :
            Update(f, [l EXCEPT !.pc = "clear", !.place = p, !.places = @ \ {p},
                                !.todo = Conflicting(l.net)])
    BY <1>1 DEF LockNetwork
  <2>2. flow'[f] = [l EXCEPT !.pc = "clear", !.place = p, !.places = @ \ {p},
                             !.todo = Conflicting(l.net)]
    BY <1>t, <2>1, Becomes
  <2>3. /\ flow'[f].pc = "clear" /\ flow'[f].todo = Conflicting(l.net)
        /\ flow'[f].net = l.net /\ flow'[f].vms = l.vms /\ flow'[f].left = l.left
        /\ flow'[f].failed = l.failed /\ flow'[f].preFailed = l.preFailed
        /\ flow'[f].places = l.places \ {p} /\ flow'[f].place = p
    BY <1>t, <2>2 DEF FlowRecord
  <2>4. l.pc = "pre" /\ UNCHANGED vcenter
    BY <1>1 DEF LockNetwork, At
  <2>5. Covered(f)'
    BY <1>r, <1>v, <2>3, <2>4 DEF Ready, Covered, PlaceOf
  <2> QED BY <1>k, <1>r, <1>v, <2>3, <2>4, <2>5 DEF Ready
<1>2. ASSUME NEW m \in Generated, PickConflict(f, m) PROVE FALSE
  BY <1>2, <1>r DEF PickConflict, At, Ready
<1>3. ASSUME NEW v \in Vms, CheckVnic(f, v) PROVE FALSE
  BY <1>3, <1>r DEF CheckVnic, At, Ready
<1>4. ~MoveVnic(f) /\ ~Migrated(f) /\ ~WaitFree(f) /\ ~DestroyConflict(f)
  BY <1>r DEF MoveVnic, Migrated, WaitFree, DestroyConflict, At, Ready
<1>5. ASSUME NEW h \in Hosts, ClearFromHost(f, h) PROVE FALSE
  BY <1>5, <1>r DEF ClearFromHost, At, Ready
(* The network is there, and so is the handle. *)
<1>h. ASSUME NEW label \in {"store", "validate"},
             Update(f, [l EXCEPT !.ref = born[l.net], !.pc = label]),
             UNCHANGED vcenter, Exists(l.net), l.pc \in PreSteps,
             label = "store" => l.place \in pg[l.net]
      PROVE  Ready(f)'
  <2>1. flow'[f] = [l EXCEPT !.ref = born[l.net], !.pc = label]
    BY <1>h, <1>t, Becomes
  <2>2. /\ flow'[f].pc = label /\ flow'[f].ref = born[l.net]
        /\ flow'[f].net = l.net /\ flow'[f].vms = l.vms /\ flow'[f].left = l.left
        /\ flow'[f].failed = l.failed /\ flow'[f].preFailed = l.preFailed
        /\ flow'[f].places = l.places /\ flow'[f].place = l.place /\ flow'[f].todo = l.todo
    BY <1>t, <2>1 DEF FlowRecord
  <2>3. pg' = pg /\ born' = born
    BY <1>h, <1>v
  <2>4. Covered(f)'
    BY <1>h, <1>r, <2>2, <2>3 DEF Ready, Covered, PlaceOf
  <2>5. Alive(flow[f].net, flow[f].ref)'
    BY <1>h, <2>2, <2>3 DEF Alive, Exists
  <2> QED BY <1>h, <1>r, <2>2, <2>3, <2>4, <2>5 DEF Ready, Alive, Exists
<1>6. CASE GetNetwork(f)
  <2>1. l.pc = "clear" /\ UNCHANGED vcenter
    BY <1>6 DEF GetNetwork, At
  <2>2. CASE ~Exists(l.net)
    <3>1. Goto(f, "create")
      BY <1>6, <2>2 DEF GetNetwork
    <3>2. flow'[f].net = l.net => (Exists(l.net) => Exists(l.net)')
      BY <2>2
    <3> QED BY <1>g, <1>v, <2>1, <3>1, <3>2
  <2>3. CASE Exists(l.net)
    <3>1. Update(f, [l EXCEPT !.ref = born[l.net],
                              !.pc = IF Distributed THEN "store" ELSE "validate"])
      BY <1>6, <2>3 DEF GetNetwork
    <3>2. l.place \in Places
      BY <1>t, <2>1 DEF LockHeld
    <3>3. Distributed => l.place \in pg[l.net]
      BY <1>n, <1>t, <2>3, <3>2 DEF Places, Exists
    <3> QED BY <1>h, <1>v, <2>1, <2>3, <3>1, <3>3
  <2> QED BY <2>2, <2>3
<1>7. CASE Validate(f)
  <2>1. l.pc = "validate" /\ Alive(l.net, l.ref)
    BY <1>7, <1>r DEF Validate, At, Ready
  <2>2. UNCHANGED vcenter /\ Goto(f, IF l.place \in pg[l.net] THEN "store" ELSE "recreate")
    BY <1>7, <2>1 DEF Validate
  <2>3. /\ pg' = pg /\ born' = born /\ flow'[f].net = l.net /\ flow'[f].ref = l.ref
    BY <1>t, <1>v, <2>2, GoesTo DEF Kept
  <2>4. Alive(l.net, l.ref)' /\ (Exists(l.net) => Exists(l.net)')
    BY <2>1, <2>3 DEF Alive, Exists
  <2>5. CASE l.place \in pg[l.net]
    BY <1>g, <1>v, <2>1, <2>2, <2>3, <2>4, <2>5
  <2>6. CASE l.place \notin pg[l.net]
    BY <1>g, <1>v, <2>1, <2>2, <2>3, <2>4, <2>6
  <2> QED BY <2>5, <2>6
<1>a. ASSUME AddPortGroup(f)
      PROVE  /\ Grown /\ l.place \in pg'[l.net]
             /\ Exists(l.net) => born'[l.net] = born[l.net]
  <2>1. /\ pg' = [pg EXCEPT ![l.net] = @ \cup {l.place}]
        /\ born' = [born EXCEPT ![l.net] = IF Exists(l.net) THEN @ ELSE @ + 1]
    BY <1>a DEF AddPortGroup
  <2> QED BY <1>n, <1>t, <2>1 DEF Grown
<1>8. CASE Create(f)
  <2>1. l.pc = "create" /\ ~Duplicate(f)
    BY <1>8, <1>t DEF Create, At, NoDuplicateCreate, Duplicate
  <2>2. AddPortGroup(f) /\ Goto(f, "appear")
    BY <1>8, <2>1 DEF Create
  <2>3. flow'[f].net = l.net => (Exists(l.net) => Exists(l.net)')
    BY <1>a, <2>2 DEF Exists
  <2> QED BY <1>a, <1>g, <2>1, <2>2, <2>3
<1>9. CASE Recreate(f)
  <2>1. l.pc = "recreate" /\ ~Duplicate(f) /\ Alive(l.net, l.ref)
    BY <1>9, <1>r, <1>t DEF Recreate, At, NoDuplicateCreate, Duplicate, Ready
  <2>2. AddPortGroup(f) /\ Goto(f, "store")
    BY <1>9, <2>1 DEF Recreate
  <2>3. flow'[f].net = l.net /\ flow'[f].ref = l.ref
    BY <1>t, <2>2, GoesTo DEF Kept
  <2>4. Alive(l.net, l.ref)' /\ Exists(l.net)'
    BY <1>a, <2>1, <2>2, <2>3 DEF Alive, Exists
  <2> QED BY <1>a, <1>g, <2>1, <2>2, <2>3, <2>4
<1>10. CASE WaitAppears(f)
  <2>1. l.pc = "appear" /\ l.place \in pg[l.net] /\ Exists(l.net)
    BY <1>10, <1>r DEF WaitAppears, At, Ready, Exists
  <2>2. Update(f, [l EXCEPT !.pc = "store", !.ref = born[l.net]]) /\ UNCHANGED vcenter
    BY <1>10, <2>1 DEF WaitAppears
  <2>3. [l EXCEPT !.pc = "store", !.ref = born[l.net]]
            = [l EXCEPT !.ref = born[l.net], !.pc = "store"]
    BY <1>t DEF FlowRecord
  <2> QED BY <1>h, <1>v, <2>1, <2>2, <2>3
<1>11. CASE Store(f)
  <2> DEFINE r == [l EXCEPT !.got = l.ref, !.place = None]
  <2>1. l.pc = "store" /\ EndItem(f, r) /\ UNCHANGED vcenter
    BY <1>11 DEF Store, At
  <2>2. /\ r \in FlowRecord /\ r.net = l.net /\ r.got = l.ref /\ r.vms = l.vms
        /\ r.left = l.left /\ r.failed = l.failed /\ r.places = l.places
        /\ r.preFailed = l.preFailed
    BY <1>t DEF FlowRecord
  <2> HIDE DEF r
  <2>3. ~r.preFailed
    BY <1>r, <2>2 DEF Ready
  <2>4. /\ flow'[f].net = l.net /\ flow'[f].got = l.ref /\ flow'[f].vms = l.vms
        /\ flow'[f].left = l.left /\ flow'[f].failed = l.failed
        /\ flow'[f].places = l.places /\ flow'[f].preFailed = l.preFailed
        /\ flow'[f].pc = "pre" \/ (flow'[f].pc = "act" /\ l.places = {})
    BY <1>t, <2>1, <2>2, <2>3, ItemOver
  <2>5. pg' = pg /\ born' = born
    BY <1>v, <2>1
  <2>6. Alive(flow[f].net, flow[f].got)'
    BY <1>r, <2>1, <2>4, <2>5 DEF Ready, Alive, Exists
  <2>7. \A v \in l.vms : PlaceOf(v) \in l.places \cup pg[l.net]
    BY <1>r, <2>1 DEF Ready, Covered
  <2>8. Covered(f)'
    BY <2>4, <2>5, <2>7 DEF Covered, PlaceOf
  <2> QED BY <1>r, <1>v, <2>1, <2>4, <2>5, <2>6, <2>7, <2>8 DEF Ready, PlaceOf
<1> QED
  BY <1>1, <1>2, <1>3, <1>4, <1>5, <1>6, <1>7, <1>8, <1>9, <1>10, <1>11 DEF Pre

LEMMA SmoothStep ==
    ASSUME Steady, Steady', Born, Smooth, NEW f \in Flows, StepBy(f)
    PROVE  Smooth'
<1> SUFFICES ASSUME Calm' PROVE \A g \in Flows : Ready(g)'
  BY DEF Smooth
<1> DEFINE l == flow[f]
<1>t. TypeOK /\ Others(f)
  BY StepMoves DEF Steady, IInv
<1>c. Calm /\ \A g \in Flows : Ready(g)
  BY CalmBefore DEF Smooth
<1>v. UNCHANGED <<pg, born>> => Grown
  BY DEF Grown
<1>1. CASE \E q \in Requests : Start(f, q)
  <2>1. PICK q \in Requests : Start(f, q)
    BY <1>1
  <2>2. /\ flow'[f].kind = q.kind /\ flow'[f].net = q.net /\ flow'[f].vms = q.vms
        /\ flow'[f].left = q.vms /\ flow'[f].preFailed = FALSE /\ flow'[f].failed = {}
        /\ UNCHANGED <<pg, born, conn, holder>>
    BY <1>t, <2>1, StartMoves
  <2>3. Started(f)'
    BY StepMoves
  <2>4. q.kind = "set" /\ q.net \in Generated /\ flow'[f].gone = {}
    BY <2>2, <2>3 DEF Calm, Generated
  <2>5. flow'[f].pc = "pre" /\ flow'[f].places = {PlaceOf(v) : v \in q.vms}
    BY <1>t, <2>1, <2>4, StartMoves
  <2>6. Ready(f)'
    BY <2>2, <2>5 DEF Ready, Covered, InPre, PreSteps, PlaceOf
  <2> QED BY <1>c, <1>t, <1>v, <2>2, <2>6, ReadyGrown DEF Others
<1>2. CASE Pre(f)
  <2>1. Ready(f)' /\ Grown
    BY <1>2, <1>c, ReadyPre
  <2> QED BY <1>c, <1>t, <2>1, ReadyGrown DEF Others
<1>3. CASE Act(f)
  <2>1. /\ l.pc = "act" /\ flow'[f].pc = "act" /\ Kept(f) /\ flow'[f].got = l.got
        /\ flow'[f].preFailed = l.preFailed /\ flow'[f].left \subseteq l.left
        /\ UNCHANGED <<pg, born>>
    BY <1>3, <1>t, ActMoves
  <2>2. l.kind = "set" /\ l.net \in Shared /\ \A v \in Vms : conn[v] # None
    BY <1>c, <2>1 DEF Calm, Started, At
  <2>3. /\ Alive(l.net, l.got) /\ l.failed = {} /\ l.left \subseteq l.vms
        /\ \A v \in l.vms : PlaceOf(v) \in pg[l.net]
    BY <1>c, <2>1 DEF Ready
  <2>4. l.left \subseteq Vms
    BY <1>t DEF TypeOK, FlowRecord
  <2>5. \A v \in l.left : conn[v] # None /\ Usable(f, v)
    BY <2>2, <2>3, <2>4 DEF Usable
  <2>6. flow'[f].failed = {}
    BY <1>3, <1>t, <2>2, <2>3, <2>5, ActMoves
  <2>7. Ready(f)'
    BY <1>c, <2>1, <2>3, <2>6 DEF Ready, Kept, Alive, Exists, InPre, PreSteps, PlaceOf
  <2> QED BY <1>c, <1>t, <1>v, <2>1, <2>7, ReadyGrown DEF Others
<1>4. CASE Post(f)
  <2>1. l.pc = "act"
    BY <1>4, <1>t, <1>c, PostMoves DEF Ready, Preparing
  <2>2. l.kind = "set" /\ l.failed = {}
    BY <1>c, <2>1 DEF Calm, Ready, Started, At
  <2>3. ToRemove(f) = {}
    BY <2>2 DEF ToRemove, Disused
  <2>4. flow'[f].pc = "done" /\ pg' = pg /\ born' = born /\ Kept(f)
        /\ flow'[f].failed = l.failed /\ flow'[f].preFailed = l.preFailed
    BY <1>4, <1>t, <2>1, <2>3, PostMoves
  <2>5. flow'[f].left \subseteq flow'[f].vms
    <3>1. ActionsDone(f)
      BY <1>4, <2>1 DEF Post, PostGet, PostWait, PostDestroyDv, PostDestroyHost,
                        PostDestroyEverywhere, PostFromHost, At
    <3>2. flow'[f].left = l.left
      BY <1>t, <2>3, <3>1, GoesTo DEF ActionsDone
    <3> QED BY <1>c, <2>4, <3>2 DEF Ready, Kept
  <2>6. Ready(f)'
    BY <1>c, <2>2, <2>4, <2>5 DEF Ready, InPre, PreSteps
  <2> QED BY <1>c, <1>t, <1>v, <2>4, <2>6, ReadyGrown DEF Others
<1> QED BY <1>1, <1>2, <1>3, <1>4 DEF StepBy

LEMMA InitSmooth == Init => Born /\ Smooth
<1> SUFFICES ASSUME Init PROVE Born /\ Smooth
  OBVIOUS
<1>1. Born
  BY DEF Init, Born, Exists, Attached
<1>2. \A f \in Flows : Ready(f)
  BY DEF Init, IdleFlow, Ready, InPre, PreSteps
<1> QED BY <1>1, <1>2 DEF Smooth

LEMMA NextSmooth == Steady /\ Steady' /\ Born /\ Smooth /\ [Next]_vars => Born' /\ Smooth'
<1> SUFFICES ASSUME Steady, Steady', Born, Smooth, [Next]_vars PROVE Born' /\ Smooth'
  OBVIOUS
<1>1. CASE \E v \in Vms : DeleteVm(v)
  <2>1. UNCHANGED <<pg, born>> /\ \E v \in Vms : conn'[v] = None
    BY <1>1 DEF DeleteVm, Steady, IInv, TypeOK
  <2> QED BY <2>1 DEF Born, Exists, Smooth, Calm
<1>2. ASSUME NEW f \in Flows, StepBy(f) PROVE Born' /\ Smooth'
  BY <1>2, BornStep, SmoothStep
<1>3. CASE UNCHANGED vars
  <2>1. UNCHANGED <<pg, born, conn, flow>>
    BY <1>3 DEF vars
  <2>2. Born' /\ (Calm' => Calm)
    BY <2>1 DEF Born, Exists, Calm, Started, At
  <2>3. \A f \in Flows : Ready(f) => Ready(f)'
    BY <2>1 DEF Ready, Covered, Alive, Exists, PlaceOf
  <2> QED BY <2>2, <2>3 DEF Smooth
<1> QED BY <1>1, <1>2, <1>3 DEF Next, StepBy

(* Where all commands connect to shared networks and no exclusive one has   *)
(* been in the way, no command fails because of another, however many there *)
(* are, and on either kind of switch: what one finds missing it may create, *)
(* and what it found or created is not taken away (pre_connectivity,        *)
(* _get_or_create_network and set_vlan, connectivity_flow.py:102-165,       *)
(* 265-302).                                                                *)
THEOREM ConnectsSucceed == Spec => []ConcurrentConnectsSucceed
<1>1. Smooth => ConcurrentConnectsSucceed
  BY DEF Smooth, Calm, ConcurrentConnectsSucceed, Ready, Preparing
<1>2. Init /\ []Steady /\ [][Next]_vars => [](Born /\ Smooth)
  BY InitSmooth, NextSmooth, PTL
<1> QED BY <1>1, <1>2, AlwaysSteady, PTL DEF Spec
=============================================================================
