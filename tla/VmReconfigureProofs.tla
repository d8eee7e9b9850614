------------------------ MODULE VmReconfigureProofs ------------------------
(***************************************************************************)
(* Proofs about VmReconfigure for any VM, commands, requests and limits:   *)
(* how far the lock of a VM separates the commands that reconfigure it,    *)
(* though the lock is made without another one; that new disks get keys of *)
(* their own and unit numbers that no device with a file has; and that     *)
(* disks are left as asked for.                                            *)
(*                                                                         *)
(* The plan is a recursive function.  Induction is proved below for a set  *)
(* of numbers, from well-founded inclusion of intervals, and used first to *)
(* show that the function exists, then for what it computes.               *)
(***************************************************************************)
EXTENDS VmReconfigure, FiniteSetTheorems, WellFoundedInduction, TLAPS

Inside(c) == job[c].pc \in {"task", "running"}

(* A command's locals, whatever it asks for.                               *)
IsJob(j) ==
    j \in [pc : {j.pc}, ask : {j.ask}, plan : {j.plan}, lock : Nat, seen : {j.seen},
           missed : BOOLEAN]

Types ==
    /\ job = [c \in Cmds |-> job[c]]
    /\ \A c \in Cmds : IsJob(job[c])
    /\ locks = [stored |-> locks.stored, made |-> locks.made]
    /\ locks.stored \in Nat /\ locks.made \in Nat
    /\ holder \in [1 .. Cardinality(Cmds) -> Cmds \cup {0}]

(* While no command has missed the stored lock there is one at most, every  *)
(* command that has read it knows that one, and the one inside holds it.    *)
OneLock ==
    /\ locks.stored = locks.made
    /\ locks.made \in {0, 1}
    /\ \A d \in Cmds :
          /\ job[d].pc \in {"read", "lock", "task", "running"} => locks.stored = 1
          /\ job[d].pc \in {"lock", "task", "running"} => job[d].lock = 1
          /\ Inside(d) => holder[1] = d

IInv == Types /\ ((\E c \in Cmds : ~job[c].missed) => OneLock)

LEMMA OneIsLock ==
    ASSUME ReconfigureAssumption, NEW c \in Cmds
    PROVE  1 \in 1 .. Cardinality(Cmds)
<1>1. Cardinality(Cmds) \in Nat /\ Cardinality(Cmds) # 0
  BY FS_CardinalityType, FS_EmptySet DEF ReconfigureAssumption
<1> QED BY <1>1

LEMMA InitInv == ReconfigureAssumption /\ Init => IInv
<1> SUFFICES ASSUME ReconfigureAssumption, Init PROVE IInv
  OBVIOUS
<1>1. Types
  BY DEF Init, Types, IsJob
<1>2. OneLock
  BY DEF Init, OneLock, Inside
<1> QED BY <1>1, <1>2 DEF IInv

(* What a command does to its own locals keeps the types.                  *)
LEMMA UpdateTypes ==
    ASSUME Types, NEW c \in Cmds, NEW j, IsJob(j), Update(c, j),
           locks' = [stored |-> locks'.stored, made |-> locks'.made],
           locks'.stored \in Nat, locks'.made \in Nat,
           holder' \in [1 .. Cardinality(Cmds) -> Cmds \cup {0}]
    PROVE  /\ Types'
           /\ job'[c] = j
           /\ \A d \in Cmds \ {c} : job'[d] = job[d]
<1>1. job'[c] = j /\ \A d \in Cmds \ {c} : job'[d] = job[d]
  BY DEF Update, Types
<1>2. job' = [d \in Cmds |-> job'[d]]
  BY DEF Update, Types
<1>3. \A d \in Cmds : IsJob(job'[d])
  BY <1>1 DEF Types
<1>4. (\A d \in Cmds : IsJob(job[d]))'
  BY <1>3 DEF IsJob
<1> QED BY <1>1, <1>2, <1>4 DEF Types

(* The same for a command that only goes on.                               *)
LEMMA GotoTypes ==
    ASSUME Types, NEW c \in Cmds, NEW label, Goto(c, label), UNCHANGED locks,
           holder' \in [1 .. Cardinality(Cmds) -> Cmds \cup {0}]
    PROVE  /\ Types'
           /\ job'[c] = [job[c] EXCEPT !.pc = label]
           /\ job'[c].pc = label /\ job'[c].lock = job[c].lock
           /\ job'[c].missed = job[c].missed
           /\ \A d \in Cmds \ {c} : job'[d] = job[d]
<1> DEFINE j == [job[c] EXCEPT !.pc = label]
<1>1. /\ IsJob(j)
      /\ j.pc = label /\ j.lock = job[c].lock /\ j.missed = job[c].missed
  BY DEF Types, IsJob
<1>2. Update(c, j)
  BY DEF Goto
<1>3. /\ locks' = [stored |-> locks'.stored, made |-> locks'.made]
      /\ locks'.stored \in Nat /\ locks'.made \in Nat
  BY DEF Types
<1> HIDE DEF j
<1>4. Types' /\ job'[c] = j /\ \A d \in Cmds \ {c} : job'[d] = job[d]
  BY <1>1, <1>2, <1>3, UpdateTypes
<1> QED BY <1>1, <1>4 DEF j

(* Leaving the lock's block empties the lock the command has.              *)
LEMMA LeaveInv ==
    ASSUME ReconfigureAssumption, IInv, NEW c \in Cmds, NEW label \in Over,
           Leave(c, label), Inside(c), UNCHANGED locks
    PROVE  IInv'
<1>1. holder' \in [1 .. Cardinality(Cmds) -> Cmds \cup {0}]
  BY DEF Leave, IInv, Types
<1>2. /\ Types' /\ job'[c].pc = label
      /\ job'[c].missed = job[c].missed
      /\ \A d \in Cmds \ {c} : job'[d] = job[d]
  BY <1>1, GotoTypes DEF Leave, IInv
<1>3. ASSUME NEW d \in Cmds, ~job'[d].missed PROVE OneLock'
  <2>1. OneLock
    BY <1>2, <1>3 DEF IInv
  <2>2. ASSUME NEW e \in Cmds, e # c, Inside(e) PROVE FALSE
    BY <2>1, <2>2 DEF OneLock, Inside
  <2> QED BY <1>2, <2>1, <2>2 DEF OneLock, Inside, Over
<1> QED BY <1>2, <1>3 DEF IInv

LEMMA StepInv == ReconfigureAssumption /\ IInv /\ [Next]_vars => IInv'
<1> SUFFICES ASSUME ReconfigureAssumption, IInv, [Next]_vars PROVE IInv'
  OBVIOUS
<1>t. Types
  BY DEF IInv
<1>1. ASSUME NEW c \in Cmds, MakeSpec(c) PROVE IInv'
  <2>1. PICK ask \in Asks[c] :
           LET plan == Plan(vm, ask)
           IN  Update(c, [job[c] EXCEPT !.ask = ask, !.plan = plan, !.seen = vm,
                                        !.pc = IF plan.refused THEN "failed" ELSE "find"])
    BY <1>1 DEF MakeSpec
  <2> DEFINE plan == Plan(vm, ask)
             j == [job[c] EXCEPT !.ask = ask, !.plan = plan, !.seen = vm,
                                 !.pc = IF plan.refused THEN "failed" ELSE "find"]
  <2>2. UNCHANGED <<locks, holder>>
    BY <1>1 DEF MakeSpec
  <2> HIDE DEF plan
  <2>a. IsJob(job[c])
    BY <1>t DEF Types
  <2>3. /\ IsJob(j)
        /\ j.pc \in {"failed", "find"} /\ j.missed = job[c].missed
    BY <2>a DEF IsJob
  <2>4. Update(c, j)
    BY <2>1 DEF plan
  <2> HIDE DEF j
  <2>5. Types' /\ job'[c] = j /\ \A d \in Cmds \ {c} : job'[d] = job[d]
    BY <1>t, <2>2, <2>3, <2>4, UpdateTypes DEF Types
  <2>6. ASSUME NEW d \in Cmds, ~job'[d].missed PROVE OneLock'
    <3>1. OneLock
      BY <2>3, <2>5, <2>6 DEF IInv
    <3> QED BY <2>2, <2>3, <2>5, <3>1 DEF OneLock, Inside
  <2> QED BY <2>5, <2>6 DEF IInv
<1>2. ASSUME NEW c \in Cmds, FindLock(c) PROVE IInv'
  <2> DEFINE label == IF locks.stored = 0 THEN "store" ELSE "read"
  <2>1. Goto(c, label) /\ UNCHANGED <<locks, holder>>
    BY <1>2 DEF FindLock
  <2>2. /\ Types' /\ job'[c].pc = label /\ job'[c].missed = job[c].missed
        /\ \A d \in Cmds \ {c} : job'[d] = job[d]
    BY <1>t, <2>1, GotoTypes DEF Types
  <2>3. ASSUME NEW d \in Cmds, ~job'[d].missed PROVE OneLock'
    <3>1. OneLock
      BY <2>2, <2>3 DEF IInv
    <3>2. label = "read" => locks.stored = 1
      BY <3>1 DEF OneLock
    <3> QED BY <2>1, <2>2, <3>1, <3>2 DEF OneLock, Inside
  <2> QED BY <2>2, <2>3 DEF IInv
<1>3. ASSUME NEW c \in Cmds, StoreLock(c) PROVE IInv'
  <2>1. /\ locks' = [stored |-> locks.made + 1, made |-> locks.made + 1]
        /\ job' = [d \in Cmds |-> [job[d] EXCEPT !.pc = IF d = c THEN "read" ELSE @,
                                                 !.missed = @ \/ locks.stored # 0]]
        /\ UNCHANGED holder
    BY <1>3 DEF StoreLock
  <2>a. locks' = [stored |-> locks.made + 1, made |-> locks.made + 1]
    BY <2>1
  <2>b. locks.made + 1 \in Nat
    BY <1>t DEF Types
  <2>2. /\ locks'.stored = locks.made + 1 /\ locks'.made = locks.made + 1
        /\ locks' = [stored |-> locks'.stored, made |-> locks'.made]
        /\ locks'.stored \in Nat /\ locks'.made \in Nat
    BY <2>a, <2>b
  <2>3. ASSUME NEW d \in Cmds
        PROVE  /\ IsJob(job'[d])
               /\ job'[d].missed = (job[d].missed \/ locks.stored # 0)
               /\ job'[d].lock = job[d].lock
               /\ job'[d].pc = IF d = c THEN "read" ELSE job[d].pc
    <3>1. IsJob(job[d])
      BY <1>t DEF Types
    <3>2. job'[d] = [job[d] EXCEPT !.pc = IF d = c THEN "read" ELSE @,
                                   !.missed = @ \/ locks.stored # 0]
      BY <2>1
    <3> QED BY <3>1, <3>2 DEF IsJob
  <2>4. (\A d \in Cmds : IsJob(job[d]))'
    BY <2>3 DEF IsJob
  <2>5. job' = [d \in Cmds |-> job'[d]]
    BY <2>1
  <2>6. Types'
    BY <1>t, <2>1, <2>2, <2>4, <2>5 DEF Types
  <2>7. ASSUME NEW d \in Cmds, ~job'[d].missed PROVE OneLock'
    <3>1. OneLock /\ locks.stored = 0
      BY <2>3, <2>7 DEF IInv
    <3>2. locks'.stored = 1 /\ locks'.made = 1
      BY <2>2, <3>1 DEF OneLock
    <3>3. \A e \in Cmds : job'[e].pc \notin {"lock", "task", "running"}
      BY <2>3, <3>1 DEF OneLock
    <3> QED BY <3>2, <3>3 DEF OneLock, Inside
  <2> QED BY <2>6, <2>7 DEF IInv
<1>4. ASSUME NEW c \in Cmds, ReadLock(c) PROVE IInv'
  <2> DEFINE j == [job[c] EXCEPT !.pc = "lock", !.lock = locks.stored]
  <2>1. At(c, "read") /\ Update(c, j) /\ UNCHANGED <<locks, holder>>
    BY <1>4 DEF ReadLock
  <2>a. IsJob(job[c]) /\ locks.stored \in Nat
    BY <1>t DEF Types
  <2>2. /\ IsJob(j) /\ j.pc = "lock" /\ j.lock = locks.stored
        /\ j.missed = job[c].missed
    BY <2>a DEF IsJob
  <2> HIDE DEF j
  <2>3. Types' /\ job'[c] = j /\ \A d \in Cmds \ {c} : job'[d] = job[d]
    BY <1>t, <2>1, <2>2, UpdateTypes DEF Types
  <2>4. ASSUME NEW d \in Cmds, ~job'[d].missed PROVE OneLock'
    <3>1. OneLock
      BY <2>2, <2>3, <2>4 DEF IInv
    <3>2. locks.stored = 1
      BY <2>1, <3>1 DEF OneLock, At
    <3>3. job'[c].pc = "lock" /\ job'[c].lock = 1
      BY <2>2, <2>3, <3>2
    <3>4. locks' = locks /\ holder' = holder
      BY <2>1
    <3> QED BY <2>3, <3>1, <3>2, <3>3, <3>4 DEF OneLock, Inside
  <2> QED BY <2>3, <2>4 DEF IInv
<1>5. ASSUME NEW c \in Cmds, TakeLock(c) PROVE IInv'
  <2>1. /\ At(c, "lock") /\ holder[job[c].lock] = 0
        /\ holder' = [holder EXCEPT ![job[c].lock] = c]
        /\ Goto(c, "task") /\ UNCHANGED locks
    BY <1>5 DEF TakeLock
  <2>2. holder' \in [1 .. Cardinality(Cmds) -> Cmds \cup {0}]
    BY <1>t, <2>1 DEF Types
  <2>3. /\ Types' /\ job'[c].pc = "task" /\ job'[c].lock = job[c].lock
        /\ job'[c].missed = job[c].missed
        /\ \A d \in Cmds \ {c} : job'[d] = job[d]
    BY <1>t, <2>1, <2>2, GotoTypes
  <2>4. ASSUME NEW d \in Cmds, ~job'[d].missed PROVE OneLock'
    <3>1. OneLock
      BY <2>3, <2>4 DEF IInv
    <3>2. job[c].lock = 1 /\ locks.stored = 1 /\ holder[1] = 0
      BY <2>1, <3>1 DEF OneLock, At
    <3>3. holder'[1] = c
      BY <1>t, <2>1, <3>2, OneIsLock DEF Types
    <3>4. \A e \in Cmds : ~Inside(e)
      BY <3>1, <3>2 DEF OneLock, ReconfigureAssumption
    <3> QED BY <2>1, <2>3, <3>1, <3>2, <3>3, <3>4 DEF OneLock, Inside
  <2> QED BY <2>3, <2>4 DEF IInv
<1>6. ASSUME NEW c \in Cmds, StartTask(c) PROVE IInv'
  <2>1. Inside(c) /\ UNCHANGED locks
    BY <1>6 DEF StartTask, Inside, At
  <2>2. CASE Leave(c, "failed")
    BY <2>1, <2>2, LeaveInv DEF Over
  <2>3. CASE Goto(c, "running") /\ UNCHANGED holder
    <3>1. /\ Types' /\ job'[c].pc = "running" /\ job'[c].lock = job[c].lock
          /\ job'[c].missed = job[c].missed
          /\ \A d \in Cmds \ {c} : job'[d] = job[d]
      BY <1>t, <2>1, <2>3, GotoTypes DEF Types
    <3>2. ASSUME NEW d \in Cmds, ~job'[d].missed PROVE OneLock'
      <4>1. OneLock
        BY <3>1, <3>2 DEF IInv
      <4> QED BY <2>1, <2>3, <3>1, <4>1 DEF OneLock, Inside
    <3> QED BY <3>1, <3>2 DEF IInv
  <2> QED BY <1>6, <2>2, <2>3 DEF StartTask
<1>7. ASSUME NEW c \in Cmds, EndTask(c) PROVE IInv'
  <2>1. Inside(c) /\ UNCHANGED locks
    BY <1>7 DEF EndTask, Inside, At
  <2>2. Leave(c, "done") \/ Leave(c, "failed")
    BY <1>7 DEF EndTask
  <2> QED BY <2>1, <2>2, LeaveInv DEF Over
<1>8. CASE UNCHANGED vars
  BY <1>8 DEF vars, IInv, Types, OneLock, IsJob, Inside
<1> QED BY <1>1, <1>2, <1>3, <1>4, <1>5, <1>6, <1>7, <1>8 DEF Next, Working

LEMMA SerialisedByInv == ReconfigureAssumption /\ IInv => Serialised
BY DEF IInv, OneLock, Inside, Serialised

(* Two commands are inside a reconfiguration of the VM only if two found no *)
(* lock for it at once (vm_handler.py:115-118, 250-258).                   *)
THEOREM ReconfigurationsSerialised == ReconfigureAssumption => (Spec => []Serialised)
<1> SUFFICES ASSUME ReconfigureAssumption PROVE Spec => []Serialised
  OBVIOUS
<1>1. Init => IInv
  BY InitInv
<1>2. IInv /\ [Next]_vars => IInv'
  BY StepInv
<1>3. IInv => Serialised
  BY SerialisedByInv
<1> QED BY <1>1, <1>2, <1>3, PTL DEF Spec

-----------------------------------------------------------------------------
(* A set of numbers has a least one: intervals are well founded.           *)
LEMMA Least ==
    ASSUME NEW T, T \subseteq Nat, T # {}
    PROVE  \E x \in T : \A y \in T : x <= y
<1> DEFINE I == {0 .. n : n \in T}
<1>1. I \subseteq FiniteSubsetsOf(Nat) /\ I # {}
  <2>1. ASSUME NEW n \in T PROVE 0 .. n \in FiniteSubsetsOf(Nat)
    <3>1. 0 \in Int /\ n \in Int
      OBVIOUS
    <3>2. IsFiniteSet(0 .. n)
      BY <3>1, FS_Interval
    <3>3. 0 .. n \in SUBSET Nat
      OBVIOUS
    <3> QED BY <3>2, <3>3 DEF FiniteSubsetsOf
  <2> QED BY <2>1
<1>2. PICK i \in I : \A j \in I : <<j, i>> \notin StrictSubsetOrdering(Nat)
  BY <1>1, FS_StrictSubsetOrderingWellFounded, WFMin
<1>3. PICK x \in T : i = 0 .. x
  OBVIOUS
<1>4. ASSUME NEW y \in T, y < x PROVE FALSE
  <2>1. 0 .. y \in I /\ 0 .. y \subseteq 0 .. x /\ 0 .. y # 0 .. x
    <3>1. x \in 0 .. x /\ x \notin 0 .. y
      BY <1>4
    <3> QED BY <1>4, <3>1
  <2>2. <<0 .. y, 0 .. x>> \in StrictSubsetOrdering(Nat)
    BY <2>1, <1>3 DEF StrictSubsetOrdering
  <2> QED BY <1>2, <1>3, <2>1, <2>2
<1> QED BY <1>4

LEMMA Induction ==
    ASSUME NEW S, 0 \in S, \A n \in Nat : n \in S => n + 1 \in S
    PROVE  Nat \subseteq S
<1> SUFFICES ASSUME Nat \ S # {} PROVE FALSE
  OBVIOUS
<1>1. PICK x \in Nat \ S : \A y \in Nat \ S : x <= y
  BY Least
<1>2. x - 1 \in Nat /\ x - 1 \notin Nat \ S
  BY <1>1
<1> QED BY <1>1, <1>2

(* The values of a function on a finite set are finitely many.             *)
LEMMA Image ==
    ASSUME NEW f, IsFiniteSet(DOMAIN f), f = [x \in DOMAIN f |-> f[x]]
    PROVE  IsFiniteSet({f[x] : x \in DOMAIN f})
<1> DEFINE T == {f[x] : x \in DOMAIN f}
<1>1. f \in [DOMAIN f -> T]
  OBVIOUS
<1>2. f \in Surjection(DOMAIN f, T)
  BY <1>1 DEF Surjection
<1> HIDE DEF T
<1> QED BY <1>2, FS_Surjection DEF T

(* Max and Min are what they say.                                          *)
LEMMA Greatest ==
    ASSUME NEW T, T \subseteq Nat, T # {}, IsFiniteSet(T)
    PROVE  Max(T) \in T /\ \A y \in T : y <= Max(T)
<1>1. PICK n \in Nat : ExistsSurjection(1 .. n, T)
  BY FS_NatSurjection
<1>2. PICK f \in [1 .. n -> T] : \A y \in T : \E i \in 1 .. n : f[i] = y
  BY <1>1 DEF ExistsSurjection, Surjection
<1> DEFINE S == {k \in Nat : k <= n => \E b \in Nat : \A i \in 1 .. k : f[i] <= b}
<1>3. 0 \in S
  OBVIOUS
<1>4. ASSUME NEW k \in Nat, k \in S PROVE k + 1 \in S
  <2> SUFFICES ASSUME k + 1 <= n PROVE \E b \in Nat : \A i \in 1 .. k + 1 : f[i] <= b
    OBVIOUS
  <2>1. PICK b \in Nat : \A i \in 1 .. k : f[i] <= b
    BY <1>4
  <2>2. f[k + 1] \in Nat /\ \A i \in 1 .. k : f[i] \in Nat
    <3>1. k + 1 \in 1 .. n /\ \A i \in 1 .. k : i \in 1 .. n
      OBVIOUS
    <3>2. \A i \in 1 .. n : f[i] \in T
      BY <1>2
    <3> QED BY <3>1, <3>2
  <2>3. \A i \in 1 .. k + 1 : f[i] <= b + f[k + 1]
    BY <2>1, <2>2
  <2> QED BY <2>2, <2>3
<1>5. n \in S
  BY <1>3, <1>4, Induction
<1>6. PICK b \in Nat : \A i \in 1 .. n : f[i] <= b
  BY <1>5
<1> DEFINE B == {m \in Nat : \A y \in T : y <= m}
<1>7. b \in B
  BY <1>2, <1>6
<1>8. PICK x \in B : \A m \in B : x <= m
  BY <1>7, Least
<1>9. x \in T
  <2> SUFFICES ASSUME x \notin T PROVE FALSE
    OBVIOUS
  <2>1. \A y \in T : y <= x - 1 /\ x - 1 \in Nat
    BY <1>8
  <2>2. x - 1 \in B
    BY <2>1
  <2> QED BY <1>8, <2>2
<1>10. x \in T /\ \A y \in T : x >= y
  BY <1>8, <1>9
<1> QED BY <1>10 DEF Max

LEMMA Smallest ==
    ASSUME NEW T, T \subseteq Nat, T # {}
    PROVE  Min(T) \in T
BY Least DEF Min

-----------------------------------------------------------------------------
(* A plan fits if its disks are numbered on from the last, and take units   *)
(* and keys that are free and differ; keys go up.                          *)
Request == [num : Nat, size : Nat]
NewDisk == [num : Nat, size : Nat, unit : Nat, key : Nat]
IsPlan(p) == p \in [edits : Seq(Request), adds : Seq(NewDisk), refused : BOOLEAN]

Fits(v, p) ==
    /\ \A i \in DOMAIN p.adds : /\ p.adds[i].num = LastNumber(v.disks) + i
                                /\ p.adds[i].unit \in FreeUnits(v)
                                /\ p.adds[i].key \notin Keys(v)
    /\ \A i, j \in DOMAIN p.adds :
          i < j => p.adds[i].unit # p.adds[j].unit /\ p.adds[i].key < p.adds[j].key

(* A request is answered by a disk that is large enough or is made so, or by *)
(* a new one.                                                              *)
Answers(v, p, r) ==
    IF r.num \in DOMAIN v.disks
    THEN \/ v.disks[r.num].size >= r.size
         \/ \E i \in DOMAIN p.edits : p.edits[i].num = r.num /\ p.edits[i].size >= r.size
    ELSE \E i \in DOMAIN p.adds : p.adds[i].num = r.num /\ p.adds[i].size = r.size

LEMMA KeysFinite ==
    ASSUME NEW v, IsVm(v)
    PROVE  /\ Keys(v) \in SUBSET Nat /\ IsFiniteSet(Keys(v))
           /\ {v.disks[n].key : n \in DOMAIN v.disks} \in SUBSET Nat
           /\ IsFiniteSet({v.disks[n].key : n \in DOMAIN v.disks})
<1> DEFINE f == [n \in DOMAIN v.disks |-> v.disks[n].key]
           g == [d \in v.other |-> d.key]
<1>1. IsFiniteSet(DOMAIN v.disks) /\ IsFiniteSet(v.other)
  BY DEF IsVm
<1>2. /\ DOMAIN f = DOMAIN v.disks /\ f = [n \in DOMAIN f |-> f[n]]
      /\ DOMAIN g = v.other /\ g = [d \in DOMAIN g |-> g[d]]
  OBVIOUS
<1>3. {f[x] : x \in DOMAIN f} = {v.disks[n].key : n \in DOMAIN v.disks}
  OBVIOUS
<1>4. {g[x] : x \in DOMAIN g} = {d.key : d \in v.other}
  OBVIOUS
<1>5. \A n \in DOMAIN v.disks : v.disks[n].key \in Nat
  BY DEF IsVm
<1>6. \A d \in v.other : d.key \in Nat
  BY DEF IsVm
<1> HIDE DEF f, g
<1>a. IsFiniteSet({f[x] : x \in DOMAIN f})
  BY <1>1, <1>2, Image
<1>b. IsFiniteSet({g[x] : x \in DOMAIN g})
  BY <1>1, <1>2, Image
<1>7. IsFiniteSet(Keys(v))
  BY <1>a, <1>b, <1>3, <1>4, FS_Union DEF Keys
<1> QED BY <1>a, <1>3, <1>5, <1>6, <1>7 DEF Keys

(* Among more numbers than the VM has keys, one is free.                    *)
LEMMA NextKeyFree ==
    ASSUME NEW v, IsVm(v), NEW last \in Nat
    PROVE  NextKey(v, last) \in Nat /\ NextKey(v, last) > last /\ NextKey(v, last) \notin Keys(v)
<1> DEFINE size == Cardinality(Keys(v))
           all == last + 1 .. last + 1 + size
           free == all \ Keys(v)
<1>1. IsFiniteSet(Keys(v)) /\ size \in Nat
  BY KeysFinite, FS_CardinalityType
<1> HIDE DEF size
<1>2. Cardinality(all) = size + 1
  <2> DEFINE a == last + 1
             b == last + 1 + size
  <2>1. a \in Int /\ b \in Int /\ ~(a > b) /\ b - a + 1 = size + 1
    BY <1>1
  <2> HIDE DEF a, b
  <2>2. Cardinality(a .. b) = IF a > b THEN 0 ELSE b - a + 1
    BY <2>1, FS_Interval
  <2> QED BY <2>1, <2>2 DEF a, b
<1>3. free # {}
  <2> SUFFICES ASSUME all \in SUBSET Keys(v) PROVE FALSE
    OBVIOUS
  <2>1. Cardinality(all) <= size
    BY <1>1, FS_Subset DEF size
  <2> QED BY <1>1, <1>2, <2>1
<1>4. free \subseteq Nat
  BY <1>1
<1>5. PICK x \in free : \A y \in free : x <= y
  BY <1>3, <1>4, Least
<1>6. x \in all /\ x \notin Keys(v) /\ \A i \in last + 1 .. x - 1 : i \in Keys(v)
  <2>1. ASSUME NEW i \in last + 1 .. x - 1, i \notin Keys(v) PROVE FALSE
    <3>1. i \in all /\ i < x
      BY <1>1, <2>1
    <3> QED BY <1>1, <1>5, <2>1, <3>1
  <2> QED BY <1>5, <2>1
<1>7. NextKey(v, last) \in all /\ NextKey(v, last) \notin Keys(v)
  BY <1>6 DEF NextKey, size
<1> QED BY <1>1, <1>7

LEMMA LastKeyNat ==
    ASSUME NEW v, IsVm(v), v.disks # <<>>
    PROVE  LastKey(v.disks) \in Nat
<1> DEFINE keys == {v.disks[n].key : n \in DOMAIN v.disks}
<1>1. keys \subseteq Nat /\ IsFiniteSet(keys)
  BY KeysFinite
<1>2. DOMAIN v.disks # {}
  <2> SUFFICES ASSUME DOMAIN v.disks = {} PROVE v.disks = <<>>
    OBVIOUS
  <2>1. v.disks \in [{} -> [size : Nat, linked : BOOLEAN, unit : Nat, key : Nat, file : BOOLEAN]]
    BY DEF IsVm
  <2> QED BY <2>1
<1>3. keys # {}
  BY <1>2
<1> HIDE DEF keys
<1>4. Max(keys) \in Nat
  BY <1>1, <1>3, Greatest
<1> QED BY <1>4 DEF LastKey, keys

LEMMA LastNumberNat ==
    ASSUME NEW v, IsVm(v)
    PROVE  LastNumber(v.disks) \in Nat /\ \A n \in DOMAIN v.disks : n <= LastNumber(v.disks)
<1> DEFINE T == {0} \cup DOMAIN v.disks
<1>1. T \subseteq Nat /\ T # {}
  BY DEF IsVm
<1>2. IsFiniteSet(T)
  <2>1. IsFiniteSet(DOMAIN v.disks)
    BY DEF IsVm
  <2>2. IsFiniteSet(DOMAIN v.disks \cup {0})
    BY <2>1, FS_AddElement
  <2>3. T = DOMAIN v.disks \cup {0}
    OBVIOUS
  <2> QED BY <2>2, <2>3
<1>3. Max(T) \in T /\ \A n \in T : n <= Max(T)
  BY <1>1, <1>2, Greatest
<1> QED BY <1>1, <1>3 DEF LastNumber

(* A new disk is free of everything, and what was planned stays.            *)
LEMMA AddDiskKeeps ==
    ASSUME NEW v, IsVm(v), NEW p, IsPlan(p), Fits(v, p), ~p.refused,
           NEW r \in Request, r.num \notin DOMAIN v.disks,
           NEW q, q = AddDisk(v, p, r)
    PROVE  /\ IsPlan(q) /\ Fits(v, q)
           /\ ~q.refused => /\ Answers(v, q, r)
                            /\ \A s : Answers(v, p, s) => Answers(v, q, s)
<1> DEFINE units == FreeUnits(v) \ {p.adds[i].unit : i \in DOMAIN p.adds}
           last == IF p.adds = <<>> THEN LastKey(v.disks) ELSE p.adds[Len(p.adds)].key
           number == LastNumber(v.disks) + Len(p.adds) + 1
           d == [num |-> r.num, size |-> r.size, unit |-> Min(units), key |-> NextKey(v, last)]
<1>1. CASE q = Refused(p)
  BY <1>1 DEF Refused, IsPlan, Fits
<1>2. CASE /\ r.num = number /\ v.disks # <<>> /\ units # {}
           /\ q = [p EXCEPT !.adds = Append(@, d)]
  <2>1. units \subseteq Nat /\ Min(units) \in units
    <3>1. units \subseteq Nat
      BY DEF FreeUnits
    <3> HIDE DEF units
    <3> QED BY <1>2, <3>1, Smallest
  <2>2. /\ p.adds \in Seq(NewDisk)
        /\ Len(p.adds) \in Nat /\ DOMAIN p.adds = 1 .. Len(p.adds)
    BY DEF IsPlan
  <2>a. \A i \in DOMAIN p.adds : p.adds[i].key \in Nat
    <3>1. \A i \in DOMAIN p.adds : p.adds[i] \in NewDisk
      BY <2>2
    <3> QED BY <3>1 DEF NewDisk
  <2>3. last \in Nat /\ \A i \in DOMAIN p.adds : p.adds[i].key <= last
    <3>1. CASE p.adds = <<>>
      BY <1>2, <3>1, LastKeyNat
    <3>2. CASE p.adds # <<>>
      <4>1. Len(p.adds) \in DOMAIN p.adds
        BY <2>2, <3>2
      <4>3. \A i \in DOMAIN p.adds : i < Len(p.adds) => p.adds[i].key < p.adds[Len(p.adds)].key
        BY <4>1 DEF Fits
      <4>4. \A i \in DOMAIN p.adds : i < Len(p.adds) \/ i = Len(p.adds)
        BY <2>2
      <4> QED BY <2>a, <3>2, <4>1, <4>3, <4>4
    <3> QED BY <3>1, <3>2
  <2>4. NextKey(v, last) \in Nat /\ NextKey(v, last) > last /\ NextKey(v, last) \notin Keys(v)
    <3> HIDE DEF last
    <3> QED BY <2>3, NextKeyFree
  <2>5. /\ d \in NewDisk
        /\ d.num = number /\ d.size = r.size /\ d.num = r.num
        /\ d.unit \in units /\ d.key \notin Keys(v)
        /\ \A i \in DOMAIN p.adds : p.adds[i].key < d.key
    <3>1. r.num \in Nat /\ r.size \in Nat
      BY DEF Request
    <3> HIDE DEF last, units, number
    <3> QED BY <1>2, <2>1, <2>3, <2>4, <2>a, <3>1 DEF NewDisk
  <2> HIDE DEF d, last
  <2>6. /\ q.adds = Append(p.adds, d) /\ q.edits = p.edits /\ q.refused = p.refused
        /\ IsPlan(q)
    <3> DEFINE adds == Append(p.adds, d)
    <3>1. adds \in Seq(NewDisk)
      BY <2>2, <2>5
    <3>2. q = [p EXCEPT !.adds = adds]
      BY <1>2
    <3> HIDE DEF adds
    <3>3. q.adds = adds /\ q.edits = p.edits /\ q.refused = p.refused /\ IsPlan(q)
      BY <3>1, <3>2 DEF IsPlan
    <3> QED BY <3>3 DEF adds
  <2>7. /\ DOMAIN q.adds = 1 .. Len(p.adds) + 1
        /\ \A i \in DOMAIN p.adds : q.adds[i] = p.adds[i]
        /\ q.adds[Len(p.adds) + 1] = d
    BY <2>2, <2>5, <2>6
  <2>8. \A i \in DOMAIN q.adds : i \in DOMAIN p.adds \/ i = Len(p.adds) + 1
    BY <2>2, <2>7
  <2>9. \A i \in DOMAIN q.adds : /\ q.adds[i].num = LastNumber(v.disks) + i
                                 /\ q.adds[i].unit \in FreeUnits(v)
                                 /\ q.adds[i].key \notin Keys(v)
    <3>1. \A i \in DOMAIN p.adds : /\ p.adds[i].num = LastNumber(v.disks) + i
                                   /\ p.adds[i].unit \in FreeUnits(v)
                                   /\ p.adds[i].key \notin Keys(v)
      BY DEF Fits
    <3>2. d.num = LastNumber(v.disks) + (Len(p.adds) + 1)
      BY <2>2, <2>5, LastNumberNat
    <3> QED BY <2>5, <2>7, <2>8, <3>1, <3>2
  <2>10. ASSUME NEW i \in DOMAIN q.adds, NEW j \in DOMAIN q.adds, i < j
         PROVE  q.adds[i].unit # q.adds[j].unit /\ q.adds[i].key < q.adds[j].key
    <3>1. i \in DOMAIN p.adds
      BY <2>2, <2>7, <2>10
    <3>2. CASE j \in DOMAIN p.adds
      BY <2>7, <2>10, <3>1, <3>2 DEF Fits
    <3>3. CASE j = Len(p.adds) + 1
      BY <2>5, <2>7, <3>1, <3>3
    <3> QED BY <2>8, <3>2, <3>3
  <2>11. Answers(v, q, r)
    <3>1. Len(p.adds) + 1 \in DOMAIN q.adds
      BY <2>2, <2>7
    <3> QED BY <2>5, <2>7, <3>1 DEF Answers
  <2>12. ASSUME NEW s, Answers(v, p, s) PROVE Answers(v, q, s)
    <3>1. DOMAIN p.adds \subseteq DOMAIN q.adds
      BY <2>2, <2>7
    <3> QED BY <2>6, <2>7, <2>12, <3>1 DEF Answers
  <2> QED BY <2>6, <2>9, <2>10, <2>11, <2>12 DEF Fits
<1> QED BY <1>1, <1>2 DEF AddDisk

(* A disk that grows is planned at the size asked for.                      *)
LEMMA EditDiskKeeps ==
    ASSUME NEW v, IsVm(v), NEW p, IsPlan(p), Fits(v, p), ~p.refused,
           NEW r \in Request, r.num \in DOMAIN v.disks,
           NEW q, q = EditDisk(v, p, r)
    PROVE  /\ IsPlan(q) /\ Fits(v, q)
           /\ ~q.refused => /\ Answers(v, q, r)
                            /\ \A s : Answers(v, p, s) => Answers(v, q, s)
<1> DEFINE earlier == {i \in DOMAIN p.edits : p.edits[i].num = r.num}
           size == IF earlier = {} THEN v.disks[r.num].size ELSE p.edits[Max(earlier)].size
<1>1. /\ p.edits \in Seq(Request)
      /\ Len(p.edits) \in Nat /\ DOMAIN p.edits = 1 .. Len(p.edits)
  BY DEF IsPlan
<1>2. earlier # {} => Max(earlier) \in earlier
  <2>1. earlier \subseteq Nat
    BY <1>1
  <2>2. IsFiniteSet(earlier)
    <3> DEFINE n == Len(p.edits)
    <3>1. earlier \subseteq 1 .. n /\ 1 \in Int /\ n \in Int
      BY <1>1
    <3> HIDE DEF n, earlier
    <3> QED BY <3>1, FS_Interval, FS_Subset
  <2> HIDE DEF earlier
  <2> QED BY <2>1, <2>2, Greatest
<1>3. size \in Nat /\ r.size \in Nat
  <2>1. v.disks[r.num].size \in Nat /\ r.size \in Nat
    BY DEF IsVm, Request
  <2>2. earlier # {} => p.edits[Max(earlier)].size \in Nat
    <3>1. \A i \in DOMAIN p.edits : p.edits[i] \in Request
      BY <1>1
    <3>2. \A i \in DOMAIN p.edits : p.edits[i].size \in Nat
      BY <3>1 DEF Request
    <3> QED BY <1>2, <3>2
  <2> QED BY <2>1, <2>2
<1>4. q = IF size = r.size THEN p
          ELSE IF size > r.size THEN Refused(p)
          ELSE [p EXCEPT !.edits = Append(@, r)]
  BY <1>3 DEF EditDisk
<1>5. CASE size = r.size
  <2>1. CASE earlier = {}
    BY <1>3, <1>4, <1>5, <2>1 DEF Answers
  <2>2. CASE earlier # {}
    <3>1. /\ Max(earlier) \in DOMAIN p.edits
          /\ p.edits[Max(earlier)].num = r.num /\ p.edits[Max(earlier)].size = r.size
      BY <1>2, <1>5, <2>2
    <3> HIDE DEF earlier
    <3> QED BY <1>3, <1>4, <1>5, <3>1 DEF Answers
  <2> QED BY <2>1, <2>2
<1>6. CASE q = Refused(p)
  BY <1>6 DEF Refused, IsPlan, Fits
<1>7. CASE q = [p EXCEPT !.edits = Append(@, r)]
  <2>1. /\ q.edits = Append(p.edits, r) /\ q.adds = p.adds /\ q.refused = p.refused
        /\ IsPlan(q)
    <3> DEFINE edits == Append(p.edits, r)
    <3>1. edits \in Seq(Request)
      BY <1>1
    <3>2. q = [p EXCEPT !.edits = edits]
      BY <1>7
    <3> HIDE DEF edits
    <3>3. q.edits = edits /\ q.adds = p.adds /\ q.refused = p.refused /\ IsPlan(q)
      BY <3>1, <3>2 DEF IsPlan
    <3> QED BY <3>3 DEF edits
  <2>2. /\ DOMAIN q.edits = 1 .. Len(p.edits) + 1
        /\ \A i \in DOMAIN p.edits : q.edits[i] = p.edits[i]
        /\ q.edits[Len(p.edits) + 1] = r
    BY <1>1, <2>1
  <2>3. DOMAIN p.edits \subseteq DOMAIN q.edits /\ Len(p.edits) + 1 \in DOMAIN q.edits
    BY <1>1, <2>2
  <2>4. Answers(v, q, r)
    BY <1>3, <2>2, <2>3, SMTT(30) DEF Answers
  <2>5. ASSUME NEW s, Answers(v, p, s) PROVE Answers(v, q, s)
    BY <2>1, <2>2, <2>3, <2>5 DEF Answers
  <2> QED BY <2>1, <2>4, <2>5 DEF Fits
<1> QED BY <1>4, <1>5, <1>6, <1>7

LEMMA PlanOneKeeps ==
    ASSUME NEW v, IsVm(v), NEW p, IsPlan(p), Fits(v, p), NEW r \in Request,
           NEW q, q = PlanOne(v, p, r)
    PROVE  /\ IsPlan(q) /\ Fits(v, q)
           /\ ~q.refused => /\ ~p.refused /\ Answers(v, q, r)
                            /\ \A s : Answers(v, p, s) => Answers(v, q, s)
<1>1. CASE p.refused
  BY <1>1 DEF PlanOne
<1>2. CASE ~p.refused /\ r.num \in DOMAIN v.disks
  BY <1>2, EditDiskKeeps DEF PlanOne
<1>3. CASE ~p.refused /\ r.num \notin DOMAIN v.disks
  BY <1>3, AddDiskKeeps DEF PlanOne
<1> QED BY <1>1, <1>2, <1>3

LEMMA RefusedKeeps ==
    ASSUME NEW v, NEW p, IsPlan(p), Fits(v, p)
    PROVE  IsPlan(Refused(p)) /\ Fits(v, Refused(p)) /\ Refused(p).refused
BY DEF Refused, IsPlan, Fits

LEMMA NothingFits == ASSUME NEW v PROVE IsPlan(Nothing) /\ Fits(v, Nothing)
BY DEF Nothing, IsPlan, Fits

(* The plan is made from Nothing, one request after the other.              *)
LEMMA PlanSteps ==
    ASSUME NEW v, NEW ask, Len(ask) \in Nat
    PROVE  \/ Plan(v, ask) = Refused(Nothing)
           \/ \E f : /\ f[0] = Nothing
                     /\ \A n \in 1 .. Len(ask) : f[n] = PlanOne(v, f[n - 1], ask[n])
                     /\ Plan(v, ask) = f[Len(ask)]
<1> DEFINE Made(f, k) ==
               f = [n \in 0 .. k |-> IF n = 0 THEN Nothing ELSE PlanOne(v, f[n - 1], ask[n])]
           S == {k \in Nat : \E f : Made(f, k)}
<1>1. 0 \in S
  <2> DEFINE f == [n \in 0 .. 0 |-> Nothing]
  <2>1. Made(f, 0)
    OBVIOUS
  <2> QED BY <2>1
<1>2. ASSUME NEW k \in Nat, k \in S PROVE k + 1 \in S
  <2>1. PICK f : Made(f, k)
    BY <1>2
  <2> DEFINE g == [n \in 0 .. k + 1 |->
                      IF n = k + 1 THEN PlanOne(v, f[k], ask[k + 1]) ELSE f[n]]
  <2>2. ASSUME NEW n \in 0 .. k + 1
        PROVE  g[n] = IF n = 0 THEN Nothing ELSE PlanOne(v, g[n - 1], ask[n])
    <3>1. CASE n = k + 1
      <4>1. k \in 0 .. k + 1 /\ k # k + 1 /\ n - 1 = k /\ n # 0
        BY <3>1
      <4> QED BY <3>1, <4>1
    <3>2. CASE n \in 0 .. k
      <4>1. f[n] = IF n = 0 THEN Nothing ELSE PlanOne(v, f[n - 1], ask[n])
        BY <2>1, <3>2
      <4>2. n # 0 => n - 1 \in 0 .. k + 1 /\ n - 1 # k + 1
        BY <3>2
      <4>3. n # k + 1
        BY <3>2
      <4> QED BY <4>1, <4>2, <4>3
    <3> QED BY <3>1, <3>2
  <2>3. g = [n \in 0 .. k + 1 |-> g[n]]
    OBVIOUS
  <2> HIDE DEF g
  <2>4. Made(g, k + 1)
    BY <2>2, <2>3
  <2> QED BY <2>4
<1>3. PICK h : Made(h, Len(ask))
  <2> HIDE DEF S
  <2>1. Len(ask) \in S
    BY <1>1, <1>2, Induction
  <2> QED BY <2>1 DEF S
<1> DEFINE upTo == CHOOSE f : Made(f, Len(ask))
<1>4. Made(upTo, Len(ask))
  BY <1>3
<1>5. Plan(v, ask) = Refused(Nothing) \/ Plan(v, ask) = upTo[Len(ask)]
  BY DEF Plan
<1> HIDE DEF upTo
<1>6. upTo[0] = Nothing
  BY <1>4
<1>7. \A n \in 1 .. Len(ask) : upTo[n] = PlanOne(v, upTo[n - 1], ask[n])
  BY <1>4
<1> QED BY <1>5, <1>6, <1>7

(* By induction over the requests: what is planned fits on the VM, and      *)
(* answers all of them unless it is refused.                               *)
LEMMA PlanAnswers ==
    ASSUME NEW v, IsVm(v), NEW ask \in Seq(Request)
    PROVE  LET p == Plan(v, ask)
           IN  /\ IsPlan(p) /\ Fits(v, p)
               /\ ~p.refused => \A k \in 1 .. Len(ask) : Answers(v, p, ask[k])
<1>1. /\ Len(ask) \in Nat
      /\ \A n \in 1 .. Len(ask) : ask[n] \in Request
  OBVIOUS
<1>2. CASE Plan(v, ask) = Refused(Nothing)
  <2>1. /\ IsPlan(Refused(Nothing)) /\ Fits(v, Refused(Nothing))
        /\ Refused(Nothing).refused
    BY NothingFits, RefusedKeeps
  <2> QED BY <1>2, <2>1
<1>3. CASE Plan(v, ask) # Refused(Nothing)
  <2>1. PICK f : /\ f[0] = Nothing
                 /\ \A n \in 1 .. Len(ask) : f[n] = PlanOne(v, f[n - 1], ask[n])
                 /\ Plan(v, ask) = f[Len(ask)]
    BY <1>1, <1>3, PlanSteps
  <2> DEFINE Good(n) == /\ IsPlan(f[n]) /\ Fits(v, f[n])
                        /\ ~f[n].refused => \A k \in 1 .. n : Answers(v, f[n], ask[k])
             S == {n \in Nat : n <= Len(ask) => Good(n)}
  <2>2. 0 \in S
    <3>1. Good(0)
      BY <2>1, NothingFits
    <3> QED BY <3>1
  <2>3. ASSUME NEW n \in Nat, n \in S PROVE n + 1 \in S
    <3> SUFFICES ASSUME n + 1 <= Len(ask) PROVE Good(n + 1)
      OBVIOUS
    <3>1. Good(n)
      BY <1>1, <2>3
    <3>2. n + 1 \in 1 .. Len(ask) /\ n + 1 - 1 = n
      BY <1>1
    <3>3. f[n + 1] = PlanOne(v, f[n], ask[n + 1])
      BY <2>1, <3>2
    <3> DEFINE p == f[n]
               q == f[n + 1]
               r == ask[n + 1]
    <3>4. IsPlan(p) /\ Fits(v, p) /\ q = PlanOne(v, p, r) /\ r \in Request
      BY <1>1, <3>1, <3>2, <3>3
    <3>5. ~p.refused => \A k \in 1 .. n : Answers(v, p, ask[k])
      BY <3>1
    <3> HIDE DEF p, q, r
    <3>6. /\ IsPlan(q) /\ Fits(v, q)
          /\ ~q.refused => /\ ~p.refused /\ Answers(v, q, r)
                           /\ \A s : Answers(v, p, s) => Answers(v, q, s)
      BY <3>4, PlanOneKeeps
    <3>7. ASSUME ~q.refused, NEW k \in 1 .. n + 1 PROVE Answers(v, q, ask[k])
      <4>1. CASE k = n + 1
        BY <3>6, <3>7, <4>1 DEF r
      <4>2. CASE k \in 1 .. n
        BY <3>5, <3>6, <3>7, <4>2
      <4> QED BY <4>1, <4>2
    <3> QED BY <3>6, <3>7 DEF q
  <2>4. Len(ask) \in S
    <3> HIDE DEF S
    <3> QED BY <1>1, <2>2, <2>3, Induction
  <2>5. Good(Len(ask))
    BY <1>1, <2>4
  <2> QED BY <2>1, <2>5
<1> QED BY <1>2, <1>3

-----------------------------------------------------------------------------
Grown(v, w) ==
    \A n \in DOMAIN v.disks : n \in DOMAIN w.disks /\ v.disks[n].size <= w.disks[n].size

(* The spec applied: every disk is as large as it was, and as asked for.    *)
LEMMA TaskGrows ==
    ASSUME IsVm(vm), NEW s, IsVm(s), NEW p, IsPlan(p), Fits(s, p), Applicable(p),
           vm' = [vm EXCEPT !.disks = Applied(p)]
    PROVE  /\ IsVm(vm)' /\ Grown(vm, vm')
           /\ Grown(s, vm) =>
                 \A r \in Request : Answers(s, p, r) =>
                    r.num \in DOMAIN vm'.disks /\ vm'.disks[r.num].size >= r.size
<1> DEFINE new == {p.adds[i] : i \in DOMAIN p.adds}
           edits(n) == {i \in DOMAIN p.edits : p.edits[i].num = n}
           sizes(n) == {vm.disks[n].size} \cup {p.edits[i].size : i \in edits(n)}
           added(n) == CHOOSE d \in new : d.num = n
           Disk == [size : Nat, linked : BOOLEAN, unit : Nat, key : Nat, file : BOOLEAN]
<1>1. /\ \A i \in DOMAIN p.adds : p.adds[i] \in NewDisk
      /\ \A i \in DOMAIN p.edits : p.edits[i] \in Request
      /\ Len(p.adds) \in Nat /\ DOMAIN p.adds = 1 .. Len(p.adds)
      /\ Len(p.edits) \in Nat /\ DOMAIN p.edits = 1 .. Len(p.edits)
  BY DEF IsPlan
<1>2. /\ \A n \in DOMAIN vm.disks : vm.disks[n] \in Disk
      /\ DOMAIN vm.disks \subseteq Nat /\ IsFiniteSet(DOMAIN vm.disks)
  BY DEF IsVm
<1>3. /\ DOMAIN Applied(p) = DOMAIN vm.disks \cup {d.num : d \in new}
      /\ Applied(p) = [n \in DOMAIN Applied(p) |-> Applied(p)[n]]
      /\ \A n \in DOMAIN vm.disks : Applied(p)[n] = [vm.disks[n] EXCEPT !.size = Max(sizes(n))]
      /\ \A n \in {d.num : d \in new} \ DOMAIN vm.disks :
            Applied(p)[n] = [size |-> added(n).size, linked |-> FALSE,
                             unit |-> added(n).unit, key |-> added(n).key, file |-> TRUE]
  BY DEF Applied
<1>4. ASSUME NEW n \in DOMAIN vm.disks
      PROVE  /\ Applied(p)[n] \in Disk
             /\ vm.disks[n].size <= Applied(p)[n].size
             /\ \A i \in edits(n) : p.edits[i].size <= Applied(p)[n].size
  <2>1. sizes(n) \subseteq Nat /\ sizes(n) # {}
    <3>1. vm.disks[n].size \in Nat
      BY <1>2
    <3>2. \A i \in DOMAIN p.edits : p.edits[i].size \in Nat
      BY <1>1 DEF Request
    <3> QED BY <3>1, <3>2
  <2>2. IsFiniteSet(sizes(n))
    <3> DEFINE f == [i \in edits(n) |-> p.edits[i].size]
               m == Len(p.edits)
    <3>1. IsFiniteSet(edits(n))
      <4>1. edits(n) \subseteq 1 .. m /\ 1 \in Int /\ m \in Int
        BY <1>1
      <4> HIDE DEF m, edits
      <4> QED BY <4>1, FS_Interval, FS_Subset
    <3>2. DOMAIN f = edits(n) /\ f = [i \in DOMAIN f |-> f[i]]
      OBVIOUS
    <3>3. sizes(n) = {f[i] : i \in DOMAIN f} \cup {vm.disks[n].size}
      OBVIOUS
    <3> HIDE DEF f, edits, sizes
    <3>4. IsFiniteSet({f[i] : i \in DOMAIN f})
      BY <3>1, <3>2, Image
    <3> QED BY <3>3, <3>4, FS_AddElement
  <2>3. \A i \in edits(n) : p.edits[i].size \in sizes(n)
    OBVIOUS
  <2>4. vm.disks[n].size \in sizes(n) /\ vm.disks[n] \in Disk
    BY <1>2
  <2>5. Applied(p)[n] = [vm.disks[n] EXCEPT !.size = Max(sizes(n))]
    BY <1>3
  <2> DEFINE size == Max(sizes(n))
  <2>6. size \in Nat /\ \A x \in sizes(n) : x <= size
    <3> HIDE DEF sizes
    <3> QED BY <2>1, <2>2, Greatest
  <2> HIDE DEF size, sizes, edits
  <2>7. Applied(p)[n] \in Disk /\ Applied(p)[n].size = size
    BY <2>4, <2>5, <2>6 DEF size
  <2> QED BY <2>3, <2>4, <2>6, <2>7
<1>5. ASSUME NEW i \in DOMAIN p.adds
      PROVE  /\ p.adds[i].num \in DOMAIN Applied(p) \ DOMAIN vm.disks
             /\ added(p.adds[i].num) = p.adds[i]
             /\ Applied(p)[p.adds[i].num] \in Disk
             /\ Applied(p)[p.adds[i].num].size = p.adds[i].size
  <2> DEFINE d == p.adds[i]
  <2>1. d \in new /\ d \in NewDisk /\ d.num \notin DOMAIN vm.disks
    BY <1>1 DEF Applicable
  <2>2. \A j \in DOMAIN p.adds : p.adds[j].num = d.num => j = i
    <3>1. \A j \in DOMAIN p.adds : p.adds[j].num = LastNumber(s.disks) + j
      BY DEF Fits
    <3> QED BY <1>1, <3>1, LastNumberNat
  <2>3. \A e \in new : e.num = d.num => e = d
    BY <2>2
  <2> HIDE DEF d, new
  <2>4. added(d.num) = d
    BY <2>1, <2>3
  <2>5. d.num \in DOMAIN Applied(p)
    BY <1>3, <2>1
  <2>6. Applied(p)[d.num] = [size |-> d.size, linked |-> FALSE, unit |-> d.unit, key |-> d.key,
                                file |-> TRUE]
    <3>1. d.num \in {e.num : e \in new} \ DOMAIN vm.disks
      BY <2>1
    <3> HIDE DEF added
    <3> QED BY <1>3, <2>4, <3>1
  <2>7. Applied(p)[d.num] \in Disk /\ Applied(p)[d.num].size = d.size
    BY <2>1, <2>6 DEF NewDisk
  <2> QED BY <2>1, <2>4, <2>5, <2>7 DEF d
<1>6. \A n \in DOMAIN Applied(p) :
         n \in DOMAIN vm.disks \/ \E i \in DOMAIN p.adds : n = p.adds[i].num
  BY <1>3
<1>7. /\ vm'.disks = Applied(p) /\ vm'.other = vm.other /\ vm'.scsi = vm.scsi
      /\ vm' \in [disks : {vm'.disks}, scsi : BOOLEAN,
                  other : SUBSET [unit : Nat, key : Nat, file : BOOLEAN]]
  BY DEF IsVm
<1>8. IsFiniteSet(DOMAIN Applied(p)) /\ DOMAIN Applied(p) \subseteq Nat
  <2> DEFINE f == [i \in DOMAIN p.adds |-> p.adds[i].num]
             m == Len(p.adds)
  <2>1. IsFiniteSet(DOMAIN p.adds)
    <3>1. DOMAIN p.adds = 1 .. m /\ 1 \in Int /\ m \in Int
      BY <1>1
    <3> HIDE DEF m
    <3> QED BY <3>1, FS_Interval
  <2>2. DOMAIN f = DOMAIN p.adds /\ f = [i \in DOMAIN f |-> f[i]]
    OBVIOUS
  <2>3. {d.num : d \in new} = {f[i] : i \in DOMAIN f}
    OBVIOUS
  <2>4. {d.num : d \in new} \subseteq Nat
    BY <1>1 DEF NewDisk
  <2> HIDE DEF f
  <2>5. IsFiniteSet({f[i] : i \in DOMAIN f})
    BY <2>1, <2>2, Image
  <2> HIDE DEF new
  <2>6. IsFiniteSet(DOMAIN vm.disks \cup {d.num : d \in new})
    BY <1>2, <2>3, <2>5, FS_Union
  <2> QED BY <1>2, <1>3, <2>4, <2>6
<1> HIDE DEF new, added, sizes
<1>9. \A n \in DOMAIN Applied(p) : Applied(p)[n] \in Disk
  BY <1>4, <1>5, <1>6
<1>10. IsVm(vm)'
  <2>1. Applied(p) \in [DOMAIN Applied(p) -> Disk]
    BY <1>3, <1>9
  <2>2. IsFiniteSet(vm'.other)
    BY <1>7 DEF IsVm
  <2> QED BY <1>7, <1>8, <2>1, <2>2 DEF IsVm
<1>11. Grown(vm, vm')
  BY <1>3, <1>4, <1>7 DEF Grown
<1>12. ASSUME Grown(s, vm), NEW r \in Request, Answers(s, p, r)
       PROVE  r.num \in DOMAIN vm'.disks /\ vm'.disks[r.num].size >= r.size
  <2>a. r.size \in Nat
    BY DEF Request
  <2>1. CASE r.num \in DOMAIN s.disks
    <3>1. /\ r.num \in DOMAIN vm.disks
          /\ s.disks[r.num].size <= vm.disks[r.num].size
      BY <1>12, <2>1 DEF Grown
    <3>2. /\ Applied(p)[r.num].size \in Nat /\ vm.disks[r.num].size \in Nat
          /\ s.disks[r.num].size \in Nat
      BY <1>2, <1>4, <2>1, <3>1 DEF IsVm
    <3>3. CASE s.disks[r.num].size >= r.size
      BY <1>4, <1>7, <1>3, <2>a, <3>1, <3>2, <3>3
    <3>4. CASE \E i \in DOMAIN p.edits : p.edits[i].num = r.num /\ p.edits[i].size >= r.size
      <4>1. PICK i \in edits(r.num) : p.edits[i].size >= r.size
        BY <3>4
      <4>2. p.edits[i].size \in Nat
        BY <1>1 DEF Request
      <4>3. p.edits[i].size <= Applied(p)[r.num].size
        BY <1>4, <3>1, <4>1
      <4> QED BY <1>3, <1>7, <2>a, <3>1, <3>2, <4>1, <4>2, <4>3
    <3> QED BY <1>12, <2>1, <3>3, <3>4 DEF Answers
  <2>2. CASE r.num \notin DOMAIN s.disks
    <3>1. PICK i \in DOMAIN p.adds : p.adds[i].num = r.num /\ p.adds[i].size = r.size
      BY <1>12, <2>2 DEF Answers
    <3> QED BY <1>5, <1>7, <2>a, <3>1
  <2> QED BY <2>1, <2>2
<1> QED BY <1>10, <1>11, <1>12

-----------------------------------------------------------------------------
(* What a command has planned fits on the VM it has seen, which has only    *)
(* grown since, and answers all it was asked; a command that is done left   *)
(* every disk as asked for.                                                *)
Ahead == {"find", "store", "read", "lock", "task", "running"}

Left(r) == r.num \in DOMAIN vm.disks /\ vm.disks[r.num].size >= r.size

Follows(j) ==
    /\ IsVm(j.seen) /\ IsPlan(j.plan) /\ Fits(j.seen, j.plan)
    /\ j.ask \in Seq(Request)
    /\ j.pc \in Ahead => /\ Grown(j.seen, vm)
                         /\ \A n \in DOMAIN j.ask : Answers(j.seen, j.plan, j.ask[n])
    /\ j.pc = "done" => \A n \in DOMAIN j.ask : Left(j.ask[n])

Disks == IsVm(vm) /\ \A c \in Cmds : Follows(job[c])

LEMMA InitDisks == RequestsAssumption /\ Init => Disks
<1> SUFFICES ASSUME RequestsAssumption, Init PROVE Disks
  OBVIOUS
<1>1. IsVm(vm)
  BY DEF RequestsAssumption, Init
<1>2. ASSUME NEW c \in Cmds PROVE Follows(job[c])
  <2>1. /\ job[c].seen = vm /\ job[c].plan = Nothing /\ job[c].ask = <<>>
        /\ job[c].pc = "new"
    BY DEF Init
  <2> QED BY <1>1, <2>1, NothingFits DEF Follows, Ahead
<1> QED BY <1>1, <1>2 DEF Disks

LEMMA GrownKeeps ==
    ASSUME IsVm(vm), IsVm(vm)', Grown(vm, vm')
    PROVE  /\ \A v : IsVm(v) /\ Grown(v, vm) => Grown(v, vm')
           /\ \A r \in Request : Left(r) => Left(r)'
<1>1. /\ \A n \in DOMAIN vm.disks : vm.disks[n].size \in Nat
      /\ \A n \in DOMAIN vm'.disks : vm'.disks[n].size \in Nat
  BY DEF IsVm
<1>2. ASSUME NEW v, IsVm(v), Grown(v, vm) PROVE Grown(v, vm')
  <2>1. \A n \in DOMAIN v.disks : v.disks[n].size \in Nat
    BY <1>2 DEF IsVm
  <2> QED BY <1>1, <1>2, <2>1 DEF Grown
<1>3. ASSUME NEW r \in Request, Left(r) PROVE Left(r)'
  <2>1. r.size \in Nat
    BY DEF Request
  <2> QED BY <1>1, <1>3, <2>1 DEF Left, Grown
<1> QED BY <1>2, <1>3

(* What a command has planned stays right while the VM grows.              *)
LEMMA FollowsKept ==
    ASSUME Disks, IsVm(vm)', Grown(vm, vm'), NEW d \in Cmds,
           job'[d].ask = job[d].ask, job'[d].plan = job[d].plan, job'[d].seen = job[d].seen,
           job'[d].pc \in Ahead => job[d].pc \in Ahead,
           job'[d].pc = "done" => \/ job[d].pc = "done"
                                  \/ \A n \in DOMAIN job[d].ask : Left(job[d].ask[n])'
    PROVE  Follows(job[d])'
<1>1. Follows(job[d]) /\ IsVm(vm)
  BY DEF Disks
<1>2. \A n \in DOMAIN job[d].ask : job[d].ask[n] \in Request
  BY <1>1 DEF Follows
<1>3. /\ Grown(job[d].seen, vm) => Grown(job[d].seen, vm')
      /\ \A n \in DOMAIN job[d].ask : Left(job[d].ask[n]) => Left(job[d].ask[n])'
  BY <1>1, <1>2, GrownKeeps DEF Follows
<1> DEFINE j == job'[d]
<1>4. /\ IsVm(j.seen) /\ IsPlan(j.plan) /\ Fits(j.seen, j.plan) /\ j.ask \in Seq(Request)
  BY <1>1 DEF Follows
<1>5. ASSUME j.pc \in Ahead
      PROVE  /\ Grown(j.seen, vm')
             /\ \A n \in DOMAIN j.ask : Answers(j.seen, j.plan, j.ask[n])
  BY <1>1, <1>3, <1>5 DEF Follows
<1>6. ASSUME j.pc = "done" PROVE \A n \in DOMAIN job[d].ask : Left(job[d].ask[n])'
  BY <1>1, <1>3, <1>6 DEF Follows
<1>7. (\A n \in DOMAIN job[d].ask : Left(job[d].ask[n]))' <=>
      \A n \in DOMAIN job[d].ask : Left(job[d].ask[n])'
  BY DEF Left
<1> QED BY <1>4, <1>5, <1>6, <1>7 DEF Follows

(* The same for a command that only goes on, and leaves the VM alone.       *)
LEMMA GotoDisks ==
    ASSUME IInv, Disks, UNCHANGED vm, NEW c \in Cmds, NEW label, Goto(c, label),
           label # "done", label \in Ahead => job[c].pc \in Ahead
    PROVE  Disks'
<1>1. IsVm(vm)' /\ Grown(vm, vm')
  <2>1. \A n \in DOMAIN vm.disks : vm.disks[n].size \in Nat
    BY DEF Disks, IsVm
  <2>2. Grown(vm, vm)
    BY <2>1 DEF Grown
  <2> QED BY <2>2 DEF Disks, IsVm
<1>2. ASSUME NEW d \in Cmds
      PROVE  /\ job'[d].ask = job[d].ask /\ job'[d].plan = job[d].plan
             /\ job'[d].seen = job[d].seen
             /\ job'[d].pc = IF d = c THEN label ELSE job[d].pc
  <2>1. IsJob(job[d]) /\ job = [e \in Cmds |-> job[e]]
    BY DEF IInv, Types
  <2> QED BY <2>1 DEF Goto, Update, IsJob
<1>3. ASSUME NEW d \in Cmds PROVE Follows(job[d])'
  BY <1>1, <1>2, FollowsKept
<1> QED BY <1>1, <1>3 DEF Disks

LEMMA StepDisks ==
    RequestsAssumption /\ IInv /\ Disks /\ [Next]_vars => Disks'
<1> SUFFICES ASSUME RequestsAssumption, IInv, Disks, [Next]_vars PROVE Disks'
  OBVIOUS
<1>t. /\ job = [d \in Cmds |-> job[d]]
      /\ \A d \in Cmds : IsJob(job[d])
  BY DEF IInv, Types
<1>s. vm' = vm => IsVm(vm)' /\ Grown(vm, vm')
  <2>1. \A n \in DOMAIN vm.disks : vm.disks[n].size \in Nat
    BY DEF Disks, IsVm
  <2>2. Grown(vm, vm)
    BY <2>1 DEF Grown
  <2> QED BY <2>2 DEF Disks, IsVm
<1>1. ASSUME NEW c \in Cmds, MakeSpec(c) PROVE Disks'
  <2>1. PICK ask \in Asks[c] :
           Update(c, [job[c] EXCEPT !.ask = ask, !.plan = Plan(vm, ask), !.seen = vm,
                                    !.pc = IF Plan(vm, ask).refused THEN "failed" ELSE "find"])
    BY <1>1 DEF MakeSpec
  <2>2. UNCHANGED vm
    BY <1>1 DEF MakeSpec
  <2>3. ask \in Seq(Request)
    BY DEF RequestsAssumption, Request
  <2> DEFINE plan == Plan(vm, ask)
             j == [job[c] EXCEPT !.ask = ask, !.plan = plan, !.seen = vm,
                                 !.pc = IF plan.refused THEN "failed" ELSE "find"]
  <2>4. /\ IsPlan(plan) /\ Fits(vm, plan)
        /\ ~plan.refused => \A n \in DOMAIN ask : Answers(vm, plan, ask[n])
    <3>1. DOMAIN ask = 1 .. Len(ask) /\ IsVm(vm)
      BY <2>3 DEF Disks
    <3> QED BY <2>3, <3>1, PlanAnswers
  <2> HIDE DEF plan
  <2>5. /\ j.ask = ask /\ j.plan = plan /\ j.seen = vm
        /\ j.pc = IF plan.refused THEN "failed" ELSE "find"
    <3>1. IsJob(job[c])
      BY <1>t
    <3> QED BY <3>1 DEF IsJob
  <2>6. Update(c, j)
    BY <2>1 DEF plan
  <2> HIDE DEF j
  <2>7. job'[c] = j /\ \A d \in Cmds \ {c} : job'[d] = job[d]
    BY <1>t, <2>6 DEF Update
  <2>8. ASSUME NEW d \in Cmds PROVE Follows(job[d])'
    <3>1. CASE d = c
      <4>1. /\ job'[d].ask = ask /\ job'[d].plan = plan /\ job'[d].seen = vm'
            /\ job'[d].pc = IF plan.refused THEN "failed" ELSE "find"
        BY <2>2, <2>5, <2>7, <3>1
      <4>2. IsVm(vm') /\ Grown(vm', vm') /\ Fits(vm', plan)
        BY <1>s, <2>2, <2>4
      <4>3. ~plan.refused => \A n \in DOMAIN ask : Answers(vm', plan, ask[n])
        BY <2>2, <2>4
      <4> QED BY <2>3, <2>4, <4>1, <4>2, <4>3 DEF Follows, Ahead
    <3>2. CASE d # c
      BY <1>s, <2>2, <2>7, <3>2, FollowsKept
    <3> QED BY <3>1, <3>2
  <2> QED BY <1>s, <2>2, <2>8 DEF Disks
<1>2. ASSUME NEW c \in Cmds, FindLock(c) PROVE Disks'
  <2> DEFINE label == IF locks.stored = 0 THEN "store" ELSE "read"
  <2>1. At(c, "find") /\ Goto(c, label) /\ UNCHANGED vm
    BY <1>2 DEF FindLock
  <2>2. label # "done" /\ job[c].pc \in Ahead
    BY <2>1 DEF At, Ahead
  <2> HIDE DEF label
  <2> QED BY <2>1, <2>2, GotoDisks
<1>3. ASSUME NEW c \in Cmds, StoreLock(c) PROVE Disks'
  <2>1. /\ At(c, "store") /\ UNCHANGED vm
        /\ job' = [d \in Cmds |-> [job[d] EXCEPT !.pc = IF d = c THEN "read" ELSE @,
                                                 !.missed = @ \/ locks.stored # 0]]
    BY <1>3 DEF StoreLock
  <2>2. ASSUME NEW d \in Cmds
        PROVE  /\ job'[d].ask = job[d].ask /\ job'[d].plan = job[d].plan
               /\ job'[d].seen = job[d].seen
               /\ job'[d].pc = IF d = c THEN "read" ELSE job[d].pc
    <3>1. IsJob(job[d])
      BY <1>t
    <3>2. job'[d] = [job[d] EXCEPT !.pc = IF d = c THEN "read" ELSE @,
                                   !.missed = @ \/ locks.stored # 0]
      BY <2>1
    <3> QED BY <3>1, <3>2 DEF IsJob
  <2>3. ASSUME NEW d \in Cmds PROVE Follows(job[d])'
    <3>1. job'[d].pc \in Ahead => job[d].pc \in Ahead
      BY <2>1, <2>2 DEF At, Ahead
    <3>2. job'[d].pc = "done" => job[d].pc = "done"
      BY <2>2
    <3> QED BY <1>s, <2>1, <2>2, <3>1, <3>2, FollowsKept
  <2> QED BY <1>s, <2>1, <2>3 DEF Disks
<1>4. ASSUME NEW c \in Cmds, ReadLock(c) PROVE Disks'
  <2> DEFINE j == [job[c] EXCEPT !.pc = "lock", !.lock = locks.stored]
  <2>1. At(c, "read") /\ Update(c, j) /\ UNCHANGED vm
    BY <1>4 DEF ReadLock
  <2>2. /\ j.ask = job[c].ask /\ j.plan = job[c].plan /\ j.seen = job[c].seen
        /\ j.pc = "lock"
    <3>1. IsJob(job[c])
      BY <1>t
    <3> QED BY <3>1 DEF IsJob
  <2> HIDE DEF j
  <2>3. job'[c] = j /\ \A d \in Cmds \ {c} : job'[d] = job[d]
    BY <1>t, <2>1 DEF Update
  <2>4. ASSUME NEW d \in Cmds PROVE Follows(job[d])'
    <3>1. /\ job'[d].ask = job[d].ask /\ job'[d].plan = job[d].plan
          /\ job'[d].seen = job[d].seen
          /\ job'[d].pc = IF d = c THEN "lock" ELSE job[d].pc
      BY <2>2, <2>3
    <3>2. job'[d].pc \in Ahead => job[d].pc \in Ahead
      BY <2>1, <3>1 DEF At, Ahead
    <3>3. job'[d].pc = "done" => job[d].pc = "done"
      BY <3>1
    <3> QED BY <1>s, <2>1, <3>1, <3>2, <3>3, FollowsKept
  <2> QED BY <1>s, <2>1, <2>4 DEF Disks
<1>5. ASSUME NEW c \in Cmds, TakeLock(c) PROVE Disks'
  <2>1. At(c, "lock") /\ Goto(c, "task") /\ UNCHANGED vm
    BY <1>5 DEF TakeLock
  <2>2. job[c].pc \in Ahead
    BY <2>1 DEF At, Ahead
  <2> QED BY <2>1, <2>2, GotoDisks
<1>6. ASSUME NEW c \in Cmds, StartTask(c) PROVE Disks'
  <2>1. At(c, "task") /\ UNCHANGED vm /\ (Goto(c, "failed") \/ Goto(c, "running"))
    BY <1>6 DEF StartTask, Leave
  <2>2. job[c].pc \in Ahead
    BY <2>1 DEF At, Ahead
  <2> QED BY <2>1, <2>2, GotoDisks
<1>7. ASSUME NEW c \in Cmds, EndTask(c) PROVE Disks'
  <2>1. job[c].pc \in Ahead
    BY <1>7 DEF EndTask, At, Ahead
  <2>2. CASE Leave(c, "failed") /\ UNCHANGED vm
    BY <2>1, <2>2, GotoDisks DEF Leave
  <2>3. CASE /\ Applicable(job[c].plan)
             /\ vm' = [vm EXCEPT !.disks = Applied(job[c].plan)]
             /\ Leave(c, "done")
    <3> DEFINE s == job[c].seen
               p == job[c].plan
    <3>1. /\ IsVm(vm) /\ IsVm(s) /\ IsPlan(p) /\ Fits(s, p) /\ Grown(s, vm)
          /\ job[c].ask \in Seq(Request)
          /\ \A n \in DOMAIN job[c].ask : Answers(s, p, job[c].ask[n])
      BY <2>1 DEF Disks, Follows
    <3>2. Applicable(p) /\ vm' = [vm EXCEPT !.disks = Applied(p)]
      BY <2>3
    <3>3. \A n \in DOMAIN job[c].ask : job[c].ask[n] \in Request
      BY <3>1
    <3> HIDE DEF s, p
    <3>4. /\ IsVm(vm)' /\ Grown(vm, vm')
          /\ \A r \in Request : Answers(s, p, r) =>
                r.num \in DOMAIN vm'.disks /\ vm'.disks[r.num].size >= r.size
      BY <3>1, <3>2, TaskGrows
    <3>5. \A n \in DOMAIN job[c].ask : Left(job[c].ask[n])'
      <4>1. ASSUME NEW n \in DOMAIN job[c].ask
            PROVE  LET r == job[c].ask[n]
                   IN  r.num \in DOMAIN vm'.disks /\ vm'.disks[r.num].size >= r.size
        BY <3>1, <3>3, <3>4
      <4>2. job'[c].ask = job[c].ask
        BY <1>t, <2>3 DEF Leave, Goto, Update, IsJob
      <4> QED BY <4>1, <4>2 DEF Left
    <3>6. ASSUME NEW d \in Cmds PROVE Follows(job[d])'
      <4>1. /\ job'[d].ask = job[d].ask /\ job'[d].plan = job[d].plan
            /\ job'[d].seen = job[d].seen
            /\ job'[d].pc = IF d = c THEN "done" ELSE job[d].pc
        <5>1. IsJob(job[d])
          BY <1>t
        <5> QED BY <1>t, <2>3, <5>1 DEF Leave, Goto, Update, IsJob
      <4>2. job'[d].pc \in Ahead => job[d].pc \in Ahead
        BY <4>1 DEF Ahead
      <4>3. job'[d].pc = "done" => \/ job[d].pc = "done"
                                   \/ \A n \in DOMAIN job[d].ask : Left(job[d].ask[n])'
        BY <3>5, <4>1
      <4> QED BY <3>4, <4>1, <4>2, <4>3, FollowsKept
    <3> QED BY <3>4, <3>6 DEF Disks
  <2> QED BY <1>7, <2>2, <2>3 DEF EndTask
<1>8. CASE UNCHANGED vars
  BY <1>8 DEF vars, Disks, Follows, IsVm, IsPlan, Grown, Left
<1> QED BY <1>1, <1>2, <1>3, <1>4, <1>5, <1>6, <1>7, <1>8 DEF Next, Working

LEMMA FitByDisks == Disks => NewDisksFit
<1> SUFFICES ASSUME Disks, NEW c \in Cmds
             PROVE  LET adds == job[c].plan.adds  seen == job[c].seen IN
                    /\ \A i \in DOMAIN adds :
                          /\ adds[i].unit \in (0 .. MaxUnits - 1) \ {Reserved}
                          /\ \A n \in DOMAIN seen.disks :
                                /\ adds[i].key # seen.disks[n].key
                                /\ seen.disks[n].file => adds[i].unit # seen.disks[n].unit
                          /\ \A d \in seen.other :
                                adds[i].key # d.key /\ (d.file => adds[i].unit # d.unit)
                    /\ \A i, j \in DOMAIN adds :
                          i # j => adds[i].unit # adds[j].unit /\ adds[i].key # adds[j].key
  BY DEF NewDisksFit
<1> DEFINE adds == job[c].plan.adds
           seen == job[c].seen
<1>1. IsPlan(job[c].plan) /\ Fits(seen, job[c].plan)
  BY DEF Disks, Follows
<1>2. ASSUME NEW i \in DOMAIN adds
      PROVE  /\ adds[i].unit \in (0 .. MaxUnits - 1) \ {Reserved}
             /\ \A n \in DOMAIN seen.disks :
                   /\ adds[i].key # seen.disks[n].key
                   /\ seen.disks[n].file => adds[i].unit # seen.disks[n].unit
             /\ \A d \in seen.other :
                   adds[i].key # d.key /\ (d.file => adds[i].unit # d.unit)
  <2>1. adds[i].unit \in FreeUnits(seen) /\ adds[i].key \notin Keys(seen)
    BY <1>1 DEF Fits
  <2> HIDE DEF adds, seen
  <2> QED BY <2>1 DEF FreeUnits, FileDisks, Keys
<1>3. ASSUME NEW i \in DOMAIN adds, NEW j \in DOMAIN adds, i # j
      PROVE  adds[i].unit # adds[j].unit /\ adds[i].key # adds[j].key
  <2>1. DOMAIN adds \subseteq Nat
    BY <1>1 DEF IsPlan
  <2>2. adds[i].key \in Nat /\ adds[j].key \in Nat
    <3>1. adds[i] \in NewDisk /\ adds[j] \in NewDisk
      BY <1>1 DEF IsPlan
    <3> QED BY <3>1 DEF NewDisk
  <2>3. i < j \/ j < i
    BY <1>3, <2>1
  <2> QED BY <1>1, <2>2, <2>3 DEF Fits
<1> QED BY <1>2, <1>3

LEMMA AskedByDisks == Disks => ReconfiguredAsAsked
BY DEF Disks, Follows, Left, ReconfiguredAsAsked, At

(* For every VM, every limit and all requests: a new disk gets a key that   *)
(* nothing has on the VM the command has seen, a unit that no device with a *)
(* file has there and that is not the controller's, and neither goes to two *)
(* disks of the spec (config_spec_handler.py:75-97).                       *)
THEOREM NewDisksGetFreePlaces ==
    ReconfigureAssumption /\ RequestsAssumption => (Spec => []NewDisksFit)
<1> SUFFICES ASSUME ReconfigureAssumption, RequestsAssumption PROVE Spec => []NewDisksFit
  OBVIOUS
<1>1. Init => IInv /\ Disks
  BY InitInv, InitDisks
<1>2. IInv /\ Disks /\ [Next]_vars => IInv' /\ Disks'
  BY StepInv, StepDisks
<1>3. Disks => NewDisksFit
  BY FitByDisks
<1> QED BY <1>1, <1>2, <1>3, PTL DEF Spec

(* A reconfiguration that is done has left every disk it was asked for at   *)
(* that size at least, however many commands reconfigure the VM at once and *)
(* though all plan on what they saw before (config_spec_handler.py:125-151).*)
THEOREM DisksAsAsked ==
    ReconfigureAssumption /\ RequestsAssumption => (Spec => []ReconfiguredAsAsked)
<1> SUFFICES ASSUME ReconfigureAssumption, RequestsAssumption
             PROVE  Spec => []ReconfiguredAsAsked
  OBVIOUS
<1>1. Init => IInv /\ Disks
  BY InitInv, InitDisks
<1>2. IInv /\ Disks /\ [Next]_vars => IInv' /\ Disks'
  BY StepInv, StepDisks
<1>3. Disks => ReconfiguredAsAsked
  BY AskedByDisks
<1> QED BY <1>1, <1>2, <1>3, PTL DEF Spec

=============================================================================
