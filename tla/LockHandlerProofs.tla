------------------------- MODULE LockHandlerProofs -------------------------
(***************************************************************************)
(* Proofs about LockHandler for any set of threads, names and lock         *)
(* objects: the per-name mutual exclusion and the refinement of NamedMutex *)
(* (safety part; the liveness property is model-checked).                  *)
(***************************************************************************)
EXTENDS LockHandler, TLAPS

(* Exactly the thread between entering and leaving the creation block owns *)
(* the creation lock.                                                      *)
CreationExclusive ==
    \A t \in Threads : pc[t] \in {"recheck", "leave"} <=> creationOwner = t

(* The dictionary is injective and holds allocated objects only. *)
LocksDistinct ==
    /\ \A n \in Names : locks[n] # NoLock => locks[n] \in allocated
    /\ \A m, n \in Names : locks[m] = locks[n] /\ locks[m] # NoLock => m = n

(* Past the creation, a thread's local lock is the registered one. *)
LocalIsRegistered ==
    \A t \in Threads : pc[t] \in {"leave", "acquire", "body"} =>
        lock[t] \in LockObjs /\ lock[t] = locks[name[t]]

(* A lock object is owned exactly by the thread in its block. *)
OwnerInBody ==
    \A t \in Threads, l \in LockObjs :
        owner[l] = t <=> pc[t] = "body" /\ lock[t] = l

IInv ==
    /\ TypeOK
    /\ CreationExclusive
    /\ LocksDistinct
    /\ LocalIsRegistered
    /\ OwnerInBody

LEMMA InitInv == Init => IInv
BY LockHandlerAssumption
   DEF Init, IInv, TypeOK, CreationExclusive, LocksDistinct, LocalIsRegistered,
       OwnerInBody

LEMMA StepInv == IInv /\ [Next]_vars => IInv'
<1> SUFFICES ASSUME IInv, [Next]_vars PROVE IInv'
  OBVIOUS
<1> USE LockHandlerAssumption
<1> USE DEF IInv, TypeOK
<1>1. ASSUME NEW t \in Threads, NEW n \in Names, Lookup(t, n) PROVE IInv'
  <2>1. TypeOK'
    BY <1>1 DEF Lookup, Goto
  <2>2. CreationExclusive'
    BY <1>1 DEF Lookup, Goto, CreationExclusive
  <2>3. LocksDistinct'
    BY <1>1 DEF Lookup, LocksDistinct
  <2>4. LocalIsRegistered'
    BY <1>1 DEF Lookup, Goto, LocalIsRegistered
  <2>5. OwnerInBody'
    BY <1>1 DEF Lookup, Goto, OwnerInBody
  <2> QED BY <2>1, <2>2, <2>3, <2>4, <2>5
<1>2. ASSUME NEW t \in Threads, EnterCreation(t) PROVE IInv'
  <2>1. TypeOK'
    BY <1>2 DEF EnterCreation, Goto
  <2>2. CreationExclusive'
    BY <1>2 DEF EnterCreation, Goto, CreationExclusive
  <2>3. LocksDistinct' /\ LocalIsRegistered' /\ OwnerInBody'
    BY <1>2 DEF EnterCreation, Goto, LocksDistinct, LocalIsRegistered, OwnerInBody
  <2> QED BY <2>1, <2>2, <2>3
<1>3. ASSUME NEW t \in Threads, Recheck(t) PROVE IInv'
  <2>1. CASE locks[name[t]] = NoLock
    <3>1. PICK l \in LockObjs \ allocated :
              /\ allocated' = allocated \cup {l}
              /\ locks' = [locks EXCEPT ![name[t]] = l]
              /\ lock' = [lock EXCEPT ![t] = l]
      BY <1>3, <2>1 DEF Recheck, CreateIfMissing, StoreNewLock
    <3>2. pc[t] = "recheck" /\ pc' = [pc EXCEPT ![t] = "leave"]
      BY <1>3 DEF Recheck, Goto
    <3>3. UNCHANGED <<creationOwner, owner, name>>
      BY <1>3 DEF Recheck
    <3>4. TypeOK'
      BY <3>1, <3>2, <3>3
    <3>5. CreationExclusive'
      BY <3>2, <3>3 DEF CreationExclusive
    <3>6. LocksDistinct'
      BY <3>1, <2>1 DEF LocksDistinct
    <3>7. LocalIsRegistered'
      BY <3>1, <3>2, <3>3, <2>1 DEF LocalIsRegistered
    <3>8. OwnerInBody'
      BY <3>1, <3>2, <3>3 DEF OwnerInBody
    <3> QED BY <3>4, <3>5, <3>6, <3>7, <3>8
  <2>2. CASE locks[name[t]] # NoLock
    BY <1>3, <2>2 DEF Recheck, CreateIfMissing, UseExistingLock, Goto,
       CreationExclusive, LocksDistinct, LocalIsRegistered, OwnerInBody
  <2> QED BY <2>1, <2>2
<1>4. ASSUME NEW t \in Threads, LeaveCreation(t) PROVE IInv'
  BY <1>4 DEF LeaveCreation, Goto, CreationExclusive, LocksDistinct,
     LocalIsRegistered, OwnerInBody
<1>5. ASSUME NEW t \in Threads, Acquire(t) PROVE IInv'
  <2>1. lock[t] \in LockObjs
    BY <1>5 DEF Acquire, LocalIsRegistered
  <2>2. TypeOK'
    BY <1>5, <2>1 DEF Acquire, Goto
  <2>3. CreationExclusive' /\ LocksDistinct' /\ LocalIsRegistered'
    BY <1>5 DEF Acquire, Goto, CreationExclusive, LocksDistinct, LocalIsRegistered
  <2>4. OwnerInBody'
    BY <1>5, <2>1 DEF Acquire, Goto, OwnerInBody
  <2> QED BY <2>2, <2>3, <2>4
<1>6. ASSUME NEW t \in Threads, Release(t) PROVE IInv'
  <2>1. lock[t] \in LockObjs
    BY <1>6 DEF Release, LocalIsRegistered
  <2>2. TypeOK'
    BY <1>6, <2>1 DEF Release, Goto
  <2>3. CreationExclusive' /\ LocksDistinct' /\ LocalIsRegistered'
    BY <1>6 DEF Release, Goto, CreationExclusive, LocksDistinct, LocalIsRegistered
  <2>4. OwnerInBody'
    BY <1>6, <2>1 DEF Release, Goto, OwnerInBody
  <2> QED BY <2>2, <2>3, <2>4
<1>7. CASE UNCHANGED vars
  BY <1>7 DEF vars, CreationExclusive, LocksDistinct, LocalIsRegistered, OwnerInBody
<1> QED
  BY <1>1, <1>2, <1>3, <1>4, <1>5, <1>6, <1>7 DEF Next, Step

LEMMA Invariance == Spec => []IInv
BY InitInv, StepInv, PTL DEF Spec

LEMMA InvExcludes == IInv => MutualExclusion
<1> SUFFICES ASSUME IInv, NEW t \in Threads, NEW u \in Threads, NEW n \in Names,
                    Inside(t, n), Inside(u, n)
             PROVE  t = u
  BY DEF MutualExclusion
<1>1. lock[t] = locks[n] /\ lock[u] = locks[n] /\ lock[t] \in LockObjs
  BY DEF IInv, LocalIsRegistered, Inside
<1>2. owner[lock[t]] = t /\ owner[lock[u]] = u
  BY <1>1 DEF IInv, OwnerInBody, Inside
<1> QED BY <1>1, <1>2

\* The type of every variable, and that `_get_lock` gives every thread a lock
\* that was constructed (threading.py:24-30).
THEOREM TypeCorrect == Spec => []TypeOK
<1>1. IInv => TypeOK
  BY DEF IInv
<1> QED BY <1>1, Invariance, PTL

\* Two threads inside the block of one name are the same thread
\* (threading.py:17-30).
THEOREM Exclusion == Spec => []MutualExclusion
BY Invariance, InvExcludes, PTL

\* A registered lock object is never replaced (threading.py:26-29).
THEOREM NeverReplaced == Spec => LockNeverReplaced
<1>1. IInv /\ [Next]_vars
        => [\A n \in Names : locks[n] # NoLock => locks'[n] = locks[n]]_vars
  <2> SUFFICES ASSUME IInv, Next, NEW n \in Names, locks[n] # NoLock
               PROVE  locks'[n] = locks[n]
    BY DEF vars
  <2> USE DEF IInv, TypeOK
  <2>1. CASE UNCHANGED locks
    BY <2>1
  <2>2. ASSUME NEW t \in Threads, Recheck(t) PROVE locks'[n] = locks[n]
    BY <2>2 DEF Recheck, CreateIfMissing, StoreNewLock, UseExistingLock
  <2> QED
    BY <2>1, <2>2
       DEF Next, Step, Lookup, EnterCreation, LeaveCreation, Acquire, Release
<1> QED
  BY <1>1, Invariance, PTL DEF Spec, LockNeverReplaced

-----------------------------------------------------------------------------
(* HolderOf names the one thread inside a block, or Nobody. *)
HolderIsInside ==
    \A n \in Names :
        /\ \A t \in Threads : HolderOf(n) = t <=> Inside(t, n)
        /\ HolderOf(n) \in Threads \cup {Nobody}

LEMMA InvHolder == IInv => HolderIsInside
<1> SUFFICES ASSUME IInv, NEW n \in Names
             PROVE  /\ \A t \in Threads : HolderOf(n) = t <=> Inside(t, n)
                    /\ HolderOf(n) \in Threads \cup {Nobody}
  BY DEF HolderIsInside
<1>1. \A t, u \in Threads : Inside(t, n) /\ Inside(u, n) => t = u
  BY InvExcludes DEF MutualExclusion
<1>2. CASE \E t \in Threads : Inside(t, n)
  <2>1. HolderOf(n) \in Threads /\ Inside(HolderOf(n), n)
    BY <1>2 DEF HolderOf
  <2> QED BY <1>1, <2>1
<1>3. CASE \A t \in Threads : ~Inside(t, n)
  <2>1. HolderOf(n) = Nobody
    BY <1>3 DEF HolderOf
  <2> QED BY <1>3, <2>1, LockHandlerAssumption
<1> QED BY <1>2, <1>3

LEMMA InvHolderNext == IInv' => HolderIsInside'
BY InvHolder, PTL

(* The abstract state: who holds which name. *)
Holder == [n \in Names |-> HolderOf(n)]

(* A step that moves no thread into or out of a block is a stutter of the *)
(* abstract mutexes.                                                       *)
LEMMA SameHolders ==
    ASSUME HolderIsInside, HolderIsInside',
           \A t \in Threads, n \in Names : Inside(t, n)' <=> Inside(t, n)
    PROVE  Holder' = Holder
<1> SUFFICES ASSUME NEW n \in Names PROVE HolderOf(n)' = HolderOf(n)
  BY Zenon DEF Holder
<1> DEFINE h == HolderOf(n)  g == HolderOf(n)'
<1>1. \A t \in Threads : (h = t <=> Inside(t, n)) /\ (g = t <=> Inside(t, n)')
  BY Zenon DEF HolderIsInside
<1>2. h \in Threads \cup {Nobody} /\ g \in Threads \cup {Nobody}
  BY Zenon DEF HolderIsInside
<1>3. \A t \in Threads : g = t <=> h = t
  BY <1>1, Zenon
<1> HIDE DEF h, g
<1>4. g = h
  BY <1>2, <1>3
<1> QED BY <1>4 DEF h, g


LEMMA EnterMaps ==
    ASSUME IInv, HolderIsInside, HolderIsInside', NEW t \in Threads, Acquire(t)
    PROVE  Abstract!Enter(t, name[t])
<1> DEFINE n == name[t]
<1> USE DEF IInv, TypeOK
<1>1. n \in Names /\ lock[t] \in LockObjs /\ lock[t] = locks[n]
  BY DEF Acquire, LocalIsRegistered
<1>2. \A u \in Threads : ~Inside(u, n)
  <2> SUFFICES ASSUME NEW u \in Threads, Inside(u, n) PROVE FALSE
    OBVIOUS
  <2>1. owner[lock[t]] = u
    BY <1>1 DEF Inside, LocalIsRegistered, OwnerInBody
  <2> QED BY <2>1, LockHandlerAssumption DEF Acquire
<1>3. \A m \in Names : ~Inside(t, m)
  BY DEF Acquire, Inside
<1>4. \A u \in Threads, m \in Names :
          Inside(u, m)' <=> Inside(u, m) \/ (u = t /\ m = n)
  BY <1>1 DEF Acquire, Goto, Inside
<1>5. HolderOf(n) = Nobody
  BY <1>1, <1>2 DEF HolderIsInside
<1>6. \A m \in Names : HolderOf(m) # t
  BY <1>3 DEF HolderIsInside
<1>7. \A m \in Names : HolderOf(m)' = IF m = n THEN t ELSE HolderOf(m)
  <2> SUFFICES ASSUME NEW m \in Names
               PROVE  HolderOf(m)' = IF m = n THEN t ELSE HolderOf(m)
    OBVIOUS
  <2> DEFINE h == HolderOf(m)  g == HolderOf(m)'
  <2>1. \A u \in Threads : (h = u <=> Inside(u, m)) /\ (g = u <=> Inside(u, m)')
    BY Zenon DEF HolderIsInside
  <2>2. h \in Threads \cup {Nobody} /\ g \in Threads \cup {Nobody}
    BY Zenon DEF HolderIsInside
  <2>3. \A u \in Threads : g = u <=> h = u \/ (u = t /\ m = n)
    BY <2>1, <1>4
  <2>4. m = n => h = Nobody
    BY <1>5
  <2> HIDE DEF h, g, n
  <2>5. g = IF m = n THEN t ELSE h
    BY <2>2, <2>3, <2>4
  <2> QED BY <2>5, Zenon DEF h, g
<1>8. Holder' = [Holder EXCEPT ![n] = t]
  <2> HIDE DEF n
  <2> QED BY <1>1, <1>7, Zenon DEF Holder
<1> HIDE DEF n
<1>9. Abstract!Enter(t, n)
  BY <1>1, <1>5, <1>6, <1>8, Zenon DEF Abstract!Enter, Holder
<1> QED BY <1>9 DEF n

LEMMA LeaveMaps ==
    ASSUME IInv, HolderIsInside, HolderIsInside', NEW t \in Threads, Release(t)
    PROVE  Abstract!Leave(t, name[t])
<1> DEFINE n == name[t]
<1> USE DEF IInv, TypeOK
<1>1. n \in Names /\ Inside(t, n)
  BY DEF Release, Inside
<1>2. \A u \in Threads, m \in Names :
          Inside(u, m)' <=> Inside(u, m) /\ u # t
  BY <1>1 DEF Release, Goto, Inside
<1>3. HolderOf(n) = t
  BY <1>1 DEF HolderIsInside
<1>4. \A m \in Names : m # n => ~Inside(t, m)
  BY DEF Inside
<1>5. \A m \in Names : HolderOf(m)' = IF m = n THEN Nobody ELSE HolderOf(m)
  <2> SUFFICES ASSUME NEW m \in Names
               PROVE  HolderOf(m)' = IF m = n THEN Nobody ELSE HolderOf(m)
    OBVIOUS
  <2> DEFINE h == HolderOf(m)  g == HolderOf(m)'
  <2>1. \A u \in Threads : (h = u <=> Inside(u, m)) /\ (g = u <=> Inside(u, m)')
    BY Zenon DEF HolderIsInside
  <2>2. h \in Threads \cup {Nobody} /\ g \in Threads \cup {Nobody}
    BY Zenon DEF HolderIsInside
  <2>3. \A u \in Threads : g = u <=> h = u /\ u # t
    BY <2>1, <1>2
  <2>4. (m = n => h = t) /\ (m # n => h # t)
    BY <1>3, <1>4, <2>1
  <2> HIDE DEF h, g, n
  <2>5. g = IF m = n THEN Nobody ELSE h
    BY <2>2, <2>3, <2>4
  <2> QED BY <2>5, Zenon DEF h, g
<1>6. Holder' = [Holder EXCEPT ![n] = Nobody]
  <2> HIDE DEF n
  <2> QED BY <1>1, <1>5, Zenon DEF Holder
<1> HIDE DEF n
<1>7. Abstract!Leave(t, n)
  BY <1>1, <1>3, <1>6, Zenon DEF Abstract!Leave, Holder
<1> QED BY <1>7 DEF n

LEMMA StepMaps ==
    IInv /\ HolderIsInside /\ HolderIsInside' /\ [Next]_vars
        => [Abstract!Next]_Holder
<1> SUFFICES ASSUME IInv, HolderIsInside, HolderIsInside', [Next]_vars
             PROVE  [Abstract!Next]_Holder
  OBVIOUS
<1> USE DEF IInv, TypeOK
<1>1. ASSUME NEW t \in Threads, Acquire(t) PROVE [Abstract!Next]_Holder
  <2>1. name[t] \in Names
    OBVIOUS
  <2>2. Abstract!Enter(t, name[t])
    BY <1>1, EnterMaps
  <2> QED BY <2>1, <2>2, Zenon DEF Abstract!Next
<1>2. ASSUME NEW t \in Threads, Release(t) PROVE [Abstract!Next]_Holder
  <2>1. name[t] \in Names
    OBVIOUS
  <2>2. Abstract!Leave(t, name[t])
    BY <1>2, LeaveMaps
  <2> QED BY <2>1, <2>2, Zenon DEF Abstract!Next
<1>3. CASE \/ \E t \in Threads : \/ \E n \in Names : Lookup(t, n)
                                 \/ EnterCreation(t)
                                 \/ Recheck(t)
                                 \/ LeaveCreation(t)
           \/ UNCHANGED vars
  <2>1. \A t \in Threads, n \in Names : Inside(t, n)' <=> Inside(t, n)
    BY <1>3 DEF Lookup, EnterCreation, Recheck, LeaveCreation, Goto, Inside, vars
  <2>2. Holder' = Holder
    BY <2>1, SameHolders
  <2> QED BY <2>2
<1> QED
  BY <1>1, <1>2, <1>3 DEF Next, Step

LEMMA InitMaps == Init => Abstract!Init
<1> SUFFICES ASSUME Init PROVE Abstract!Init
  OBVIOUS
<1>1. \A n \in Names : HolderOf(n) = Nobody
  BY DEF Init, HolderOf, Inside
<1> QED BY <1>1, Zenon DEF Abstract!Init

\* The double-checked dictionary implements a mutex per name
\* (threading.py:17-30).
THEOREM Refinement == Spec => ImplementsNamedMutex
<1>1. Spec => [](IInv /\ HolderIsInside)
  BY Invariance, InvHolder, PTL
<1>2. [][Next]_vars /\ [](IInv /\ HolderIsInside) => [][Abstract!Next]_Holder
  BY StepMaps, PTL
<1> QED
  BY <1>1, <1>2, InitMaps, PTL
     DEF Spec, ImplementsNamedMutex, Abstract!Spec, Holder
=============================================================================
