---------------------------- MODULE LockHandler ----------------------------
(***************************************************************************)
(* cloudshell.cp.vcenter.utils.threading.LockHandler: a dictionary of      *)
(* locks, filled on demand with double-checked creation.  The connectivity *)
(* flow keeps two of them at module level (`network_lock`, `switch_lock`), *)
(* so every command thread of the driver process uses the same handler.    *)
(*                                                                         *)
(* One step is one operation on shared state: a read or a write of         *)
(* `_locks` (atomic under the interpreter lock), an acquire or a release.  *)
(***************************************************************************)
CONSTANTS Threads,     \* threads of the driver process
          Names,       \* network (or switch) names
          LockObjs,    \* identities of threading.Lock objects
          NoLock,      \* `_locks.get(name)` found nothing
          Nobody       \* owner of a free lock

ASSUME LockHandlerAssumption ==
    /\ NoLock \notin LockObjs
    /\ Nobody \notin Threads

VARIABLES
    locks,           \* `_locks`: name -> lock object
    allocated,       \* lock objects constructed so far
    creationOwner,   \* owner of `_lock_creation_lock`
    owner,           \* owner of every lock object
    pc, name, lock   \* per thread: position, argument and local `lock`

vars == <<locks, allocated, creationOwner, owner, pc, name, lock>>

\* The types; the dictionary holds constructed locks only, and a thread that
\* has been through `_get_lock` has one too, never nothing (threading.py:24-30).
TypeOK ==
    /\ allocated \subseteq LockObjs
    /\ locks \in [Names -> allocated \cup {NoLock}]
    /\ creationOwner \in Threads \cup {Nobody}
    /\ owner \in [LockObjs -> Threads \cup {Nobody}]
    /\ pc \in [Threads -> {"idle", "create", "recheck", "leave", "acquire", "body"}]
    /\ name \in [Threads -> Names]
    /\ lock \in [Threads -> allocated \cup {NoLock}]
    /\ \A t \in Threads : pc[t] \in {"leave", "acquire", "body"} => lock[t] # NoLock

Init ==
    /\ locks = [n \in Names |-> NoLock]
    /\ allocated = {}
    /\ creationOwner = Nobody
    /\ owner = [l \in LockObjs |-> Nobody]
    /\ pc = [t \in Threads |-> "idle"]
    /\ name \in [Threads -> Names]
    /\ lock = [t \in Threads |-> NoLock]

Goto(t, label) == pc' = [pc EXCEPT ![t] = label]

(* `lock(net_name)`: the unlocked first look at the dictionary. *)
Lookup(t, n) ==
    /\ pc[t] = "idle"
    /\ name' = [name EXCEPT ![t] = n]
    /\ lock' = [lock EXCEPT ![t] = locks[n]]
    /\ Goto(t, IF locks[n] = NoLock THEN "create" ELSE "acquire")
    /\ UNCHANGED <<locks, allocated, creationOwner, owner>>

(* `with self._lock_creation_lock`. *)
EnterCreation(t) ==
    /\ pc[t] = "create"
    /\ creationOwner = Nobody
    /\ creationOwner' = t
    /\ Goto(t, "recheck")
    /\ UNCHANGED <<locks, allocated, owner, name, lock>>

StoreNewLock(t) ==
    \E l \in LockObjs \ allocated :
        /\ allocated' = allocated \cup {l}
        /\ locks' = [locks EXCEPT ![name[t]] = l]
        /\ lock' = [lock EXCEPT ![t] = l]

(* Fault: the second look does not assign what it finds. *)
LookWithoutAssigning(t) == UNCHANGED <<lock, locks, allocated>>

UseExistingLock(t) ==
    /\ lock' = [lock EXCEPT ![t] = locks[name[t]]]
    /\ UNCHANGED <<locks, allocated>>

(* Fault: the second look is dropped, so the last creator wins. *)
CreateWithoutRecheck(t) == StoreNewLock(t)

(* The second look decides whether a lock object is constructed. *)
CreateIfMissing(t) ==
    IF locks[name[t]] = NoLock THEN StoreNewLock(t) ELSE UseExistingLock(t)

Recheck(t) ==
    /\ pc[t] = "recheck"
    /\ CreateIfMissing(t)
    /\ Goto(t, "leave")
    /\ UNCHANGED <<creationOwner, owner, name>>

(* Fault: the creation lock is acquired by hand and not released. *)
LeaveCreationHeld(t) ==
    /\ pc[t] = "leave"
    /\ Goto(t, "acquire")
    /\ UNCHANGED <<locks, allocated, creationOwner, owner, name, lock>>

LeaveCreation(t) ==
    /\ pc[t] = "leave"
    /\ creationOwner' = Nobody
    /\ Goto(t, "acquire")
    /\ UNCHANGED <<locks, allocated, owner, name, lock>>

(* `with lock:` around the caller's block. *)
Acquire(t) ==
    /\ pc[t] = "acquire"
    /\ owner[lock[t]] = Nobody
    /\ owner' = [owner EXCEPT ![lock[t]] = t]
    /\ Goto(t, "body")
    /\ UNCHANGED <<locks, allocated, creationOwner, name, lock>>

(* The block ends, normally or with an exception: both release the lock. *)
Release(t) ==
    /\ pc[t] = "body"
    /\ owner' = [owner EXCEPT ![lock[t]] = Nobody]
    /\ Goto(t, "idle")
    /\ UNCHANGED <<locks, allocated, creationOwner, name, lock>>

Step(t) ==
    \/ EnterCreation(t)
    \/ Recheck(t)
    \/ LeaveCreation(t)
    \/ Acquire(t)
    \/ Release(t)

Next == \E t \in Threads : Step(t) \/ \E n \in Names : Lookup(t, n)

(***************************************************************************)
(* A thread that has called lock() keeps running, and every block under a  *)
(* lock ends (its waits carry timeouts).  Nobody has to call lock().       *)
(***************************************************************************)
Fairness == \A t \in Threads : WF_vars(Step(t))

Spec == Init /\ [][Next]_vars /\ Fairness

-----------------------------------------------------------------------------
Inside(t, n) == pc[t] = "body" /\ name[t] = n

\* Two threads are never inside the block of the same name: whatever the
\* interleaving of first looks and creations, they got the same lock object
\* (threading.py:17-30).
MutualExclusion ==
    \A t, u \in Threads, n \in Names : Inside(t, n) /\ Inside(u, n) => t = u

\* Once a name has a lock object it keeps that object for the life of the
\* process: a late creator never replaces the lock others may be holding
\* (threading.py:26-29).
LockNeverReplaced ==
    [][\A n \in Names : locks[n] # NoLock => locks'[n] = locks[n]]_vars

\* Nobody waits forever on everybody: if some thread has asked for a name,
\* some thread gets inside that name's block, although the creation lock is
\* shared by all names (threading.py:26).
WaitersProgress ==
    \A n \in Names :
        (\E t \in Threads : name[t] = n /\ pc[t] \notin {"idle", "body"})
            ~> (\E t \in Threads : Inside(t, n))

\* The handler as its callers see it.
HolderOf(n) ==
    IF \E t \in Threads : Inside(t, n)
    THEN CHOOSE t \in Threads : Inside(t, n)
    ELSE Nobody

Abstract == INSTANCE NamedMutex WITH holder <- [n \in Names |-> HolderOf(n)]

\* Every behaviour of the double-checked dictionary is a behaviour of a family
\* of mutexes, one per name (threading.py:17-30).
ImplementsNamedMutex == Abstract!Spec
=============================================================================
