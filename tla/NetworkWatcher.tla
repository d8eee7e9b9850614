--------------------------- MODULE NetworkWatcher ---------------------------
(***************************************************************************)
(* utils/network_watcher.py: a cache of the datacenter's networks, kept up *)
(* to date by draining a vCenter property collector.  A connectivity flow  *)
(* owns one watcher; the executor threads of the flow and the thread that  *)
(* populates the cache share it.                                           *)
(*                                                                         *)
(* vCenter is external: networks (managed objects, never reused) appear    *)
(* and disappear under unique names, and WaitForUpdatesEx(version) answers *)
(* with the difference between the last version and the present.  Renames  *)
(* ("modify" updates, which the watcher ignores) are not modelled: the     *)
(* driver renames no network.                                              *)
(***************************************************************************)
EXTENDS Naturals

CONSTANTS Names,       \* names of networks
          Nets,        \* identities of vim.Network objects
          Callers,     \* threads that use the watcher
          None,        \* "no such entry"
          LeaveFirst,  \* is `leave` of a name delivered before its `enter`?
          MaxCalls,    \* bound: calls per thread
          MaxPolls     \* bound: polls of wait_appears before it times out

ASSUME WatcherAssumption ==
    /\ None \notin Names \cup Nets \cup Callers
    /\ {"update_failed", "lookup_failed", "done"} \cap (Nets \cup {None}) = {}
    /\ LeaveFirst \in BOOLEAN
    /\ MaxCalls \in Nat
    /\ MaxPolls \in Nat

VARIABLES
    live, used,            \* vCenter: name -> network, networks ever created
    reported,              \* vCenter: what the collector's version covers
    networks,              \* `_networks`
    networkToName,         \* `_network_to_name`
    lockOwner,             \* `_lock`
    batch,                 \* rest of the update set its owner is applying
    pc, op, arg, polls,    \* per thread: position, operation and its locals
    result, calls,
    seen                   \* history: what arg named since the call began

vcenterVars == <<live, used>>
cacheVars == <<reported, networks, networkToName, batch>>
callVars == <<op, arg, polls, result, calls>>
vars == <<live, used, reported, networks, networkToName, lockOwner, batch,
          pc, op, arg, polls, result, calls, seen>>

Ops == {"populate", "exists", "get_network", "find_networks",
        "find_network_names", "wait_appears"}
Entry == Nets \cup {None}
Events == [kind : {"enter", "leave"}, net : Nets, name : Names]
Outcomes == Entry \cup {"update_failed", "lookup_failed", "done"}

TypeOK ==
    /\ live \in [Names -> Entry]
    /\ used \subseteq Nets
    /\ reported \in [Names -> Entry]
    /\ networks \in [Names -> Entry]
    /\ networkToName \in [Nets -> Names \cup {None}]
    /\ lockOwner \in Callers \cup {None}
    /\ batch \subseteq Events
    /\ pc \in [Callers -> {"idle", "update", "fetch", "apply", "read", "yield",
                           "returned"}]
    /\ op \in [Callers -> Ops]
    /\ arg \in [Callers -> Names]
    /\ polls \in [Callers -> 0 .. MaxPolls]
    /\ result \in [Callers -> Outcomes]
    /\ calls \in [Callers -> 0 .. MaxCalls]
    /\ seen \in [Callers -> SUBSET Entry]

Init ==
    /\ used \in SUBSET Nets
    /\ live \in [Names -> used \cup {None}]
    /\ \A m, n \in Names : live[m] = live[n] /\ live[m] # None => m = n
    /\ used = {live[n] : n \in Names} \ {None}
    /\ reported = [n \in Names |-> None]
    /\ networks = [n \in Names |-> None]
    /\ networkToName = [o \in Nets |-> None]
    /\ lockOwner = None
    /\ batch = {}
    /\ pc = [c \in Callers |-> "idle"]
    /\ op = [c \in Callers |-> "populate"]
    /\ arg \in [Callers -> Names]
    /\ polls = [c \in Callers |-> 0]
    /\ result = [c \in Callers |-> "done"]
    /\ calls = [c \in Callers |-> 0]
    /\ seen = [c \in Callers |-> {}]

-----------------------------------------------------------------------------
(* vCenter: other flows, other clients and users create and destroy.       *)

Observe(view) ==
    seen' = [c \in Callers |->
                IF pc[c] = "idle" THEN seen[c] ELSE seen[c] \cup {view[arg[c]]}]

Appears(n, o) ==
    /\ live[n] = None
    /\ o \notin used
    /\ live' = [live EXCEPT ![n] = o]
    /\ used' = used \cup {o}
    /\ Observe(live')
    /\ UNCHANGED <<cacheVars, callVars, lockOwner, pc>>

Disappears(n) ==
    /\ live[n] # None
    /\ live' = [live EXCEPT ![n] = None]
    /\ Observe(live')
    /\ UNCHANGED <<used, cacheVars, callVars, lockOwner, pc>>

(* The answer of WaitForUpdatesEx to the collector's version. *)
Updates ==
    {[kind |-> "enter", net |-> live[n], name |-> n] :
        n \in {m \in Names : live[m] # None /\ live[m] # reported[m]}}
    \cup
    {[kind |-> "leave", net |-> reported[n], name |-> n] :
        n \in {m \in Names : reported[m] # None /\ live[m] # reported[m]}}

-----------------------------------------------------------------------------
(* The public operations: every one of them begins with update_networks.    *)

(* Fault: the operation trusts the cache it finds. *)
CallWithoutUpdate(c, o, n) ==
    /\ pc[c] = "idle"
    /\ calls[c] < MaxCalls
    /\ o # "find_network_names"
    /\ pc' = [pc EXCEPT ![c] = "read"]
    /\ op' = [op EXCEPT ![c] = o]
    /\ arg' = [arg EXCEPT ![c] = n]
    /\ calls' = [calls EXCEPT ![c] = calls[c] + 1]
    /\ seen' = [seen EXCEPT ![c] = {live[n]}]
    /\ UNCHANGED <<vcenterVars, cacheVars, lockOwner, polls, result>>

Call(c, o, n) ==
    /\ pc[c] = "idle"
    /\ calls[c] < MaxCalls
    /\ o # "find_network_names"       \* only called by find_networks
    /\ pc' = [pc EXCEPT ![c] = "update"]
    /\ op' = [op EXCEPT ![c] = o]
    /\ arg' = [arg EXCEPT ![c] = n]
    /\ calls' = [calls EXCEPT ![c] = calls[c] + 1]
    /\ seen' = [seen EXCEPT ![c] = {live[n]}]
    /\ UNCHANGED <<vcenterVars, cacheVars, lockOwner, polls, result>>

(* `with self._lock`. *)
AcquireLock(c) ==
    /\ pc[c] = "update"
    /\ lockOwner = None
    /\ lockOwner' = c
    /\ pc' = [pc EXCEPT ![c] = "fetch"]
    /\ UNCHANGED <<vcenterVars, cacheVars, callVars, seen>>

(* One round of `while update_set := wait_fn(version=self._version, ...)`:  *)
(* the version is stored before a single change has been applied.          *)
Fetch(c) ==
    /\ pc[c] = "fetch"
    /\ Updates # {}
    /\ batch' = Updates
    /\ reported' = live
    /\ pc' = [pc EXCEPT ![c] = "apply"]
    /\ UNCHANGED <<vcenterVars, networks, networkToName, callVars, lockOwner, seen>>

(* No updates: the loop ends and the lock is released.  A second update     *)
(* precedes the copy of the names in find_network_names.                   *)
Drained(c) ==
    /\ pc[c] = "fetch"
    /\ Updates = {}
    /\ lockOwner' = None
    /\ IF op[c] = "find_networks"
       THEN /\ op' = [op EXCEPT ![c] = "find_network_names"]
            /\ pc' = [pc EXCEPT ![c] = "update"]
       ELSE /\ UNCHANGED op
            /\ pc' = [pc EXCEPT ![c] = "read"]
    /\ UNCHANGED <<vcenterVars, cacheVars, arg, polls, result, calls, seen>>

(* Fault: the name is recorded under the object only. *)
EnterReverseOnly(e) ==
    /\ networkToName' = [networkToName EXCEPT ![e.net] = e.name]
    /\ UNCHANGED networks

Enter(e) ==
    /\ networks' = [networks EXCEPT ![e.name] = e.net]
    /\ networkToName' = [networkToName EXCEPT ![e.net] = e.name]

(* Fault: the network stays under its name. *)
LeaveKeepsName(e) ==
    /\ networkToName' = [networkToName EXCEPT ![e.net] = None]
    /\ UNCHANGED networks

(* `leave` carries no name: it is looked up under the object. *)
Leave(e) ==
    LET name == networkToName[e.net] IN
    IF name = None
    THEN UNCHANGED <<networks, networkToName>>
    ELSE /\ networks' = [networks EXCEPT ![name] = None]
         /\ networkToName' = [networkToName EXCEPT ![e.net] = None]

(* `del self._networks[name]` of a name that is not there. *)
LeaveFails(e) ==
    /\ e.kind = "leave"
    /\ networkToName[e.net] # None
    /\ networks[networkToName[e.net]] = None

(* The order in which an update set lists its objects. *)
MayBeNext(e) ==
    LeaveFirst /\ e.kind = "enter" =>
        ~\E f \in batch : f.kind = "leave" /\ f.name = e.name

Apply(c, e) ==
    /\ pc[c] = "apply"
    /\ e \in batch
    /\ MayBeNext(e)
    /\ ~LeaveFails(e)
    /\ IF e.kind = "enter" THEN Enter(e) ELSE Leave(e)
    /\ batch' = batch \ {e}
    /\ pc' = [pc EXCEPT ![c] = IF batch = {e} THEN "fetch" ELSE "apply"]
    /\ UNCHANGED <<vcenterVars, reported, callVars, lockOwner, seen>>

(* Fault: the lock is not released when the update raises. *)
ApplyFailsHoldingLock(c, e) ==
    /\ pc[c] = "apply"
    /\ e \in batch
    /\ MayBeNext(e)
    /\ LeaveFails(e)
    /\ batch' = {}
    /\ result' = [result EXCEPT ![c] = "update_failed"]
    /\ pc' = [pc EXCEPT ![c] = "returned"]
    /\ UNCHANGED <<vcenterVars, reported, networks, networkToName, op, arg, polls,
                   calls, seen, lockOwner>>

(* The KeyError leaves the `with` block and the operation; the rest of the  *)
(* update set is lost, its version is already stored.                      *)
ApplyFails(c, e) ==
    /\ pc[c] = "apply"
    /\ e \in batch
    /\ MayBeNext(e)
    /\ LeaveFails(e)
    /\ batch' = {}
    /\ lockOwner' = None
    /\ result' = [result EXCEPT ![c] = "update_failed"]
    /\ pc' = [pc EXCEPT ![c] = "returned"]
    /\ UNCHANGED <<vcenterVars, reported, networks, networkToName, op, arg, polls,
                   calls, seen>>

-----------------------------------------------------------------------------
(* The reads of `_networks` after the update hold no lock.                  *)

Finish(c, r) ==
    /\ result' = [result EXCEPT ![c] = r]
    /\ pc' = [pc EXCEPT ![c] = "returned"]

(* populate_in_bg: the thread has nothing more to do. *)
Populated(c) ==
    /\ pc[c] = "read"
    /\ op[c] = "populate"
    /\ Finish(c, "done")
    /\ UNCHANGED <<vcenterVars, cacheVars, lockOwner, op, arg, polls, calls, seen>>

(* exists and get_network answer from one read; None stands for False and   *)
(* for NetworkNotFound.                                                    *)
ReadEntry(c) ==
    /\ pc[c] = "read"
    /\ op[c] \in {"exists", "get_network"}
    /\ Finish(c, networks[arg[c]])
    /\ UNCHANGED <<vcenterVars, cacheVars, lockOwner, op, arg, polls, calls, seen>>

(* wait_appears ends in get_network; a miss polls again until the timeout. *)
CheckAppeared(c) ==
    /\ pc[c] = "read"
    /\ op[c] = "wait_appears"
    /\ pc' = [pc EXCEPT ![c] = "update"]
    /\ \/ /\ networks[arg[c]] = None
          /\ polls[c] < MaxPolls
          /\ polls' = [polls EXCEPT ![c] = polls[c] + 1]
          /\ UNCHANGED op
       \/ /\ networks[arg[c]] # None \/ polls[c] = MaxPolls
          /\ polls' = [polls EXCEPT ![c] = 0]
          /\ op' = [op EXCEPT ![c] = "get_network"]
    /\ UNCHANGED <<vcenterVars, cacheVars, lockOwner, arg, result, calls, seen>>

(* find_network_names copies the names (the key selects arg); find_networks *)
(* reads the entry of each when its consumer asks for it.                  *)
CopyNames(c) ==
    /\ pc[c] = "read"
    /\ op[c] = "find_network_names"
    /\ IF networks[arg[c]] = None
       THEN Finish(c, "done")
       ELSE /\ pc' = [pc EXCEPT ![c] = "yield"]
            /\ UNCHANGED result
    /\ UNCHANGED <<vcenterVars, cacheVars, lockOwner, op, arg, polls, calls, seen>>

(* `self._networks[name]`: another thread's update may have removed it. *)
Yield(c) ==
    /\ pc[c] = "yield"
    /\ Finish(c, IF networks[arg[c]] = None THEN "lookup_failed"
                 ELSE networks[arg[c]])
    /\ UNCHANGED <<vcenterVars, cacheVars, lockOwner, op, arg, polls, calls, seen>>

(* The locals of the call go out of scope. *)
Return(c) ==
    /\ pc[c] = "returned"
    /\ pc' = [pc EXCEPT ![c] = "idle"]
    /\ op' = [op EXCEPT ![c] = "populate"]
    /\ result' = [result EXCEPT ![c] = "done"]
    /\ polls' = [polls EXCEPT ![c] = 0]
    /\ seen' = [seen EXCEPT ![c] = {}]
    /\ UNCHANGED <<vcenterVars, cacheVars, lockOwner, arg, calls>>

-----------------------------------------------------------------------------
Step(c) ==
    \/ AcquireLock(c)
    \/ Fetch(c)
    \/ Drained(c)
    \/ \E e \in batch : Apply(c, e) \/ ApplyFails(c, e)
    \/ Populated(c)
    \/ ReadEntry(c)
    \/ CheckAppeared(c)
    \/ CopyNames(c)
    \/ Yield(c)
    \/ Return(c)

Next ==
    \/ \E n \in Names, o \in Nets : Appears(n, o)
    \/ \E n \in Names : Disappears(n)
    \/ \E c \in Callers : Step(c) \/ \E o \in Ops, n \in Names : Call(c, o, n)

(* Threads are scheduled; nothing obliges vCenter or a caller to act. *)
Fairness == \A c \in Callers : WF_vars(Step(c))

Spec == Init /\ [][Next]_vars /\ Fairness

-----------------------------------------------------------------------------
(* The dictionary of objects that a dictionary of names calls for. *)
InverseOf(f) ==
    [o \in Nets |->
        IF \E n \in Names : f[n] = o THEN CHOOSE n \in Names : f[n] = o ELSE None]

\* Whenever no update set is being applied, `_networks` holds exactly the
\* networks the collector has reported as existing and `_network_to_name` is
\* its inverse, whoever drained the updates and wherever the readers are; the
\* assertions of test_network_watcher.py:74-82 for every history
\* (network_watcher.py:128-143).
CacheExact ==
    batch = {} => /\ networks = reported
                  /\ networkToName = InverseOf(reported)

\* An answer of exists, get_network, wait_appears or find_networks is not a
\* leftover: the network it hands out (or the absence it reports) was the
\* truth in vCenter at some moment of the call, although the read happens
\* after the lock is released (network_watcher.py:96-99, 104-106).
AnswersFresh ==
    \A c \in Callers :
        pc[c] = "returned" /\ result[c] \in Entry => result[c] \in seen[c]

\* Draining the collector never raises: a `leave` always finds its name in
\* both dictionaries (network_watcher.py:140-143).
UpdateNeverFails ==
    \A c \in Callers : result[c] # "update_failed"

\* Every operation comes back, even when an update of this or another thread
\* raised half way: the lock is always released (network_watcher.py:125-126).
EveryCallReturns ==
    \A c \in Callers : pc[c] # "idle" ~> pc[c] = "idle"
=============================================================================
