------------------------ MODULE NetworkWatcherProofs ------------------------
(***************************************************************************)
(* Proofs about NetworkWatcher, for any names, networks, threads and       *)
(* bounds, under the delivery order LeaveFirst.  The order is a hypothesis *)
(* of the theorems, not of the module: without it CacheExact is false.     *)
(***************************************************************************)
EXTENDS NetworkWatcher, TLAPS

Leaving(n) == \E e \in batch : e.kind = "leave" /\ e.name = n
Entering(n) == \E e \in batch : e.kind = "enter" /\ e.name = n

(* The thread draining the collector owns the lock and the update set. *)
LockDiscipline ==
    /\ \A c \in Callers : pc[c] \in {"fetch", "apply"} <=> lockOwner = c
    /\ \A c \in Callers : pc[c] = "apply" <=> lockOwner = c /\ batch # {}
    /\ batch # {} => lockOwner # None

(* A network object is created once and has one name for ever. *)
Denotes(n, o) ==
    \/ live[n] = o
    \/ reported[n] = o
    \/ networks[n] = o
    \/ \E e \in batch : e.net = o /\ e.name = n

OneName ==
    \A o \in Nets, m, n \in Names :
        Denotes(m, o) /\ Denotes(n, o) => m = n /\ o \in used

(* What the rest of the update set still has to do to the cache. *)
BatchPending ==
    /\ \A e \in batch : e.kind = "leave" => networks[e.name] = e.net
    /\ \A e \in batch : e.kind = "enter" => reported[e.name] = e.net
    /\ \A n \in Names : ~Leaving(n) =>
          networks[n] = IF Entering(n) THEN None ELSE reported[n]
    /\ \A n \in Names : Leaving(n) /\ ~Entering(n) => reported[n] = None

(* The second dictionary is the inverse of the first. *)
Inverse ==
    \A n \in Names, o \in Nets : networkToName[o] = n <=> networks[n] = o

(* After its own update a thread can only read what was true in the call,  *)
(* even if other threads go on updating the cache.                         *)
ReadsFresh ==
    \A c \in Callers :
        /\ pc[c] # "idle" => live[arg[c]] \in seen[c]
        /\ pc[c] \in {"read", "yield"} =>
              /\ networks[arg[c]] \in seen[c]
              /\ reported[arg[c]] \in seen[c]
              /\ Leaving(arg[c]) => None \in seen[c]
              /\ live[arg[c]] # reported[arg[c]] /\ reported[arg[c]] # None
                    => None \in seen[c]

IInv ==
    /\ TypeOK
    /\ LockDiscipline
    /\ OneName
    /\ BatchPending
    /\ Inverse
    /\ ReadsFresh
    /\ AnswersFresh
    /\ UpdateNeverFails

-----------------------------------------------------------------------------
LEMMA UpdatesAre ==
    ASSUME TypeOK
    PROVE  /\ Updates \subseteq Events
           /\ \A e \in Updates : e.kind = "enter" =>
                 live[e.name] = e.net /\ e.net # reported[e.name]
           /\ \A e \in Updates : e.kind = "leave" =>
                 reported[e.name] = e.net /\ e.net # live[e.name]
           /\ \A n \in Names :
                 (\E e \in Updates : e.kind = "enter" /\ e.name = n)
                    <=> live[n] # None /\ live[n] # reported[n]
           /\ \A n \in Names :
                 (\E e \in Updates : e.kind = "leave" /\ e.name = n)
                    <=> reported[n] # None /\ live[n] # reported[n]
<1> USE WatcherAssumption DEF TypeOK, Entry
<1> DEFINE In(n) == [kind |-> "enter", net |-> live[n], name |-> n]
           Out(n) == [kind |-> "leave", net |-> reported[n], name |-> n]
<1>1. Updates = {In(n) : n \in {m \in Names : live[m] # None /\ live[m] # reported[m]}}
          \cup {Out(n) : n \in {m \in Names : reported[m] # None
                                               /\ live[m] # reported[m]}}
  BY DEF Updates
<1>2. \A n \in Names : live[n] # None /\ live[n] # reported[n] => In(n) \in Updates
  BY <1>1
<1>3. \A n \in Names : reported[n] # None /\ live[n] # reported[n] => Out(n) \in Updates
  BY <1>1
<1>4. \A n \in Names : /\ In(n).kind = "enter" /\ In(n).name = n /\ In(n).net = live[n]
                       /\ Out(n).kind = "leave" /\ Out(n).name = n
                       /\ Out(n).net = reported[n]
  OBVIOUS
<1>5. \A e \in Updates : \E n \in Names :
          \/ e = In(n) /\ live[n] # None /\ live[n] # reported[n]
          \/ e = Out(n) /\ reported[n] # None /\ live[n] # reported[n]
  BY <1>1
<1>6. Updates \subseteq Events
  BY <1>5 DEF Events
<1> HIDE DEF In, Out
<1>7. /\ \A e \in Updates : e.kind = "enter" =>
            live[e.name] = e.net /\ e.net # reported[e.name]
      /\ \A e \in Updates : e.kind = "leave" =>
            reported[e.name] = e.net /\ e.net # live[e.name]
  BY <1>4, <1>5
<1>8. ASSUME NEW n \in Names
      PROVE  (\E e \in Updates : e.kind = "enter" /\ e.name = n)
                <=> live[n] # None /\ live[n] # reported[n]
  <2>1. ASSUME NEW e \in Updates, e.kind = "enter", e.name = n
        PROVE  live[n] # None /\ live[n] # reported[n]
    BY <2>1, <1>4, <1>5
  <2>2. ASSUME live[n] # None, live[n] # reported[n]
        PROVE  \E e \in Updates : e.kind = "enter" /\ e.name = n
    <3>1. In(n) \in Updates
      BY <2>2, <1>2
    <3> WITNESS In(n) \in Updates
    <3> QED BY <1>4
  <2> QED BY <2>1, <2>2
<1>9. ASSUME NEW n \in Names
      PROVE  (\E e \in Updates : e.kind = "leave" /\ e.name = n)
                <=> reported[n] # None /\ live[n] # reported[n]
  <2>1. ASSUME NEW e \in Updates, e.kind = "leave", e.name = n
        PROVE  reported[n] # None /\ live[n] # reported[n]
    BY <2>1, <1>4, <1>5
  <2>2. ASSUME reported[n] # None, live[n] # reported[n]
        PROVE  \E e \in Updates : e.kind = "leave" /\ e.name = n
    <3>1. Out(n) \in Updates
      BY <2>2, <1>3
    <3> WITNESS Out(n) \in Updates
    <3> QED BY <1>4
  <2> QED BY <2>1, <2>2
<1> HIDE DEF TypeOK, Entry
<1> QED BY <1>6, <1>7, <1>8, <1>9, Zenon

LEMMA NoUpdates ==
    ASSUME TypeOK
    PROVE  Updates = {} <=> live = reported
<1>1. ASSUME Updates = {}, NEW n \in Names PROVE live[n] = reported[n]
  BY <1>1, UpdatesAre
<1>2. ASSUME live = reported PROVE Updates = {}
  BY <1>2, UpdatesAre DEF Events
<1> QED BY <1>1, <1>2 DEF TypeOK

LEMMA InitInv == Init => IInv
<1> SUFFICES ASSUME Init PROVE IInv
  OBVIOUS
<1> USE WatcherAssumption
<1>1. TypeOK
  BY DEF Init, TypeOK, Entry, Ops, Outcomes, Events
<1>2. LockDiscipline
  BY DEF Init, LockDiscipline
<1>3. OneName
  BY DEF Init, OneName, Denotes
<1>4. BatchPending
  BY DEF Init, BatchPending, Leaving, Entering
<1>5. Inverse
  BY DEF Init, Inverse
<1>6. ReadsFresh /\ AnswersFresh
  BY DEF Init, ReadsFresh, AnswersFresh
<1>7. UpdateNeverFails
  BY DEF Init, UpdateNeverFails
<1> QED BY <1>1, <1>2, <1>3, <1>4, <1>5, <1>6, <1>7 DEF IInv

(* With the order LeaveFirst, a `leave` finds its entry under the name the  *)
(* update set means.                                                       *)
LEMMA LeaveFinds ==
    ASSUME IInv, NEW e \in batch, e.kind = "leave"
    PROVE  networkToName[e.net] = e.name /\ networks[e.name] = e.net /\ ~LeaveFails(e)
<1> USE WatcherAssumption
<1>1. e \in Events
  BY DEF IInv, TypeOK
<1>2. e.net \in Nets /\ e.name \in Names
  BY <1>1 DEF Events
<1>3. networks[e.name] = e.net
  BY DEF IInv, BatchPending
<1>4. networkToName[e.net] = e.name
  BY <1>2, <1>3 DEF IInv, Inverse
<1>5. networks[e.name] # None
  BY <1>2, <1>3
<1> QED BY <1>3, <1>4, <1>5 DEF LeaveFails

CacheInv == OneName /\ BatchPending /\ Inverse

(* Calls, locking and reads leave vCenter, the collector and the cache alone. *)
LEMMA CacheUntouched ==
    ASSUME CacheInv, UNCHANGED <<live, used, reported, networks, networkToName, batch>>
    PROVE  CacheInv'
BY DEF CacheInv, OneName, Denotes, BatchPending, Inverse, Leaving, Entering

LEMMA AppearsInv ==
    ASSUME IInv, NEW n \in Names, NEW o \in Nets, Appears(n, o)
    PROVE  IInv'
<1> USE WatcherAssumption DEF IInv
<1>1. TypeOK'
  BY DEF Appears, Observe, TypeOK, Entry, vcenterVars, cacheVars, callVars
<1>2. LockDiscipline'
  BY DEF Appears, LockDiscipline, cacheVars
<1>3. OneName'
  <2>1. \A m \in Names : ~Denotes(m, o)
    BY DEF Appears, OneName
  <2>2. \A m \in Names, p \in Nets :
            Denotes(m, p)' => Denotes(m, p) \/ (m = n /\ p = o)
    BY DEF Appears, Denotes, cacheVars, TypeOK
  <2>3. used' = used \cup {o}
    BY DEF Appears
  <2> QED BY <2>1, <2>2, <2>3 DEF OneName
<1>4. BatchPending' /\ Inverse'
  BY DEF Appears, BatchPending, Inverse, Leaving, Entering, cacheVars
<1>5. ReadsFresh'
  BY DEF Appears, Observe, ReadsFresh, Leaving, cacheVars, callVars, TypeOK, Entry
<1>6. AnswersFresh'
  BY DEF Appears, Observe, AnswersFresh, cacheVars, callVars, TypeOK
<1>7. UpdateNeverFails'
  BY DEF Appears, UpdateNeverFails, callVars
<1> QED BY <1>1, <1>2, <1>3, <1>4, <1>5, <1>6, <1>7

LEMMA DisappearsInv ==
    ASSUME IInv, NEW n \in Names, Disappears(n)
    PROVE  IInv'
<1> USE WatcherAssumption DEF IInv
<1>1. TypeOK'
  BY DEF Disappears, Observe, TypeOK, Entry, vcenterVars, cacheVars, callVars
<1>2. LockDiscipline'
  BY DEF Disappears, LockDiscipline, cacheVars
<1>3. OneName'
  <2>1. \A m \in Names, p \in Nets : Denotes(m, p)' => Denotes(m, p)
    BY DEF Disappears, Denotes, cacheVars, TypeOK
  <2> QED BY <2>1 DEF OneName, Disappears
<1>4. BatchPending' /\ Inverse'
  BY DEF Disappears, BatchPending, Inverse, Leaving, Entering, cacheVars
<1>5. ReadsFresh'
  BY DEF Disappears, Observe, ReadsFresh, Leaving, cacheVars, callVars, TypeOK, Entry
<1>6. AnswersFresh'
  BY DEF Disappears, Observe, AnswersFresh, cacheVars, callVars, TypeOK
<1>7. UpdateNeverFails'
  BY DEF Disappears, UpdateNeverFails, callVars
<1> QED BY <1>1, <1>2, <1>3, <1>4, <1>5, <1>6, <1>7

LEMMA FetchInv ==
    ASSUME IInv, NEW c \in Callers, Fetch(c)
    PROVE  IInv'
<1> USE WatcherAssumption DEF IInv
<1>1. lockOwner = c /\ batch = {}
  BY DEF Fetch, LockDiscipline
<1>2. networks = reported
  BY <1>1 DEF BatchPending, Leaving, Entering, TypeOK
<1>3. TypeOK'
  BY UpdatesAre DEF Fetch, TypeOK, vcenterVars, callVars
<1>4. LockDiscipline'
  BY <1>1 DEF Fetch, LockDiscipline, TypeOK, callVars
<1>5. OneName'
  <2>1. \A e \in batch' : live[e.name] = e.net \/ reported[e.name] = e.net
    BY UpdatesAre DEF Fetch, Events
  <2>2. \A m \in Names, p \in Nets : Denotes(m, p)' => Denotes(m, p)
    BY <2>1 DEF Fetch, Denotes, vcenterVars
  <2> QED BY <2>2 DEF OneName, Fetch, vcenterVars
<1>6. BatchPending'
  <2>1. \A e \in batch' : e.kind = "leave" => networks'[e.name] = e.net
    BY <1>2, UpdatesAre DEF Fetch
  <2>2. \A e \in batch' : e.kind = "enter" => reported'[e.name] = e.net
    BY UpdatesAre DEF Fetch
  <2>3. \A n \in Names : Leaving(n)' <=> reported[n] # None /\ live[n] # reported[n]
    BY UpdatesAre DEF Fetch, Leaving
  <2>4. \A n \in Names : Entering(n)' <=> live[n] # None /\ live[n] # reported[n]
    BY UpdatesAre DEF Fetch, Entering
  <2>5. networks' = reported /\ reported' = live
    BY <1>2 DEF Fetch
  <2> QED BY <2>1, <2>2, <2>3, <2>4, <2>5 DEF BatchPending
<1>7. Inverse'
  BY DEF Fetch, Inverse
<1>8. ReadsFresh'
  BY <1>2, UpdatesAre DEF Fetch, ReadsFresh, Leaving, vcenterVars, callVars, TypeOK
<1>9. AnswersFresh' /\ UpdateNeverFails'
  BY DEF Fetch, AnswersFresh, UpdateNeverFails, callVars, TypeOK
<1> QED BY <1>3, <1>4, <1>5, <1>6, <1>7, <1>8, <1>9

(* Applying a `leave`: the entry is there and goes away; the name stays     *)
(* absent until its `enter`, if there is one, is applied.                  *)
LEMMA ApplyLeaveInv ==
    ASSUME IInv, NEW c \in Callers, NEW e \in batch, Apply(c, e), e.kind = "leave"
    PROVE  IInv'
<1> USE WatcherAssumption DEF IInv
<1>1. e \in Events /\ e.net \in Nets /\ e.name \in Names
  BY DEF TypeOK, Events
<1>2. networkToName[e.net] = e.name /\ networks[e.name] = e.net
  BY LeaveFinds
<1>3. /\ networks' = [networks EXCEPT ![e.name] = None]
      /\ networkToName' = [networkToName EXCEPT ![e.net] = None]
      /\ batch' = batch \ {e}
      /\ UNCHANGED <<live, used, reported>>
  BY <1>1, <1>2 DEF Apply, Leave, vcenterVars
<1>4. /\ pc' = [pc EXCEPT ![c] = IF batch = {e} THEN "fetch" ELSE "apply"]
      /\ pc[c] = "apply"
      /\ UNCHANGED <<lockOwner, op, arg, polls, result, calls, seen>>
  BY DEF Apply, callVars
<1>5. TypeOK'
  BY <1>1, <1>3, <1>4 DEF TypeOK, Entry
<1>6. LockDiscipline'
  BY <1>3, <1>4 DEF LockDiscipline, TypeOK
<1>7. OneName'
  <2>1. \A m \in Names, p \in Nets : Denotes(m, p)' => Denotes(m, p)
    BY <1>3 DEF Denotes, TypeOK
  <2> QED BY <1>3, <2>1 DEF OneName
<1>8. BatchPending'
  <2>1. \A f \in batch : f.kind = "leave" /\ f.name = e.name => f = e
    BY <1>1, <1>2 DEF BatchPending, TypeOK, Events
  <2>2. ~Leaving(e.name)'
    BY <1>3, <2>1 DEF Leaving
  <2>3. \A n \in Names : n # e.name => (Leaving(n)' <=> Leaving(n))
    BY <1>3 DEF Leaving
  <2>4. \A n \in Names : Entering(n)' <=> Entering(n)
    BY <1>3 DEF Entering
  <2>5. Leaving(e.name)
    BY DEF Leaving
  <2>6. \A f \in batch' : f.kind = "leave" => networks'[f.name] = f.net
    BY <1>1, <1>3, <2>1 DEF BatchPending, TypeOK, Events
  <2>7. \A f \in batch' : f.kind = "enter" => reported'[f.name] = f.net
    BY <1>3 DEF BatchPending
  <2>8. \A n \in Names : ~Leaving(n)' =>
            networks'[n] = IF Entering(n)' THEN None ELSE reported'[n]
    BY <1>1, <1>3, <2>2, <2>3, <2>4, <2>5 DEF BatchPending, TypeOK
  <2>9. \A n \in Names : Leaving(n)' /\ ~Entering(n)' => reported'[n] = None
    BY <1>3, <2>2, <2>3, <2>4 DEF BatchPending
  <2> QED BY <2>6, <2>7, <2>8, <2>9 DEF BatchPending
<1>9. Inverse'
  BY <1>1, <1>2, <1>3 DEF Inverse, TypeOK
<1>10. ReadsFresh'
  <2>1. \A n \in Names : Leaving(n)' => Leaving(n)
    BY <1>3 DEF Leaving
  <2>2. Leaving(e.name)
    BY DEF Leaving
  <2> QED BY <1>1, <1>3, <1>4, <2>1, <2>2 DEF ReadsFresh, TypeOK
<1>11. AnswersFresh' /\ UpdateNeverFails'
  BY <1>4 DEF AnswersFresh, UpdateNeverFails, TypeOK
<1> QED BY <1>5, <1>6, <1>7, <1>8, <1>9, <1>10, <1>11

(* Applying an `enter`: the order guarantees that the name is free. *)
LEMMA ApplyEnterInv ==
    ASSUME IInv, LeaveFirst, NEW c \in Callers, NEW e \in batch, Apply(c, e),
           e.kind = "enter"
    PROVE  IInv'
<1> USE WatcherAssumption DEF IInv
<1>1. e \in Events /\ e.net \in Nets /\ e.name \in Names
  BY DEF TypeOK, Events
<1>2. ~Leaving(e.name) /\ Entering(e.name)
  BY DEF Apply, MayBeNext, Leaving, Entering
<1>3. networks[e.name] = None /\ reported[e.name] = e.net
  BY <1>1, <1>2 DEF BatchPending
<1>4. networkToName[e.net] = None
  <2> SUFFICES ASSUME NEW m \in Names, networkToName[e.net] = m PROVE FALSE
    BY <1>1 DEF TypeOK
  <2>1. networks[m] = e.net
    BY <1>1 DEF Inverse
  <2>2. Denotes(m, e.net) /\ Denotes(e.name, e.net)
    BY <2>1 DEF Denotes
  <2> QED BY <1>1, <1>3, <2>1, <2>2 DEF OneName
<1>5. /\ networks' = [networks EXCEPT ![e.name] = e.net]
      /\ networkToName' = [networkToName EXCEPT ![e.net] = e.name]
      /\ batch' = batch \ {e}
      /\ UNCHANGED <<live, used, reported>>
  BY DEF Apply, Enter, vcenterVars
<1>6. /\ pc' = [pc EXCEPT ![c] = IF batch = {e} THEN "fetch" ELSE "apply"]
      /\ pc[c] = "apply"
      /\ UNCHANGED <<lockOwner, op, arg, polls, result, calls, seen>>
  BY DEF Apply, callVars
<1>7. TypeOK'
  BY <1>1, <1>5, <1>6 DEF TypeOK, Entry
<1>8. LockDiscipline'
  BY <1>5, <1>6 DEF LockDiscipline, TypeOK
<1>9. OneName'
  <2>1. \A m \in Names, p \in Nets : Denotes(m, p)' => Denotes(m, p)
    BY <1>1, <1>5 DEF Denotes, TypeOK
  <2> QED BY <1>5, <2>1 DEF OneName
<1>10. BatchPending'
  <2>1. \A f \in batch : f.kind = "enter" /\ f.name = e.name => f = e
    BY <1>1, <1>3 DEF BatchPending, TypeOK, Events
  <2>2. ~Entering(e.name)' /\ ~Leaving(e.name)'
    BY <1>2, <1>5, <2>1 DEF Entering, Leaving
  <2>3. \A n \in Names : n # e.name => (Entering(n)' <=> Entering(n))
    BY <1>5 DEF Entering
  <2>4. \A n \in Names : Leaving(n)' <=> Leaving(n)
    BY <1>5 DEF Leaving
  <2>5. \A f \in batch' : f.kind = "leave" => networks'[f.name] = f.net
    BY <1>1, <1>2, <1>5 DEF BatchPending, TypeOK, Events, Leaving
  <2>6. \A f \in batch' : f.kind = "enter" => reported'[f.name] = f.net
    BY <1>5 DEF BatchPending
  <2>7. \A n \in Names : ~Leaving(n)' =>
            networks'[n] = IF Entering(n)' THEN None ELSE reported'[n]
    BY <1>1, <1>3, <1>5, <2>2, <2>3, <2>4 DEF BatchPending, TypeOK
  <2>8. \A n \in Names : Leaving(n)' /\ ~Entering(n)' => reported'[n] = None
    BY <1>5, <2>2, <2>3, <2>4 DEF BatchPending
  <2> QED BY <2>5, <2>6, <2>7, <2>8 DEF BatchPending
<1>11. Inverse'
  BY <1>1, <1>3, <1>4, <1>5 DEF Inverse, TypeOK
<1>12. ReadsFresh'
  <2>1. \A n \in Names : Leaving(n)' => Leaving(n)
    BY <1>5 DEF Leaving
  <2> QED BY <1>1, <1>3, <1>5, <1>6, <2>1 DEF ReadsFresh, TypeOK
<1>13. AnswersFresh' /\ UpdateNeverFails'
  BY <1>6 DEF AnswersFresh, UpdateNeverFails, TypeOK
<1> QED BY <1>7, <1>8, <1>9, <1>10, <1>11, <1>12, <1>13

LEMMA DrainedInv ==
    ASSUME IInv, NEW c \in Callers, Drained(c)
    PROVE  IInv'
<1> USE WatcherAssumption DEF IInv
<1>1. lockOwner = c /\ batch = {} /\ pc[c] = "fetch"
  BY DEF Drained, LockDiscipline
<1>2. networks = reported
  BY <1>1 DEF BatchPending, Leaving, Entering, TypeOK
<1>3. live = reported
  BY NoUpdates DEF Drained
<1>4. TypeOK'
  BY DEF Drained, TypeOK, Ops, vcenterVars, cacheVars
<1>5. LockDiscipline'
  BY <1>1 DEF Drained, LockDiscipline, TypeOK, cacheVars
<1>6. CacheInv'
  BY CacheUntouched DEF CacheInv, Drained, vcenterVars, cacheVars
<1>7. ReadsFresh'
  BY <1>1, <1>2, <1>3 DEF Drained, ReadsFresh, Leaving, TypeOK, vcenterVars, cacheVars
<1>8. AnswersFresh' /\ UpdateNeverFails'
  BY DEF Drained, AnswersFresh, UpdateNeverFails, TypeOK
<1> QED BY <1>4, <1>5, <1>6, <1>7, <1>8 DEF CacheInv

(* Steps of a thread that touch neither vCenter nor the cache. *)
LEMMA ReadInv ==
    ASSUME IInv, NEW c \in Callers,
           \/ Populated(c) \/ ReadEntry(c) \/ CheckAppeared(c)
           \/ CopyNames(c) \/ Yield(c)
    PROVE  IInv'
<1> USE WatcherAssumption DEF IInv
<1>1. /\ UNCHANGED <<live, used, reported, networks, networkToName, batch, lockOwner>>
      /\ UNCHANGED <<arg, calls, seen>>
  BY DEF Populated, ReadEntry, CheckAppeared, CopyNames, Yield, vcenterVars, cacheVars
<1>2. pc[c] \in {"read", "yield"}
  BY DEF Populated, ReadEntry, CheckAppeared, CopyNames, Yield
<1>3. /\ \/ /\ result' = result
            /\ \E l \in {"update", "yield"} : pc' = [pc EXCEPT ![c] = l]
         \/ /\ \E r \in {networks[arg[c]], "done", "lookup_failed"} :
                  result' = [result EXCEPT ![c] = r]
            /\ pc' = [pc EXCEPT ![c] = "returned"]
      /\ op' = op \/ op' = [op EXCEPT ![c] = "get_network"]
  <2> USE DEF Finish
  <2>1. CASE Populated(c)
    BY <2>1 DEF Populated
  <2>2. CASE ReadEntry(c)
    BY <2>2 DEF ReadEntry
  <2>3. CASE CheckAppeared(c)
    <3>1. result' = result /\ pc' = [pc EXCEPT ![c] = "update"]
      BY <2>3 DEF CheckAppeared
    <3>2. op' = op \/ op' = [op EXCEPT ![c] = "get_network"]
      BY <2>3 DEF CheckAppeared
    <3> QED BY <3>1, <3>2
  <2>4. CASE CopyNames(c)
    BY <2>4 DEF CopyNames
  <2>5. CASE Yield(c)
    BY <2>5 DEF Yield
  <2> QED BY <2>1, <2>2, <2>3, <2>4, <2>5
<1>4. polls' \in [Callers -> 0 .. MaxPolls]
  BY DEF Populated, ReadEntry, CheckAppeared, CopyNames, Yield, TypeOK
<1>5. networks[arg[c]] \in Entry
  BY DEF TypeOK
<1>6. TypeOK'
  BY <1>1, <1>3, <1>4, <1>5 DEF TypeOK, Ops, Outcomes
<1>7. LockDiscipline'
  BY <1>1, <1>2, <1>3 DEF LockDiscipline, TypeOK
<1>8. CacheInv'
  BY <1>1, CacheUntouched DEF CacheInv
<1>9. ReadsFresh'
  BY <1>1, <1>2, <1>3 DEF ReadsFresh, Leaving, TypeOK
<1>10. networks[arg[c]] \in seen[c]
  BY <1>2 DEF ReadsFresh
<1>11. AnswersFresh'
  <2> SUFFICES ASSUME NEW d \in Callers, pc'[d] = "returned", result'[d] \in Entry
               PROVE  result'[d] \in seen[d]
    BY <1>1 DEF AnswersFresh
  <2>1. CASE d # c
    BY <1>3, <2>1 DEF AnswersFresh, TypeOK
  <2>2. CASE d = c
    <3>1. result'[c] \in {networks[arg[c]], "done", "lookup_failed"}
      BY <1>3, <2>2 DEF TypeOK
    <3>2. result'[c] = networks[arg[c]]
      BY <2>2, <3>1 DEF Entry
    <3> QED BY <1>10, <2>2, <3>2
  <2> QED BY <2>1, <2>2
<1>12. UpdateNeverFails'
  BY <1>1, <1>3, <1>5 DEF UpdateNeverFails, TypeOK, Entry
<1> QED BY <1>6, <1>7, <1>8, <1>9, <1>11, <1>12 DEF CacheInv

LEMMA CallInv ==
    ASSUME IInv, NEW c \in Callers, NEW o \in Ops, NEW n \in Names, Call(c, o, n)
    PROVE  IInv'
<1> USE WatcherAssumption DEF IInv
<1>1. TypeOK'
  BY DEF Call, TypeOK, Entry, vcenterVars, cacheVars
<1>2. LockDiscipline'
  BY DEF Call, LockDiscipline, TypeOK, cacheVars
<1>3. CacheInv'
  BY CacheUntouched DEF CacheInv, Call, vcenterVars, cacheVars
<1>4. ReadsFresh' /\ AnswersFresh' /\ UpdateNeverFails'
  BY DEF Call, ReadsFresh, AnswersFresh, UpdateNeverFails, Leaving, TypeOK,
         vcenterVars, cacheVars
<1> QED BY <1>1, <1>2, <1>3, <1>4 DEF CacheInv

LEMMA AcquireInv ==
    ASSUME IInv, NEW c \in Callers, AcquireLock(c)
    PROVE  IInv'
<1> USE WatcherAssumption DEF IInv
<1>1. TypeOK'
  BY DEF AcquireLock, TypeOK, vcenterVars, cacheVars, callVars
<1>2. LockDiscipline'
  BY DEF AcquireLock, LockDiscipline, TypeOK, cacheVars
<1>3. CacheInv'
  BY CacheUntouched DEF CacheInv, AcquireLock, vcenterVars, cacheVars
<1>4. ReadsFresh' /\ AnswersFresh' /\ UpdateNeverFails'
  BY DEF AcquireLock, ReadsFresh, AnswersFresh, UpdateNeverFails, Leaving, TypeOK,
         vcenterVars, cacheVars, callVars
<1> QED BY <1>1, <1>2, <1>3, <1>4 DEF CacheInv

LEMMA ReturnInv ==
    ASSUME IInv, NEW c \in Callers, Return(c)
    PROVE  IInv'
<1> USE WatcherAssumption DEF IInv
<1>1. TypeOK'
  BY DEF Return, TypeOK, Ops, Outcomes, vcenterVars, cacheVars
<1>2. LockDiscipline'
  BY DEF Return, LockDiscipline, TypeOK, cacheVars
<1>3. CacheInv'
  BY CacheUntouched DEF CacheInv, Return, vcenterVars, cacheVars
<1>4. ReadsFresh' /\ AnswersFresh' /\ UpdateNeverFails'
  BY DEF Return, ReadsFresh, AnswersFresh, UpdateNeverFails, Leaving, TypeOK,
         vcenterVars, cacheVars
<1> QED BY <1>1, <1>2, <1>3, <1>4 DEF CacheInv

LEMMA StepInv ==
    ASSUME LeaveFirst
    PROVE  IInv /\ [Next]_vars => IInv'
<1> SUFFICES ASSUME IInv, [Next]_vars PROVE IInv'
  OBVIOUS
<1>1. CASE UNCHANGED vars
  BY <1>1 DEF vars, IInv, TypeOK, LockDiscipline, OneName, Denotes, BatchPending,
              Leaving, Entering, Inverse, ReadsFresh, AnswersFresh, UpdateNeverFails
<1>2. ASSUME NEW c \in Callers, NEW e \in batch, Apply(c, e) PROVE IInv'
  <2>1. e.kind \in {"enter", "leave"}
    BY DEF IInv, TypeOK, Events
  <2> QED BY <1>2, <2>1, ApplyEnterInv, ApplyLeaveInv
<1>3. ASSUME NEW c \in Callers, NEW e \in batch, ApplyFails(c, e) PROVE IInv'
  BY <1>3, LeaveFinds DEF ApplyFails, LeaveFails
<1>4. ASSUME NEW c \in Callers, Step(c) PROVE IInv'
  <2>1. CASE AcquireLock(c)
    BY <2>1, AcquireInv
  <2>2. CASE Fetch(c)
    BY <2>2, FetchInv
  <2>3. CASE Drained(c)
    BY <2>3, DrainedInv
  <2>4. CASE Populated(c) \/ ReadEntry(c) \/ CheckAppeared(c) \/ CopyNames(c) \/ Yield(c)
    BY <2>4, ReadInv
  <2>5. CASE Return(c)
    BY <2>5, ReturnInv
  <2> QED BY <1>2, <1>3, <1>4, <2>1, <2>2, <2>3, <2>4, <2>5 DEF Step
<1> QED
  BY <1>1, <1>4, AppearsInv, DisappearsInv, CallInv DEF Next

LEMMA Invariance ==
    ASSUME LeaveFirst
    PROVE  Spec => []IInv
<1>1. IInv /\ [Next]_vars => IInv'
  BY StepInv
<1> QED BY InitInv, <1>1, PTL DEF Spec

\* Between update sets the cache and its inverse are exactly what vCenter has
\* reported, if a name's `leave` precedes its `enter`
\* (network_watcher.py:128-143).
THEOREM CacheIsExact ==
    ASSUME LeaveFirst
    PROVE  Spec => []CacheExact
<1>1. IInv => CacheExact
  <2> SUFFICES ASSUME IInv, batch = {}
               PROVE  networks = reported /\ networkToName = InverseOf(reported)
    BY DEF CacheExact
  <2> USE WatcherAssumption DEF IInv
  <2>1. networks = reported
    BY DEF BatchPending, Leaving, Entering, TypeOK
  <2>2. ASSUME NEW o \in Nets PROVE networkToName[o] = InverseOf(reported)[o]
    <3>1. CASE \E n \in Names : reported[n] = o
      <4> DEFINE m == CHOOSE n \in Names : reported[n] = o
      <4>1. m \in Names /\ reported[m] = o
        BY <3>1
      <4>2. networkToName[o] = m
        BY <2>1, <4>1 DEF Inverse
      <4> QED BY <3>1, <4>2 DEF InverseOf
    <3>2. CASE ~\E n \in Names : reported[n] = o
      <4>1. networkToName[o] = None
        BY <2>1, <3>2 DEF Inverse, TypeOK
      <4> QED BY <3>2, <4>1 DEF InverseOf
    <3> QED BY <3>1, <3>2
  <2>3. networkToName = InverseOf(reported)
    BY <2>2 DEF InverseOf, TypeOK
  <2> QED BY <2>1, <2>3
<1> QED BY <1>1, Invariance, PTL

\* What a lookup hands out was true in vCenter at a moment of the call, under
\* any interleaving of the threads that share the watcher
\* (network_watcher.py:91-122).
THEOREM LookupsFresh ==
    ASSUME LeaveFirst
    PROVE  Spec => []AnswersFresh
<1>1. IInv => AnswersFresh
  BY DEF IInv
<1> QED BY <1>1, Invariance, PTL

\* Draining the collector raises no KeyError (network_watcher.py:139-143).
THEOREM UpdatesSucceed ==
    ASSUME LeaveFirst
    PROVE  Spec => []UpdateNeverFails
<1>1. IInv => UpdateNeverFails
  BY DEF IInv
<1> QED BY <1>1, Invariance, PTL
=============================================================================
