----------------------------- MODULE NamedMutex -----------------------------
(***************************************************************************)
(* What `LockHandler.lock(name)` (utils/threading.py) promises its         *)
(* callers: a family of mutexes, one per name, none of which has to be     *)
(* declared before it is used.  At most one thread is inside the `with`    *)
(* block of a name; blocks of different names do not exclude each other.   *)
(***************************************************************************)
CONSTANTS Threads, Names, Nobody

VARIABLE holder      \* holder[n]: the thread inside `with handler.lock(n)`

Init == holder = [n \in Names |-> Nobody]

Enter(t, n) ==
    /\ holder[n] = Nobody
    /\ \A m \in Names : holder[m] # t     \* no caller nests two names
    /\ holder' = [holder EXCEPT ![n] = t]

Leave(t, n) ==
    /\ holder[n] = t
    /\ holder' = [holder EXCEPT ![n] = Nobody]

Next == \E t \in Threads, n \in Names : Enter(t, n) \/ Leave(t, n)

Spec == Init /\ [][Next]_holder
=============================================================================
