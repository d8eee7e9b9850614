-------------------------- MODULE MCNetworkWatcher --------------------------
(* Two threads share the watcher while names are created, destroyed and     *)
(* created again.                                                           *)
EXTENDS NetworkWatcher, TLC

Interchangeable ==
    Permutations(Names) \cup Permutations(Nets) \cup Permutations(Callers)

(* Safety does not need the fairness of Spec, and symmetry excludes it. *)
SafetySpec == Init /\ [][Next]_vars
=============================================================================
