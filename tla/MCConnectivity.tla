-------------------------- MODULE MCConnectivity --------------------------
(* Small instances of Connectivity.  All generated networks have one VLAN;  *)
(* v1 and v2 are in one sandbox, v3 is in another; v1 is on h1, the others  *)
(* are on h2.                                                               *)
EXTENDS Connectivity, TLC

CONSTANTS v1, v2, v3, h1, h2, mine, other, vlan

MCHostOf == [v \in Vms |-> IF v = v1 THEN h1 ELSE h2]
MCSandboxOf == [v \in Vms |-> IF v = v3 THEN other ELSE mine]
MCVlanOf == [n \in Shared \cup Exclusive |-> vlan]

Request(kinds, nets, vms) ==
    {[kind |-> k, net |-> n, vms |-> V] : k \in kinds, n \in nets,
                                          V \in (SUBSET vms) \ {{}}}
AnyRequest == Request({"set", "remove"}, Shared \cup Exclusive \cup Existing, Vms)
RemoveBoth == {[kind |-> "remove", net |-> n, vms |-> {v1, v2}] : n \in Shared}

(* Safety alone, and from a state in which no network exists yet. *)
SafetySpec == Init /\ [][Next]_vars
UnusedSpec == Init /\ (\A v \in Vms : conn[v] = Holding) /\ [][Next]_vars

Interchangeable == Permutations(Flows)
============================================================================
