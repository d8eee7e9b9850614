---------------------------- MODULE MCDeployment ----------------------------
(* Three apps of one sandbox: one cloned and customized, one cloned, one     *)
(* from an image; the second and the third are in one process.  Either no    *)
(* call raises, or those of the first and the third app may, and the second  *)
(* is not deployed.                                                          *)
EXTENDS Deployment

CONSTANTS a1, a2, a3, p1, p2, sandbox, n1, n2, n3

TwoProcesses == [a \in Apps |-> IF a = a1 THEN p1 ELSE p2]
OneSandbox == [a \in Apps |-> sandbox]
OwnName == [a \in Apps |-> CASE a = a1 -> n1 [] a = a2 -> n2 [] OTHER -> n3]

NoFaults == [a \in Apps |-> {}]
\* All but the lookup after ovftool, which has no rollback, and power_off,
\* without which a VM cannot be removed.
DeployFaults == [a \in Apps |-> IF a = a2 THEN {} ELSE Calls \ {"lookup", "power"}]

ASSUME PropertiesAssumption == UniqueNames /\ LookupSucceeds /\ PowerOffSucceeds

NoneOrDeployFaults == {NoFaults, DeployFaults}
TwoIfFaults == cmd[a1].faults # {} => ~Begin(a2)
MCSpec == Init /\ [][Next /\ TwoIfFaults]_vars /\ Fairness

OnlyNoFaults == {NoFaults}
=============================================================================
