---------------------------- MODULE AffinityRules ----------------------------
(***************************************************************************)
(* flows/affinity_rules_flow.py with handlers/cluster_specs.py and the     *)
(* rules of handlers/cluster_handler.py: commands that put VMs into one of *)
(* a cluster's affinity rules, found by its name, or into a rule of their  *)
(* own.  Rules are read, edited and written back by key without a lock.    *)
(* The cluster is vCenter's (external): a rule may be disabled because it  *)
(* conflicts with another, a second rule of one name refused or not.       *)
(*                                                                         *)
(* Names are numbers: 0 stands for the reservation's id, k for             *)
(* "<reservation id> (k)".                                                 *)
(***************************************************************************)
EXTENDS Naturals, Sequences

CONSTANTS Cmds,
          Asks,         \* what each command may ask for: VMs, and a rule's name
          Generate      \* in place of a name: one is generated

RulesAssumption ==
    Generate \in Nat /\ \A c \in Cmds : \A r \in Asks[c] : r.given \in Nat

VARIABLES
    rules,      \* vCenter: the cluster's rules; a rule's key is its place
    job         \* per command: its locals

vars == <<rules, job>>
Over == {"done", "failed"}

Init ==
    /\ rules = <<>>
    /\ job = [c \in Cmds |-> [pc |-> "new", vms |-> {}, given |-> Generate, name |-> 0,
                              key |-> 0, enabled |-> FALSE, with |-> {}]]

At(c, label) == job[c].pc = label
Update(c, j) == job' = [job EXCEPT ![c] = j]
Goto(c, label) == Update(c, [job[c] EXCEPT !.pc = label])
Running == {c \in Cmds : job[c].pc \notin {"new"} \cup Over}
Named(n) == {k \in DOMAIN rules : rules[k].name = n}

(* get_affinity_rule returns the first of the name; 0 is not found.        *)
RuleOf(n) == IF Named(n) = {} THEN 0 ELSE CHOOSE k \in Named(n) : \A i \in Named(n) : k <= i

(* `with` is history: who else was at work meanwhile. *)
Begin(c) ==
    \E r \in Asks[c] :
        /\ At(c, "new")
        /\ job' = [d \in Cmds |->
              IF d = c
              THEN [job[c] EXCEPT !.pc = IF r.given = Generate THEN "name" ELSE "get",
                                  !.given = r.given, !.vms = r.vms, !.with = Running,
                                  !.name = IF r.given = Generate THEN 0 ELSE r.given]
              ELSE IF d \in Running THEN [job[d] EXCEPT !.with = @ \cup {c}] ELSE job[d]]
        /\ UNCHANGED rules

(* Fault: the VMs of the rule are not read. *)
GetRuleAlone(c) ==
    LET k == RuleOf(job[c].name) IN
    /\ At(c, "get")
    /\ Update(c, [job[c] EXCEPT !.pc = IF k = 0 THEN "add" ELSE "edit", !.key = k,
                                 !.enabled = k # 0])
    /\ UNCHANGED rules

(* _add_vms_to_existing_affinity_rule, or AffinityRuleNotFound.            *)
GetRule(c) ==
    LET k == RuleOf(job[c].name) IN
    /\ At(c, "get")
    /\ Update(c, IF k = 0 THEN [job[c] EXCEPT !.pc = "add"]
                 ELSE [job[c] EXCEPT !.pc = "edit", !.key = k, !.vms = @ \cup rules[k].vms,
                                     !.enabled = rules[k].enabled])
    /\ UNCHANGED rules

(* Fault: the first name is taken as it is. *)
TakeFirstName(c) ==
    /\ At(c, "name")
    /\ Goto(c, "add")
    /\ UNCHANGED rules

(* _get_new_affinity_rule_name: one look per candidate.                    *)
TryName(c) ==
    /\ At(c, "name")
    /\ IF Named(job[c].name) = {} THEN Goto(c, "add")
       ELSE Update(c, [job[c] EXCEPT !.name = @ + 1])
    /\ UNCHANGED rules

(* The task fails, which it may for a name that is taken, or adds the rule.*)
AddRule(c) ==
    /\ At(c, "add")
    /\ \/ \E enabled \in BOOLEAN :
            rules' = Append(rules, [name |-> job[c].name, vms |-> job[c].vms,
                                    enabled |-> enabled])
          /\ Goto(c, "verify")
       \/ Named(job[c].name) # {} /\ Goto(c, "failed") /\ UNCHANGED rules

(* All of the rule is written as it was read; a conflict disables it.      *)
EditRule(c) ==
    /\ At(c, "edit")
    /\ \E enabled \in {job[c].enabled, FALSE} :
          rules' = [rules EXCEPT ![job[c].key] =
                        [@ EXCEPT !.vms = job[c].vms, !.enabled = enabled]]
    /\ Goto(c, "verify")

(* _add_rules reads the rule back: AffinityRulesHasConflicts if disabled.  *)
Verify(c) ==
    /\ At(c, "verify")
    /\ Goto(c, IF rules[RuleOf(job[c].name)].enabled THEN "done" ELSE "failed")
    /\ UNCHANGED rules

Working(c) ==
    \/ GetRule(c)
    \/ TryName(c)
    \/ AddRule(c)
    \/ EditRule(c)
    \/ Verify(c)

Next == \E c \in Cmds : Begin(c) \/ Working(c)
Fairness == \A c \in Cmds : WF_vars(Working(c))
Spec == Init /\ [][Next]_vars /\ Fairness

-----------------------------------------------------------------------------
\* A command that succeeds while no other is at work leaves its VMs in a rule
\* of its name, for good: later commands write back what they have read. A
\* generated name is its rule's alone, however many of the reservation's names
\* are taken (affinity_rules_flow.py:63-83).
RuleHasVms ==
    \A c \in Cmds :
        /\ At(c, "done")
        /\ job[c].with = {}
        => \E k \in Named(job[c].name) :
              /\ job[c].vms \subseteq rules[k].vms
              /\ job[c].given = Generate => Named(job[c].name) = {k}
=============================================================================
