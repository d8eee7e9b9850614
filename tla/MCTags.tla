------------------------------- MODULE MCTags -------------------------------
(* Small instances of Tags: with and without the other process. *)
EXTENDS Tags

CONSTANTS n1, n2, o1, i1

VARIABLE alone      \* chosen at first: the other process does not run

(* Every object is in the same sandbox (n1); o1 also has an owner of its own. *)
MCWanted == [o \in Objects |-> IF o = o1 THEN Names ELSE {n1}]

(* The other process leaves identifier i1 to this one.                      *)
OtherElsewhere ==
    \E i \in Ids \ {i1} :
        \/ ForeignAttaches(i) \/ ForeignLeaves(i) \/ ForeignDeletes(i)
        \/ \E n \in Names : ForeignCreates(i, n)

MCInit == Init /\ alone \in BOOLEAN
MCNext == UNCHANGED alone /\ (Commands \/ (~alone /\ OtherElsewhere))
MCSpec == MCInit /\ [][MCNext]_<<vars, alone>> /\ Fairness

\* With no other process, which might use up the identifiers of the instance,
\* every command ends.
CommandsEndAlone == alone => CommandsEnd
=============================================================================
