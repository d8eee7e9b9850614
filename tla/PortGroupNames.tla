--------------------------- MODULE PortGroupNames ---------------------------
(***************************************************************************)
(* utils/connectivity_helpers.py and what connectivity_flow.py decides by  *)
(* names alone: which port group serves a request, which ones an exclusive *)
(* or a shared network drives out, which may be removed and which vNICs    *)
(* are free to use.  Requests are served one after the other here;         *)
(* Connectivity has their interleavings, for names given as constants.     *)
(*                                                                         *)
(* A name is a sequence of pieces, "_" one of them, and so is a switch's;  *)
(* mode is a piece, flags (forged transmits and the like) are some.  The   *)
(* library (external) asks for vNICs that get_vnics says may be used.      *)
(***************************************************************************)
EXTENDS Integers, Sequences

CONSTANTS
    Vnics,          \* vNICs of the VMs, and the sandboxes they belong to
    SandboxOf,
    Requests,       \* the attributes of VLAN services
    DefaultSwitch, DefaultFlags,    \* what the resource says otherwise
    Old,            \* settings of networks an earlier version has left behind
    Reserved,       \* names from "Reserved Networks"
    MaxLength       \* MAX_DVSWITCH_LENGTH, 60

VARIABLES
    pgs,        \* vCenter: the generated port groups, with their settings
    conn,       \* vCenter: the name of every vNIC's network
    asked       \* history: what was asked for, per vNIC, until another
                \* request may take it away

vars == <<pgs, conn, asked>>

Holding == <<"holding">>
Nothing == [switch |-> <<>>]

(* NetworkSettings.convert: what a request leaves open the resource tells;  *)
(* without any switch it is refused.  A flag is "yes", "no" or "unset".     *)
Switch(r) == IF r.switch = <<>> THEN DefaultSwitch ELSE r.switch
Flag(r, f) ==
    IF r.flags[f] = "yes" \/ (r.flags[f] = "unset" /\ DefaultFlags[f]) THEN <<f>> ELSE <<>>
Flags(r) == Flag(r, "F") \o Flag(r, "M") \o Flag(r, "P")
Convert(r) == [switch |-> Switch(r), vlan |-> r.vlan, mode |-> r.mode,
               exclusive |-> r.exclusive, flags |-> Flags(r)]
Settings == {Convert(r) : r \in {q \in Requests : Switch(q) # <<>>}}

Prefix(switch) == SubSeq(switch, 1, IF Len(switch) < MaxLength THEN Len(switch) ELSE MaxLength)

(* generate_port_group_name *)
OldName(s) == <<"QS", "_">> \o Prefix(s.switch) \o <<"_", "VLAN", "_">> \o s.vlan \o <<"_", s.mode>>

(* Fault: the flags of a shared network are left out. *)
NameWithoutFlags(s) == OldName(s) \o <<"_", IF s.exclusive THEN "E" ELSE "S">>

(* generate_port_group_name_v2 *)
Name(s) == OldName(s) \o <<"_", IF s.exclusive THEN "E" ELSE "S">> \o s.flags

Contains(name, part) ==
    \E i \in 0 .. Len(name) - Len(part) : SubSeq(name, i + 1, i + Len(part)) = part

(* is_network_generated_name: QS_.+_VLAN *)
IsGenerated(name) ==
    \E i \in 1 .. Len(name) - 4 :
        /\ name[i] = "QS" /\ name[i + 1] = "_"
        /\ \E j \in i + 4 .. Len(name) : name[j - 1] = "_" /\ name[j] = "VLAN"

(* check_pg_can_be_removed, of a network that is not an existing one *)
Removable(name) == IsGenerated(name)

(* _network_can_be_replaced *)
Replaceable(name) ==
    name = <<>> \/ name = Holding \/ (name \notin Reserved /\ ~IsGenerated(name))

(* Fault: the "_" after the VLAN is not looked for. *)
SameVlanPrefix(s, name) ==
    /\ Contains(name, <<"_">> \o s.switch \o <<"_", "VLAN", "_">> \o s.vlan)
    /\ IsGenerated(name)

(* same_vlan: with the switch's whole name. *)
SameVlan(s, name) ==
    /\ Contains(name, <<"_">> \o s.switch \o <<"_", "VLAN", "_">> \o s.vlan \o <<"_">>)
    /\ IsGenerated(name)

(* Fault: exclusive trunks are not looked for. *)
SameVlanAndExclusiveAccess(s, name) == SameVlan(s, name) /\ Contains(name, <<"Access", "_", "E">>)

(* same_vlan_and_exclusive *)
SaysExclusive(name) ==
    Contains(name, <<"Access", "_", "E">>) \/ Contains(name, <<"Trunk", "_", "E">>)
SameVlanAndExclusive(s, name) ==
    SameVlan(s, name) /\ SaysExclusive(name)

(* VLAN IDs are numbers, networks of earlier versions were shared ones, and *)
(* no switch is called after a network's mode ("Access_E").                 *)
AboutVlan(r) ==
    /\ r.switch \in Seq(STRING) /\ r.vlan \in Seq(STRING \ {"_", "VLAN"})
    /\ r.mode \in {"Access", "Trunk"} /\ r.exclusive \in BOOLEAN
RequestsAssumption ==
    /\ MaxLength \in Nat /\ DefaultSwitch \in Seq(STRING) /\ ~SaysExclusive(DefaultSwitch)
    /\ \A r \in Requests : AboutVlan(r) /\ ~SaysExclusive(r.switch)
    /\ \A s \in Old : AboutVlan(s) /\ s.switch # <<>> /\ ~s.exclusive

-----------------------------------------------------------------------------
Names == {p.name : p \in pgs}
Offered == {v \in Vnics : Replaceable(conn[v])}      \* get_vnics
Users(name) == {v \in Vnics : conn[v] = name}

Init ==
    \E old \in SUBSET Old :
        /\ pgs = {[name |-> OldName(s), of |-> s] : s \in old}
        /\ conn \in [Vnics -> {Holding, <<"lan">>} \cup Reserved \cup {OldName(s) : s \in old}]
        /\ asked = [v \in Vnics |-> Nothing]

(* _clear_networks_for_exclusive, _clear_exclusive_networks: the vNICs go   *)
(* to the holding network; from the network itself, if it is to be          *)
(* exclusive, those of other sandboxes do.                                  *)
Cleared(s) ==
    {n \in Names : IF s.exclusive THEN SameVlan(s, n) /\ n # Name(s)
                   ELSE SameVlanAndExclusive(s, n)}
Expelled(s, v) ==
    LET cleared == Cleared(s) IN
    {w \in Vnics : \/ conn[w] \in cleared
                   \/ s.exclusive /\ conn[w] = Name(s) /\ SandboxOf[w] # SandboxOf[v]}

Short(s) == Len(s.switch) <= MaxLength
SameVlanOf(s, t) == s.switch = t.switch /\ s.vlan = t.vlan

(* A vNIC loses its network to one of the same VLAN or name, and to one     *)
(* whose switch's name is found within the network's: that of "s" in "x_s". *)
Mistaken(t, s) ==
    /\ t.switch # s.switch
    /\ Contains(<<"_">> \o Prefix(t.switch) \o <<"_", "VLAN">>,
                <<"_">> \o s.switch \o <<"_", "VLAN">>)
MayLose(w, s) ==
    \/ asked[w] = Nothing
    \/ SameVlanOf(s, asked[w]) \/ Name(s) = Name(asked[w]) \/ Mistaken(asked[w], s)

(* _get_or_create_network, set_vlan *)
SetVlan(v, s) ==
    LET name == Name(s)
        cleared == Cleared(s)
        expelled == Expelled(s, v)
    IN
    /\ v \in Offered
    /\ pgs' = {p \in pgs : p.name \notin cleared}
                 \cup (IF name \in Names THEN {} ELSE {[name |-> name, of |-> s]})
    /\ conn' = [w \in Vnics |-> CASE w = v -> name
                                   [] w # v /\ w \in expelled -> Holding
                                   [] OTHER -> conn[w]]
    /\ asked' = [w \in Vnics |-> IF w = v THEN s ELSE IF w \in expelled /\ MayLose(w, s)
                                              THEN Nothing ELSE asked[w]]

(* An existing network that the user names is neither made nor cleared.     *)
SetExisting(v, name) ==
    /\ v \in Offered
    /\ conn' = [conn EXCEPT ![v] = name]
    /\ asked' = [asked EXCEPT ![v] = Nothing]
    /\ UNCHANGED pgs

(* remove_vlan, _remove_pg_with_checks: the network is removed if it is free*)
(* by now; if there is none, the one an earlier version made.               *)
RemoveVlan(v, s) ==
    LET name == IF Name(s) \in Names THEN Name(s) ELSE OldName(s) IN
    /\ asked[v] = s \/ conn[v] = OldName(s)
    /\ conn' = [conn EXCEPT ![v] = Holding]
    /\ asked' = [asked EXCEPT ![v] = Nothing]
    /\ pgs' = IF Users(name) \ {v} = {} /\ Removable(name)
              THEN {p \in pgs : p.name # name} ELSE pgs

Next ==
    \E v \in Vnics :
        \/ \E s \in Settings : SetVlan(v, s)
        \/ \E s \in Settings \cup Old : RemoveVlan(v, s)
        \/ \E name \in Reserved : SetExisting(v, name)

Spec == Init /\ [][Next]_vars

-----------------------------------------------------------------------------
\* A vNIC is on a network with the switch, VLAN, mode and settings that were
\* asked for it, unless the name of a switch was truncated, and stays there
\* until a network of its VLAN drives it out, or one of a switch whose name is
\* found within its own (connectivity_helpers.py:63-90,
\* connectivity_flow.py:410-449).
RightNetwork ==
    \A v \in Vnics : asked[v] # Nothing =>
        \E p \in pgs : /\ p.name = conn[v]
                       /\ p.of = asked[v] \/ ~Short(p.of) \/ ~Short(asked[v])

\* An exclusive network is the only one of its VLAN and switch, as the names
\* tell, if the switch's name is not truncated: matching uses the whole name,
\* the networks' names have its first MaxLength characters
\* (connectivity_flow.py:413-417, 442-449).
ExclusiveAlone ==
    \A p, q \in pgs :
        p.of.exclusive /\ SameVlanOf(p.of, q.of) /\ Short(p.of) => p.name = q.name
=============================================================================
