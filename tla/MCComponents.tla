---------------------------- MODULE MCComponents ----------------------------
(***************************************************************************)
(* Small instances of the parts.  There are four commands; those a part    *)
(* has no use for ask for nothing.                                         *)
(***************************************************************************)
EXTENDS Components, FiniteSetsExt

MCCmds == 1 .. 4

(* One command powers the VM or adds a vNIC, one customizes the guest, one  *)
(* does either or powers the VM off.                                        *)
MCPowerAsks ==
    LET vnic == [do : {"vnic"}, index : {2}]
        customize(sources, params, override) ==
            [do : {"customize"}, params : params, override : override, source : sources]
    IN  <<[do : {"on"}] \cup vnic,
          customize({"library"}, {TRUE}, BOOLEAN) \cup customize({"library"}, {FALSE}, {FALSE})
              \cup customize({"none", "own", "otherOS", "unknown"}, {TRUE}, {FALSE}),
          [do : {"on", "soft", "hard"}] \cup customize({"none"}, {TRUE}, {FALSE}), {}>>

(* Two commands; each grows a disk, shrinks it, adds one or several, on a   *)
(* VM with no disk, one, a linked one, or no SCSI controller; beside the one *)
(* is a drive with a file, or the disk is raw and beside it is a device that *)
(* has none.                                                                *)
Grow(n, size) == [num |-> n, size |-> size]
DiskSizes ==
    {<<Grow(n, size)>> : n \in 1 .. 3, size \in 1 .. 2}
        \cup {<<Grow(1, 2), Grow(2, 1)>>, <<Grow(2, 1), Grow(2, 2)>>, <<Grow(2, 2), Grow(2, 1)>>,
              <<Grow(3, 1), Grow(4, 1)>>, <<Grow(2, 1), Grow(3, 1), Grow(4, 2)>>}
MCDiskAsks == <<DiskSizes, DiskSizes, {}, {}>>
MCVMs ==
    LET disk(linked, unit, key, file) ==
            [size |-> 1, linked |-> linked, unit |-> unit, key |-> key, file |-> file]
        other(unit, file) == [unit |-> unit, key |-> 2, file |-> file]
        dev(ds, others, scsi) == [disks |-> ds, other |-> others, scsi |-> scsi]
    IN  {dev(<<>>, {}, TRUE),
         dev(<<disk(FALSE, 0, 1, TRUE)>>, {other(2, TRUE)}, TRUE),
         dev(<<disk(FALSE, 0, 1, FALSE)>>, {other(2, FALSE)}, TRUE),
         dev(<<disk(TRUE, 0, 1, TRUE), disk(FALSE, 3, 2, TRUE)>>, {}, TRUE),
         dev(<<disk(FALSE, 0, 1, TRUE)>>, {}, FALSE)}

(* Three commands with a VM each; each generates a name or asks for its first.*)
MCRuleAsks == [c \in MCCmds |-> IF c = 4 THEN {} ELSE [vms : {{c}}, given : {99, 0}]]

(* Two snapshots are made, one is restored or listed, one is removed.       *)
MCSnapshotAsks ==
    LET create(names) == [do : {"create"}, name : names]
    IN  <<create({<<"a">>, <<"a", "b">>}), create({<<"b">>}),
          [do : {"restore", "list"}], [do : {"remove"}, children : BOOLEAN]>>

(* Two apps, or one app twice, are saved; both may be deleted.              *)
MCVms == 1 .. 2
MCSaveAsks ==
    LET save(vms) == [do : {"save"}, vm : vms, off : BOOLEAN]
    IN  <<save({1}), save({1, 2}), [do : {"delete"}, save : {1}], [do : {"delete"}, save : {2}]>>

(* Two vNICs, on all kinds of networks; the guest changes once.             *)
MCGuests ==
    LET nic(net, ips) == [net |-> net, ips |-> ips] IN
    {[primary |-> p, nics |-> <<nic(nets[1], i), nic(nets[2], j)>>] :
        p \in {"no address", "a4", "b4"}, i \in {<<>>, <<"b6", "a4">>}, j \in {<<>>, <<"c4">>},
        nets \in {<<"holding", "QS">>, <<"QS", "reserved">>, <<"none", "QS">>}}
MCAddressAsks ==
    LET ask(does, static, regex, times) ==
            [do : does, static : {static}, regex : regex, timeout : times, ip : {"v4", "v6"}]
    IN  <<ask({"refresh"}, FALSE, BOOLEAN, 0 .. 1)
              \cup ask({"details"}, FALSE, BOOLEAN, {0})
              \cup ask({"refresh", "details"}, TRUE, {FALSE}, {0}), {}, {}, {}>>
MCV4 == {"a4", "b4", "c4"}
MCV6 == {"a6", "b6"}
MCMatching == {"a4", "c4", "a6"}

(* Three requests and a new vNIC, for VMs with every kind of guest.         *)
NoSpec == [type |-> "none", nics |-> <<>>, fields |-> <<>>]
Library(fields) == [type |-> "windows", nics |-> <<"fixed">>, fields |-> fields]
MCApps == [hostname : {"", "host", "host.domain"}, password : BOOLEAN, ip : {FALSE},
           library : {NoSpec, Library([joinWorkgroup |-> <<"library", 0>>]),
                      Library([joinDomain |-> <<"library", 0>>])}]

Keys(given) == [given : given, blank : {FALSE}, networks : {<<>>}]
Networks ==
    [given : {{"networks"}, {"networks", "computer_name"}}, blank : BOOLEAN,
     networks : {<<>>, <<"dhcp", "dhcp">>, <<"static">>}]
Membership == UNION {kSubset(k, {"workgroup", "domain", "username"}) : k \in 1 .. 2}
MCSpecRequests ==
    [windows |-> Networks \cup Keys(Membership \cup {{}, {"computer_name", "timezone"},
                    {"computer_name", "auto_logon", "auto_logon_count"}, {"auto_logon_count"},
                    {"include_server_license_info", "server_license_mode"},
                    {"include_server_license_info"}}),
     linux |-> Networks \cup Keys({{}, {"computer_name"}, {"computer_name", "domain_name"},
                    {"primary_dns_server"}, {"secondary_dns_server", "domain_name"}})]
MCGuestIds == {"windows", "linux", "other", "none"}

(* Switches with a short name, one that ends like it, and two whose names   *)
(* are one when truncated; VLANs that begin alike.                          *)
MCVnics == 1 .. 3
MCSandboxOf == <<"A", "A", "B">>
VlanServices(switches, vlans, modes, flags) ==
    [switch : switches, vlan : vlans, mode : modes, exclusive : BOOLEAN, flags : flags]
Unset == [f \in {"F", "M", "P"} |-> "unset"]
MCVlanRequests ==
    VlanServices({<<>>}, {<<"1">>, <<"1", "2">>}, {"Access", "Trunk"}, {Unset})
        \cup VlanServices({<<"s">>}, {<<"1">>}, {"Access"}, {[Unset EXCEPT !["F"] = "yes", !["M"] = "no"]})
        \cup VlanServices({<<"x", "_", "s">>, <<"l", "o", "n", "g">>, <<"l", "o", "n", "k">>},
                          {<<"1">>}, {"Access"}, {Unset})
MCOld == {[switch |-> <<"s">>, vlan |-> <<"1">>, mode |-> "Access", exclusive |-> FALSE,
           flags |-> <<>>]}
MCDefaultSwitch == <<"s">>
MCDefaultFlags == [f \in {"F", "M", "P"} |-> f = "M"]
MCReservedNames == {<<"mgmt">>}
=============================================================================
