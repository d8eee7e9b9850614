----------------------------- MODULE CustomSpecs -----------------------------
(***************************************************************************)
(* models/custom_spec.py, handlers/custom_spec_handler.py and              *)
(* prepare_custom_spec: what the customization spec of one VM says after a *)
(* deployment, customizations and new vNICs, one after the other           *)
(* (GuestCustomization has their interleavings).                           *)
(*                                                                         *)
(* A field of a spec holds <<k, n>>, the value request n gave for parameter*)
(* k, and is not in the domain of `fields` while it is unset.  An adapter  *)
(* is "dhcp" or what a spec of the library had.                            *)
(***************************************************************************)
EXTENDS Naturals, Sequences, FiniteSetsExt

CONSTANTS
    Apps,           \* deployments: what the app says, and the library's spec
    Requests,       \* customizations: parameters as from JSON
    GuestIds,       \* names of operating systems: windows, linux, other, none
    MaxRequests, MaxVnics

VARIABLES
    os,         \* the VM's guest id
    vnics,      \* number of its vNICs
    spec,       \* the spec with the VM's name
    count,      \* requests so far
    last,       \* the last request and what became of it
    asked       \* history: the last request that set a parameter

vars == <<os, vnics, spec, count, last, asked>>

NoSpec == [type |-> "none", nics |-> <<>>, fields |-> <<>>]

IsSpec(s) ==
    /\ s = [type |-> s.type, nics |-> s.nics, fields |-> s.fields]
    /\ s.type \in {"windows", "linux"}

(* A Windows spec of the library joins a workgroup or a domain, not both.   *)
Memberships == {"joinWorkgroup", "joinDomain"}
LibraryAssumption ==
    \A app \in Apps :
        \/ app.library = NoSpec
        \/ /\ IsSpec(app.library)
           /\ app.library.type = "windows" =>
                 \E m \in Memberships : DOMAIN app.library.fields \cap Memberships = {m}

(* from_os_name *)
TypeOf(name) == IF name = "windows" THEN "windows" ELSE "linux"
Supported(name) == name # "other"

(* Parameters that are set under one name whatever else is given.           *)
Plain == {"computer_name", "domain_name", "password", "owner_name", "owner_organization",
          "product_key", "commands_to_run_once", "dns_search_paths", "domain_password"}
DnsServers == {"primary_dns_server", "secondary_dns_server", "tertiary_dns_server"}
LicenseDetails == {"server_license_mode", "max_connections"}

(* CustomWindowsSpecHandler.create, CustomLinuxSpecHandler.create *)
WindowsFields ==
    [computer_name |-> <<"generated", 0>>, owner_name |-> <<"Quali", 0>>,
     owner_organization |-> <<"Quali", 0>>, joinWorkgroup |-> <<"WORKGROUP", 0>>]
LinuxFields == [computer_name |-> <<"generated", 0>>, timezone |-> <<"US/Pacific", 0>>]

(* create_custom_spec_from_spec_params *)
Created(type) ==
    [type |-> type, nics |-> <<>>,
     fields |-> IF type = "windows" THEN WindowsFields ELSE LinuxFields]

(* `f` with the fields of `new` set. *)
Extend(f, new) ==
    [k \in DOMAIN f \cup DOMAIN new |-> IF k \in DOMAIN new THEN new[k] ELSE f[k]]
Without(f, keys) == [k \in DOMAIN f \ keys |-> f[k]]
Given(r, keys) == [k \in r.given \cap keys |-> <<k, count + 1>>]

-----------------------------------------------------------------------------
(* set_custom_spec_params of the two handlers *)

SetAutoLogon(r, f) ==
    IF "auto_logon" \in r.given THEN Extend(f, Given(r, {"auto_logon", "auto_logon_count"}))
    ELSE f

(* licenseFilePrintData is made anew. *)
SetLicense(r, f) ==
    IF "include_server_license_info" \in r.given
    THEN Extend(Without(f, LicenseDetails),
                Given(r, {"include_server_license_info"} \cup LicenseDetails))
    ELSE f

(* Fault: a workgroup leaves the domain as it is. *)
SetWorkgroupOnly(r, f) ==
    IF "workgroup" \in r.given
    THEN Extend(f, [joinWorkgroup |-> <<"workgroup", count + 1>>])
    ELSE f

SetWorkgroup(r, f) ==
    IF "workgroup" \in r.given
    THEN Extend(Without(f, {"joinDomain"}), [joinWorkgroup |-> <<"workgroup", count + 1>>])
    ELSE f

SetDomain(r, f) ==
    IF "domain" \in r.given
    THEN Extend(Without(f, {"joinWorkgroup"}), [joinDomain |-> <<"domain", count + 1>>])
    ELSE f

(* The user's name goes where the domain's does. *)
SetUsername(r, f) ==
    IF "username" \in r.given THEN Extend(f, [joinDomain |-> <<"username", count + 1>>]) ELSE f

SetDnsServers(r, f) ==
    IF r.given \cap DnsServers # {}
    THEN Extend(f, [dnsServers |-> Given(r, DnsServers)]) ELSE f

SetPlain(r, f) == Extend(f, Given(r, Plain))
SetWindowsFields(r, f) ==
    SetUsername(r, SetDomain(r, SetWorkgroup(r, SetLicense(r, SetAutoLogon(r, SetPlain(r, f))))))
SetLinuxFields(r, f) == SetDnsServers(r, SetPlain(r, f))

SetFields(r, s) ==
    [s EXCEPT !.fields = IF s.type = "windows" THEN SetWindowsFields(r, @)
                         ELSE SetLinuxFields(r, @)]

(* _populate_nics, _set_network_params: an empty list in the parameters     *)
(* leaves the adapters alone; without a list those the VM has more of are   *)
(* added.                                                                   *)
SetNetworks(r, s) ==
    IF "networks" \in r.given /\ r.networks = <<>> THEN s
    ELSE [s EXCEPT !.nics = [i \in 1 .. Max({Len(s.nics), vnics, Len(r.networks)}) |->
              IF i <= Len(r.networks) \/ i > Len(s.nics) THEN "dhcp" ELSE s.nics[i]]]

(* Whatever does not say "use_dhcp" is asked for its ipv6_address, which no *)
(* Network has: AttributeError.                                             *)
Static(r) == \E i \in DOMAIN r.networks : r.networks[i] = "static"

(* CustomizationSpecParams.is_empty: parameters that are all false, 0 or    *)
(* empty count as none.                                                     *)
IsEmpty(r) == (r.given \ {"networks"} = {} \/ r.blank) /\ r.networks = <<>>

Refused(s, r) == s.type # TypeOf(os) \/ Static(r)

-----------------------------------------------------------------------------
Init ==
    /\ os \in GuestIds
    /\ vnics \in 0 .. 2
    /\ spec = NoSpec
    /\ count = 0
    /\ last = [r |-> [given |-> {}, blank |-> FALSE, networks |-> <<>>], result |-> "none"]
    /\ asked = <<>>

Finish(r, result, s) ==
    /\ count < MaxRequests
    /\ count' = count + 1
    /\ last' = [r |-> r, result |-> result]
    /\ spec' = IF result = "refused" THEN spec ELSE s
    /\ asked' = IF result = "applied" THEN Extend(asked, [k \in r.given |-> count + 1])
                ELSE asked
    /\ UNCHANGED <<os, vnics>>

(* prepare_custom_spec on the spec s, NoSpec: to be created. *)
Prepare(r, s) ==
    LET base == IF s = NoSpec THEN Created(TypeOf(os)) ELSE s IN
    IF IsEmpty(r) THEN Finish(r, "ignored", s)
    ELSE IF Refused(base, r) THEN Finish(r, "refused", s)
    ELSE Finish(r, "applied", SetFields(r, SetNetworks(r, base)))

(* from_deploy_app_model: on Linux the host name ends at the first dot, the *)
(* rest is the domain; a password counts for Windows only.                  *)
LinuxParams(app) ==
    (IF app.hostname # "" THEN {"computer_name"} ELSE {})
        \cup (IF app.hostname = "host.domain" THEN {"domain_name"} ELSE {})
WindowsParams(app) ==
    (IF app.hostname # "" THEN {"computer_name"} ELSE {})
        \cup (IF app.password THEN {"password"} ELSE {})

(* get_custom_spec_params: none without a host name or an address.          *)
Wanted(app) == app.hostname # "" \/ app.ip
FromApp(app) ==
    [given |-> CASE ~Wanted(app) -> {}
                 [] Wanted(app) /\ TypeOf(os) = "windows" -> WindowsParams(app)
                 [] OTHER -> LinuxParams(app),
     blank |-> FALSE,
     networks |-> IF app.ip THEN <<"static">> ELSE <<>>]

(* CreateVmCustomSpec: a failing deployment rolls the spec back.            *)
Deploy(app) ==
    /\ count = 0
    /\ IF Wanted(app) /\ ~Supported(os)
       THEN Finish(FromApp(app), "refused", NoSpec)
       ELSE Prepare(FromApp(app), app.library)

(* Fault: what the spec says is replaced by the defaults. *)
CustomizeAnew(r) ==
    IF r.given # {} /\ (~Supported(os) \/ "timezone" \in r.given)
    THEN Finish(r, "refused", NoSpec)
    ELSE Prepare(r, NoSpec)

(* customize_guest_os: the schemas allow "timezone", which no parameter has. *)
Customize(r) ==
    IF r.given # {} /\ (~Supported(os) \/ "timezone" \in r.given)
    THEN Finish(r, "refused", NoSpec)
    ELSE Prepare(r, spec)

(* create_new_vnic *)
AddVnic ==
    /\ vnics < MaxVnics
    /\ vnics' = vnics + 1
    /\ spec' = IF spec.nics = <<>> THEN spec ELSE [spec EXCEPT !.nics = Append(@, "dhcp")]
    /\ UNCHANGED <<os, count, last, asked>>

Next ==
    \/ \E app \in Apps : Deploy(app)
    \/ \E r \in Requests[TypeOf(os)] : Customize(r)
    \/ AddVnic

Spec == Init /\ [][Next]_vars

-----------------------------------------------------------------------------
Asked(k) == IF k \in DOMAIN asked THEN asked[k] ELSE 0

\* A Windows spec joins the domain or the workgroup that was asked for last,
\* and without either what it joined at first; it names both in one case, when
\* a user's name is given and no domain with it or since the workgroup.
OneMembership ==
    LET joined == DOMAIN spec.fields \cap Memberships
        inDomain == Asked("domain") # 0 /\ Asked("domain") >= Asked("workgroup")
        inWorkgroup == Asked("workgroup") > Asked("domain")
        userAlone == Asked("username") # 0 /\ Asked("username") >= Asked("workgroup")
    IN  spec.type = "windows" =>
            /\ inDomain => joined = {"joinDomain"}
            /\ inWorkgroup /\ userAlone => joined = Memberships
            /\ inWorkgroup /\ ~userAlone => joined = {"joinWorkgroup"}
            /\ \/ \E m \in Memberships : joined = {m}
               \/ userAlone /\ joined = Memberships

\* What a customization sets stays until a later one sets it again.
NothingForgotten ==
    \A k \in DOMAIN asked \cap Plain :
        k \in DOMAIN spec.fields /\ spec.fields[k] = <<k, asked[k]>>

\* Any number of deployments, customizations and new vNICs leaves a spec that
\* says what was asked for last, and asks a Windows guest for one membership
\* (custom_spec_handler.py:154-234, 269-297).
SpecAsAsked == OneMembership /\ NothingForgotten

\* The networks of customization parameters may have fixed addresses: the
\* schemas define them and Network.from_str makes them of the app's private IP
\* ("192.168.1.15/24 - GW would be 192.168.1.1").
FixedAddressAccepted ==
    Static(last.r) /\ Supported(os) /\ spec.type \in {"none", TypeOf(os)}
        => last.result = "applied"
=============================================================================
