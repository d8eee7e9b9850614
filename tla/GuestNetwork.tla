---------------------------- MODULE GuestNetwork ----------------------------
(***************************************************************************)
(* actions/vm_network.py, actions/vm_details.py and flows/refresh_ip.py:   *)
(* commands that wait for an address of one VM, or describe its vNICs,     *)
(* while the guest's addresses change.  VM and guest are vCenter's         *)
(* (external).                                                             *)
(*                                                                         *)
(* Every property of a handler is a read of vCenter, and an address is     *)
(* read once to be checked and once more to be returned.  Time is counted  *)
(* in DEFAULT_IP_DELAYs.                                                   *)
(***************************************************************************)
EXTENDS Naturals, Sequences

CONSTANTS
    Cmds,
    Asks,           \* what each command may ask for
    Guests,         \* guests the VM may have
    V4, V6,         \* addresses, by version
    Matching,       \* addresses the app's regular expression matches
    MaxChanges      \* bound: changes of the guest's addresses

GuestsAssumption ==
    \A g \in Guests : g.nics \in Seq([net : STRING, ips : Seq(V4 \cup V6)])

VARIABLES
    guest,      \* vCenter: primary address, network and addresses per vNIC
    power,      \* vCenter: is the VM on
    changes,    \* changes so far
    private,    \* CloudShell: the app's private IP
    job         \* per command: its locals

vars == <<guest, power, changes, private, job>>
vm == <<guest, power, changes>>
Over == {"done", "failed", "timedout"}
NoIp == "no address"

(* A refresh names the app's kind, a description too; `ip` is its version. *)
Requests == [do : {"refresh", "details"}, static : BOOLEAN, regex : BOOLEAN,
             timeout : 0 .. 2, ip : {"v4", "v6"}]

Init ==
    /\ guest \in Guests
    /\ power \in BOOLEAN
    /\ changes = 0
    /\ private = NoIp
    /\ job = [c \in Cmds |-> [pc |-> "new",
              ask |-> [do |-> "refresh", static |-> FALSE, regex |-> FALSE, timeout |-> 0,
                       ip |-> "v4"],
              nic |-> 0, ip |-> NoIp, time |-> 0, listed |-> <<>>,
              began |-> FALSE, steady |-> {}, moved |-> FALSE, lost |-> FALSE]]

At(c, label) == job[c].pc = label
Update(c, j) == job' = [job EXCEPT ![c] = j]
Goto(c, label) == Update(c, [job[c] EXCEPT !.pc = label])

Version(c) == IF job[c].ask.ip = "v4" THEN V4 ELSE V6

(* primary_ipv4, primary_ipv6; ipv4, ipv6 of a vNIC: the first of the kind. *)
Primary(c, g) == IF g.primary \in Version(c) THEN g.primary ELSE NoIp
FirstOf(ips, version) ==
    LET own == SelectSeq(ips, LAMBDA ip : ip \in version)
    IN  IF own = <<>> THEN NoIp ELSE own[1]
NicIp(c, g, n) == FirstOf(g.nics[n].ips, Version(c))

(* A static app has no regular expression, timeout or network to skip; a    *)
(* description waits for nothing and skips nothing.                         *)
Regex(c) == job[c].ask.regex /\ ~job[c].ask.static
Timeout(c) == IF job[c].ask.static \/ job[c].ask.do = "details" THEN 0 ELSE job[c].ask.timeout
Skipped(c, n) ==
    ~job[c].ask.static /\ job[c].ask.do = "refresh" /\ guest.nics[n].net = "holding"

(* is_ip_pass_regex *)
Passes(c, ip) == ip # NoIp /\ (Regex(c) => ip \in Matching)

(* Where the command may take which address, as things are in g.            *)
Offered(c, g) ==
    {o \in ({0} \X {Primary(c, g)})
            \cup {<<n, NicIp(c, g, n)>> : n \in {m \in DOMAIN g.nics : ~Skipped(c, m)}} :
        Passes(c, o[2])}

(* refresh_ip, or create of VMDetailsActions, of an app that is on or off.  *)
Begin(c) ==
    \E r \in Asks[c] :
        /\ At(c, "new")
        /\ Update(c, [job[c] EXCEPT !.ask = r,
                !.pc = CASE r.do = "refresh" /\ ~power -> "failed"    \* VmIsNotPowered
                         [] r.do = "details" /\ ~r.static /\ ~power -> "describe"
                         [] OTHER -> "primary"])
        /\ UNCHANGED <<vm, private>>

(* `steady` is history: what has been on offer all the time of the search.  *)
Steady(c) == IF job[c].began THEN job[c].steady ELSE Offered(c, guest)
Search(c, j) == Update(c, [j EXCEPT !.began = TRUE, !.steady = Steady(c)])
ToNics(c) == [job[c] EXCEPT !.pc = "nic", !.nic = 1]

(* Fault: the regular expression is not applied. *)
TakeAnyPrimary(c) ==
    /\ At(c, "primary")
    /\ Search(c, IF Primary(c, guest) # NoIp THEN [job[c] EXCEPT !.pc = "takeprimary"]
                 ELSE ToNics(c))
    /\ UNCHANGED <<vm, private>>

(* _find_vm_ip *)
LookAtPrimary(c) ==
    /\ At(c, "primary")
    /\ Search(c, IF Passes(c, Primary(c, guest)) THEN [job[c] EXCEPT !.pc = "takeprimary"]
                 ELSE ToNics(c))
    /\ UNCHANGED <<vm, private>>

(* `lost` is history: the address has gone since it was checked.            *)
Take(c, ip) ==
    /\ Update(c, [job[c] EXCEPT !.ip = ip, !.lost = @ \/ ip = NoIp,
                                !.pc = IF ip = NoIp THEN "late" ELSE "found"])
    /\ UNCHANGED <<vm, private>>
TakePrimary(c) == At(c, "takeprimary") /\ Take(c, Primary(c, guest))
TakeNicIp(c) == At(c, "takenic") /\ Take(c, NicIp(c, guest, job[c].nic))

(* A vNIC without a network raises VnicWithoutNetwork. *)
LookAtNic(c) ==
    LET n == job[c].nic IN
    /\ At(c, "nic")
    /\ IF n > Len(guest.nics) THEN Goto(c, "late")
       ELSE IF guest.nics[n].net = "none" THEN Goto(c, "failed")
       ELSE IF ~Skipped(c, n) /\ Passes(c, NicIp(c, guest, n)) THEN Goto(c, "takenic")
       ELSE Update(c, [job[c] EXCEPT !.nic = @ + 1])
    /\ UNCHANGED <<vm, private>>

(* Fault: the deadline is set anew for every search. *)
RetryForever(c) ==
    /\ At(c, "late")
    /\ Goto(c, "primary")
    /\ UNCHANGED <<vm, private>>

(* get_vm_ip: VMIPNotFoundException after the timeout, which a description  *)
(* suppresses.  Searching may have taken time, sleeping does.               *)
Retry(c) ==
    /\ At(c, "late")
    /\ \E spent \in 0 .. 1 :
          LET now == job[c].time + spent IN
          IF now > Timeout(c)
          THEN Goto(c, IF job[c].ask.do = "details" THEN "describe" ELSE "timedout")
          ELSE Update(c, [job[c] EXCEPT !.pc = "primary", !.time = now + 1])
    /\ UNCHANGED <<vm, private>>

(* The private IP is updated unless it is that already. *)
Answer(c) ==
    /\ At(c, "found")
    /\ private' = IF job[c].ask.do = "refresh" THEN job[c].ip ELSE private
    /\ Goto(c, IF job[c].ask.do = "refresh" THEN "done" ELSE "describe")
    /\ UNCHANGED vm

(* _prepare_vm_network_data lists the vNICs on generated and on reserved    *)
(* networks and marks those with the address found; what is raised becomes  *)
(* the error message of the details.                                        *)
Describe(c) ==
    LET n == Len(job[c].listed) + 1
        known == guest.nics[n].net \in {"QS", "reserved"}
    IN
    /\ At(c, "describe")
    /\ IF n > Len(guest.nics) THEN Goto(c, "done")
       ELSE IF guest.nics[n].net = "none" THEN Goto(c, "failed")
       ELSE Update(c, [job[c] EXCEPT !.listed = Append(@,
                CASE ~known -> "not listed"
                  [] known /\ job[c].ip # NoIp /\ job[c].ip = NicIp(c, guest, n) -> "primary"
                  [] OTHER -> "secondary")])
    /\ UNCHANGED <<vm, private>>

-----------------------------------------------------------------------------
(* External: the guest gets or loses addresses. *)
GuestChanges ==
    \E g \in Guests :
        /\ changes < MaxChanges
        /\ g # guest
        /\ Len(g.nics) = Len(guest.nics)
        /\ \A n \in DOMAIN g.nics : g.nics[n].net = guest.nics[n].net
        /\ guest' = g
        /\ changes' = changes + 1
        /\ job' = [c \in Cmds |-> IF job[c].began /\ job[c].pc \notin Over
                                   THEN [job[c] EXCEPT !.moved = TRUE,
                                                       !.steady = @ \cap Offered(c, g)]
                                   ELSE job[c]]
        /\ UNCHANGED <<power, private>>

Working(c) ==
    \/ LookAtPrimary(c)
    \/ TakePrimary(c)
    \/ LookAtNic(c)
    \/ TakeNicIp(c)
    \/ Retry(c)
    \/ Answer(c)
    \/ Describe(c)

Next == GuestChanges \/ \E c \in Cmds : Begin(c) \/ Working(c)
Fairness == \A c \in Cmds : WF_vars(Working(c))
Spec == Init /\ [][Next]_vars /\ Fairness

-----------------------------------------------------------------------------
\* The address found fits what the app asks for and comes from no network that
\* is to be skipped, at least while the guest keeps its addresses; and a
\* refresh times out only if no place has had a fitting address all the time,
\* or one that had been found went away before it was read again, which ends
\* the search although another vNIC might have one (vm_network.py:50-75, 91-103).
AddressFound ==
    \A c \in Cmds :
        /\ At(c, "found") /\ ~job[c].moved => \E o \in Offered(c, guest) : o[2] = job[c].ip
        /\ At(c, "timedout") /\ ~job[c].lost => job[c].steady = {}
=============================================================================
