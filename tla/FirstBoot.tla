------------------------------- MODULE FirstBoot -------------------------------
(***************************************************************************)
(* The network plan on its way into RouterOS: Validate (src/internal/      *)
(* network/validate.go), RouterOSScript (routeros.go) and what RouterOS    *)
(* does with the script at its first boot.                                 *)
(*                                                                         *)
(* The script is a list of commands, each of which takes effect at once    *)
(* and for good.  The power may be cut between any two of them, and the    *)
(* script may run again: README calls it idempotent.  Addresses, gateways  *)
(* and servers are names; NetOf tells which of them share a subnet.        *)
(***************************************************************************)
EXTENDS Naturals, SequencesExt

CONSTANTS
    Addresses4, Addresses6, \* addresses with their prefix length
    Gateways4, Gateways6,   \* addresses of routers
    LinkLocal,              \* the gateways and servers with link-local addresses
    NetOf,                  \* the subnet of each address and gateway
    Wide,                   \* the addresses whose prefix is a whole subnet
    Servers,                \* DNS servers
    Devices,                \* network interfaces of Linux
    Nics                    \* network interfaces of RouterOS

None == "none"

ASSUME AddressesAssumption == IsFiniteSet(Addresses4) /\ IsFiniteSet(Addresses6)
ASSUME LinkLocalAssumption == LinkLocal \subseteq Gateways4 \cup Gateways6 \cup Servers
ASSUME WideAssumption == Wide \subseteq Addresses4 \cup Addresses6
ASSUME NoneAssumption ==
    None \notin Gateways4 \cup Gateways6 \cup Devices \cup Nics

\* model.NetworkPlan, as far as the script depends on it.  "static" is the list of
\* addresses in the order into which the script sorts it; nothing keeps the
\* operator from giving an address twice, an IPv6 address also in two spellings.
\* "zone" is the device in the zone of link-local DNS servers.
Plan4 == [mode: {"dhcp", "static", "none"}, static: Seq(Addresses4),
          gateway: Gateways4 \cup {None}, onlink: BOOLEAN]
Plan6 == [slaac: BOOLEAN, dhcp: BOOLEAN, static: Seq(Addresses6),
          gateway: Gateways6 \cup {None}, onlink: BOOLEAN]
Plan  == [device: Devices \cup {None}, mac: BOOLEAN, mtu: BOOLEAN, v4: Plan4, v6: Plan6,
          dns: SUBSET Servers, zone: Devices \cup {None}]

VARIABLES
    plan,   \* the network plan
    uplink, \* the interface of RouterOS that has the MAC, None if not just one
    config, \* the configuration of RouterOS, a set of entries
    pc,     \* the next command of autorun.scr, 0 while it does not run
    failed  \* has a command failed?

router == <<uplink, config, pc, failed>>

Entry == [kind: STRING, nic: Nics \cup {None}, at: STRING, own: BOOLEAN]

-----------------------------------------------------------------------------
(* Validate.                                                               *)

Valid(p) ==
    /\ p.device # None /\ p.mac /\ p.mtu
    /\ p.v4.mode = "static" => p.v4.static # <<>> /\ p.v4.gateway # None
    /\ p.dns \cap LinkLocal # {} => p.zone = p.device
    /\ p.v4.mode = "none" => p.v6.slaac \/ p.v6.dhcp \/ p.v6.static # <<>>

-----------------------------------------------------------------------------
(* The script.                                                             *)

Clear(what)      == [op |-> "remove", kind |-> what, at |-> None]
Add(kind, at)    == [op |-> "add", kind |-> kind, at |-> at]
AddAll(kind, as) == [i \in DOMAIN as |-> Add(kind, as[i])]
SetTo(kind, as)  == <<[op |-> "set", kind |-> kind, at |-> as]>>
When(condition, commands) == IF condition THEN commands ELSE <<>>

\* Mutant: routes with the installer's comment are not removed.
Removals_NoOwn ==
    <<Clear("dhcp4"), Clear("address4"), Clear("default4"),
      Clear("dhcp6"), Clear("address6"), Clear("default6")>>

Removals ==
    <<Clear("dhcp4"), Clear("address4"), Clear("own4"), Clear("default4"),
      Clear("dhcp6"), Clear("address6"), Clear("own6"), Clear("default6")>>

\* A gateway outside every subnet gets a host route, and the default route a
\* target scope that can look it up.
Commands4(v4) ==
    CASE v4.mode = "dhcp"   -> <<Add("dhcp4", None)>>
      [] v4.mode = "static" ->
            AddAll("address4", v4.static)
            \o When(v4.onlink, <<Add("host4", v4.gateway)>>)
            \o <<Add(IF v4.onlink THEN "recursive4" ELSE "default4", v4.gateway)>>
      [] OTHER -> <<>>

\* Mutant: a link-local gateway that is flagged onlink gets a recursive route.
Recursive_LinkLocal(v6) == v6.onlink

\* A link-local gateway is bound to the interface instead.
Recursive(v6) == v6.onlink /\ v6.gateway \notin LinkLocal

Commands6(v6) ==
    SetTo("ra", IF v6.slaac THEN {"yes"} ELSE {"no"})
    \o When(v6.dhcp, <<Add("dhcp6", None)>>)
    \o AddAll("address6", v6.static)
    \o When(v6.gateway # None,
            When(Recursive(v6), <<Add("host6", v6.gateway)>>)
            \o <<Add(IF Recursive(v6) THEN "recursive6"
                     ELSE IF v6.gateway \in LinkLocal THEN "scoped6" ELSE "default6",
                     v6.gateway)>>)

RouterOSScript(p) ==
    Removals \o Commands4(p.v4) \o Commands6(p.v6) \o SetTo("dns", p.dns)

-----------------------------------------------------------------------------
(* RouterOS.                                                               *)

Default4 == {"default4", "recursive4"}
Default6 == {"default6", "recursive6", "scoped6"}

\* What each of the commands that remove something finds.
Found(what, e) ==
    CASE what = "own4"     -> e.own /\ e.kind \in Default4 \cup {"host4"}
      [] what = "own6"     -> e.own /\ e.kind \in Default6 \cup {"host6"}
      [] what = "default4" -> e.kind \in Default4
      [] what = "default6" -> e.kind \in Default6
      [] OTHER             -> e.kind = what /\ e.nic = uplink

Added(kind, at) == [kind |-> kind, nic |-> uplink, at |-> at, own |-> TRUE]

\* An entry that is already there makes a command, and with it the script, fail.
Execute(c) ==
    \/ /\ c.op = "remove"
       /\ config' = {e \in config : ~Found(c.kind, e)}
       /\ UNCHANGED failed
    \/ /\ c.op = "add"
       /\ config' = config \cup {Added(c.kind, c.at)}
       /\ failed' = (Added(c.kind, c.at) \in config)
    \/ /\ c.op = "set"
       /\ config' = {e \in config : e.kind # c.kind}
                    \cup {[kind |-> c.kind, nic |-> None, at |-> v, own |-> FALSE] : v \in c.at}
       /\ UNCHANGED failed

\* RouterOS comes up and finds the interface with the MAC, or gives up.
BeginScript ==
    /\ pc = 0
    /\ uplink # None
    /\ pc' = 1
    /\ failed' = FALSE
    /\ UNCHANGED <<plan, uplink, config>>

RunCommand ==
    /\ pc \in 1 .. Len(RouterOSScript(plan))
    /\ ~failed
    /\ Execute(RouterOSScript(plan)[pc])
    /\ pc' = pc + 1
    /\ UNCHANGED <<plan, uplink>>

\* The power is cut, or the script is started once more.
RunAgain ==
    /\ pc > 0
    /\ pc' = 0
    /\ UNCHANGED <<plan, uplink, config, failed>>

Applied == pc = Len(RouterOSScript(plan)) + 1

\* What RouterOS comes with: a DHCP client on its first interface.
Factory(nic) == {[kind |-> "dhcp4", nic |-> nic, at |-> None, own |-> FALSE]}

-----------------------------------------------------------------------------
Entries(kinds) == {e \in config : e.kind \in kinds}
AtOf(entries)  == {e.at : e \in entries}

\* What of the configuration is about the uplink.
OnUplink(kind) == AtOf({e \in Entries({kind}) : e.nic = uplink})

\* Does the script add an address more than once?
Repeats(p) ==
    \/ p.v4.mode = "static" /\ ~IsInjective(p.v4.static)
    \/ ~IsInjective(p.v6.static)

\* README: the network plan is idempotent.  However often the script was cut
\* short before, and whatever RouterOS came with, only the repetition of an address
\* within the plan makes a command of it fail, and never what an earlier run has
\* left; and when it has run to its end the uplink has what the plan says and
\* nothing else.
Idempotent ==
    /\ failed => Repeats(plan)
    /\ Applied =>
        /\ OnUplink("address4") = IF plan.v4.mode = "static" THEN ToSet(plan.v4.static) ELSE {}
        /\ OnUplink("address6") = ToSet(plan.v6.static)
        /\ (OnUplink("dhcp4") # {}) = (plan.v4.mode = "dhcp")
        /\ (OnUplink("dhcp6") # {}) = plan.v6.dhcp
        /\ AtOf(Entries(Default4)) = IF plan.v4.mode = "static" THEN {plan.v4.gateway} ELSE {}
        /\ AtOf(Entries(Default6)) = {plan.v6.gateway} \ {None}
        /\ AtOf(Entries({"host4", "host6"})) \subseteq {plan.v4.gateway, plan.v6.gateway}
        /\ AtOf(Entries({"dns"})) = plan.dns

=============================================================================
