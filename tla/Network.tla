-------------------------------- MODULE Network --------------------------------
(***************************************************************************)
(* From the network of the Linux host to the plan that RouterOS gets:      *)
(* Detect (src/internal/network/detect.go), the DHCP probe                 *)
(* (dhcp_linux.go), the review in ReviewPreflight (src/internal/ui/ui.go)  *)
(* and, through FirstBoot, the script.                                     *)
(*                                                                         *)
(* Detect asks the host in seven commands, reads files and waits for a     *)
(* DHCP offer, and the host's network may change between any two of them.  *)
(***************************************************************************)
EXTENDS FirstBoot, FiniteSets

CONSTANTS
    Hosts,         \* the networks the host may have, see HostType
    Changes,       \* those it may change to while Detect looks
    Edits,         \* the plans the operator may make of a plan
    CommandFaults, \* the commands that may fail
    Patience,      \* how many receive timeouts fit into the probe's deadline
    Factories      \* what RouterOS may come with

ASSUME PatienceAssumption == Patience \in Nat

\* A route in the main table; dst is "default", the gateway a host route leads
\* to, or "other".  A multipath route has neither device nor gateway.
Route(gateways) ==
    [dst: gateways \cup {"default", "other"}, gateway: gateways \cup {None},
     dev: Devices \cup {None}, proto: {"kernel", "ra", "dhcp", "static"},
     metric: Nat, onlink: BOOLEAN]

\* A global address that is neither deprecated nor temporary; "dynamic" is one
\* that does not say where it comes from.  Only IPv6 has router advertisements.
Address == [name: Addresses4, dev: Devices, class: {"static", "dynamic", "dhcp"}]
           \cup [name: Addresses6, dev: Devices, class: {"static", "dynamic", "dhcp", "ra"}]

\* A device with a driver that CHR supports and nothing special, or not.
Links == {"plain", "jumbo", "unsupported", "complex", "nomac", "virtual"}

HostType == [routes4: SUBSET Route(Gateways4), routes6: SUBSET Route(Gateways6),
             addresses: SUBSET Address, link: [Devices -> Links], rules: BOOLEAN,
             files: SUBSET {"dhcp4", "dhcp6", "lease4", "lease6"},
             dns: SUBSET Servers]

ASSUME HostsAssumption == Hosts \cup Changes \subseteq HostType
ASSUME EditsAssumption == Edits \subseteq Plan
ASSUME FactoriesAssumption ==
    \A f \in Factories : \A e \in f : e.kind \notin {"host4", "host6"}

VARIABLES
    host,      \* the network of the host
    changed,   \* has it changed since Detect began?
    step,      \* where the session is
    cancelled, \* has the context been cancelled?
    routes4,   \* v4Routes
    default4,  \* v4Default, NoRoute for nil
    default6,  \* v6Default
    seen,      \* the addresses of the uplink, as Detect saw them
    files,     \* the evidence of inspectConfiguration
    left,      \* how long the probe still waits
    offered,   \* plan.DHCPProbe.Offered
    answered,  \* has a server answered this probe?
    blocked,   \* is there a blocker?
    warned,    \* is there a warning?
    evidence4, evidence6, evidence,
    edited,    \* has the operator changed the plan?
    acked      \* has the operator typed that an unverified plan is accepted?

reading == <<routes4, default4, default6, seen, files>>
probing == <<left, offered, answered>>
grading == <<blocked, warned, evidence4, evidence6, evidence>>
session == <<step, cancelled, edited, acked>>
vars    == <<host, changed, session, reading, probing, grading, plan, router>>

NoRoute == [dst |-> None, gateway |-> None, dev |-> None, proto |-> None,
            metric |-> 0, onlink |-> FALSE]
NoPlan  == [device |-> None, mac |-> FALSE, mtu |-> FALSE, dns |-> {}, zone |-> None,
            v4 |-> [mode |-> "none", static |-> <<>>, gateway |-> None, onlink |-> FALSE],
            v6 |-> [slaac |-> FALSE, dhcp |-> FALSE, static |-> <<>>, gateway |-> None,
                    onlink |-> FALSE]]

Detecting == {"routes4", "routes6", "rules", "link", "uplinks", "addresses",
              "files", "dns", "probe", "judge"}

Init ==
    /\ host \in Hosts /\ changed = FALSE
    /\ step = "routes4" /\ cancelled = FALSE /\ edited = FALSE /\ acked = FALSE
    /\ routes4 = {} /\ default4 = NoRoute /\ default6 = NoRoute /\ seen = {} /\ files = {}
    /\ left = Patience /\ offered = FALSE /\ answered = FALSE
    /\ blocked = FALSE /\ warned = FALSE
    /\ evidence4 = "verified" /\ evidence6 = "verified" /\ evidence = "verified"
    /\ plan = NoPlan
    /\ uplink = None /\ config \in Factories /\ pc = 0 /\ failed = FALSE

-----------------------------------------------------------------------------
(* Detect.                                                                 *)

Works == ~cancelled
Fails(command) == cancelled \/ command \in CommandFaults

\* A command without which Detect returns at once.
Essential(command) ==
    /\ Fails(command)
    /\ step' = "refused"
    /\ blocked' = TRUE

ReadRoutes4 ==
    /\ step = "routes4"
    /\ \/ Works /\ routes4' = host.routes4 /\ step' = "routes6" /\ UNCHANGED blocked
       \/ Essential(step) /\ UNCHANGED routes4
    /\ UNCHANGED <<host, changed, cancelled, edited, acked, default4, default6, seen, files,
                   probing, warned, evidence4, evidence6, evidence, plan, router>>

Ambiguous(routes, r) ==
    \E q \in routes : q.dst = "default" /\ (q.dev # r.dev \/ q.gateway # r.gateway)

\* selectDefault: a default route of the lowest metric.
Selected(routes) ==
    LET defaults == {r \in routes : r.dst = "default"}
    IN  IF defaults = {} THEN {NoRoute}
        ELSE {r \in defaults : \A q \in defaults : r.metric <= q.metric}

\* inspectRouteSet: only a host route to the gateway can be translated.
Untranslated(routes, chosen, device, implied) ==
    \E r \in routes :
        /\ r.dst # "default" /\ r.proto \notin implied
        /\ \/ r.dev \notin {None, device}
           \/ ~(chosen # NoRoute /\ r.gateway = None /\ r.dst = chosen.gateway)

ReadRoutes6 ==
    /\ step = "routes6"
    /\ \/ /\ Works
          /\ \E r4 \in Selected(routes4), r6 \in Selected(host.routes6) :
                LET device == IF r4.dev # None THEN r4.dev ELSE r6.dev
                IN  /\ default4' = r4 /\ default6' = r6
                    /\ plan' = [plan EXCEPT !.device = device]
                    /\ blocked' = \/ Ambiguous(routes4, r4) \/ Ambiguous(host.routes6, r6)
                                  \/ r6 # NoRoute /\ device # r6.dev
                                  \/ Untranslated(routes4, r4, device, {"kernel"})
                                  \/ Untranslated(host.routes6, r6, device, {"kernel", "ra"})
                                  \/ device = None
                    /\ step' = IF device = None THEN "refused" ELSE "rules"
       \/ Essential(step) /\ UNCHANGED <<default4, default6, plan>>
    /\ routes4' = {}
    /\ UNCHANGED <<host, changed, cancelled, edited, acked, seen, files, probing, warned,
                   evidence4, evidence6, evidence, router>>

\* inspectRules, for both families.
ReadRules ==
    /\ step = "rules"
    /\ step' = "link"
    /\ \/ Works /\ blocked' = (blocked \/ host.rules)
       \/ Fails(step) /\ blocked' = TRUE
    /\ UNCHANGED <<host, changed, cancelled, edited, acked, reading, probing, warned,
                   evidence4, evidence6, evidence, plan, router>>

ReadLink ==
    /\ step = "link"
    /\ \/ /\ Works
          /\ step' = "uplinks"
          /\ plan' = [plan EXCEPT !.mac = host.link[plan.device] # "nomac",
                                  !.mtu = host.link[plan.device] # "jumbo"]
          /\ blocked' = (blocked \/ host.link[plan.device] \notin {"plain", "jumbo"})
       \/ Essential(step) /\ UNCHANGED plan
    /\ UNCHANGED <<host, changed, cancelled, edited, acked, reading, probing, warned,
                   evidence4, evidence6, evidence, router>>

\* Does the device have a driver in sysfs?
Physical(device) == host.link[device] # "virtual"

\* Mutant: only the selected device is looked at.
ReadUplinks_Selected ==
    /\ step = "uplinks"
    /\ step' = "addresses"
    /\ UNCHANGED <<host, changed, cancelled, edited, acked, reading, probing, grading, plan, router>>

\* inspectAdditionalPhysicalUplinks.
ReadUplinks ==
    /\ step = "uplinks"
    /\ step' = "addresses"
    /\ \/ /\ Works
          /\ blocked' = (blocked \/ \E a \in host.addresses : a.dev # plan.device /\ Physical(a.dev))
       \/ Fails(step) /\ blocked' = TRUE
    /\ UNCHANGED <<host, changed, cancelled, edited, acked, reading, probing, warned,
                   evidence4, evidence6, evidence, plan, router>>

ReadAddresses ==
    /\ step = "addresses"
    /\ \/ /\ Works
          /\ seen' = {a \in host.addresses : a.dev = plan.device}
          /\ step' = "files"
          /\ UNCHANGED blocked
       \/ Essential(step) /\ UNCHANGED seen
    /\ UNCHANGED <<host, changed, cancelled, edited, acked, routes4, default4, default6, files,
                   probing, warned, evidence4, evidence6, evidence, plan, router>>

Named(addresses, classes, names) == {a.name : a \in {b \in addresses : b.class \in classes}} \cap names

Static4  == Named(seen, {"static"}, Addresses4)
Dynamic4 == Named(seen, {"dynamic", "dhcp"}, Addresses4)
Static6  == Named(seen, {"static"}, Addresses6)
Dynamic6 == Named(seen, {"dynamic", "dhcp", "ra"}, Addresses6)

Inside(gateway, addresses) == \E a \in addresses \cap Wide : NetOf[a] = NetOf[gateway]

\* The gateway is outside every prefix of the uplink, or said to be on link.
OnLink(r, addresses) ==
    r.onlink \/ (r.gateway # None /\ r.gateway \notin LinkLocal /\ ~Inside(r.gateway, addresses))

Mixed4 == Dynamic4 # {} /\ Static4 # {}

\* The IPv4 part of the plan, from the addresses and what the files say.  A mixed
\* one stays empty, and is refused.
Detected4(evidenceOf) ==
    [mode    |-> IF Mixed4 THEN "none" ELSE IF Dynamic4 # {} THEN "dhcp"
                 ELSE IF Static4 # {} THEN "static"
                 ELSE IF "dhcp4" \in evidenceOf THEN "dhcp" ELSE "none",
     static  |-> IF Mixed4 THEN <<>> ELSE SetToSeq(Static4),
     gateway |-> default4.gateway,
     onlink  |-> OnLink(default4, Dynamic4 \cup Static4)]

HasClass6(class) == Named(seen, {class}, Addresses6) # {}
Learned  == HasClass6("ra") \/ default6.proto = "ra"
Leased(evidenceOf)  == HasClass6("dhcp") \/ {"dhcp6", "lease6"} \cap evidenceOf # {}
Guessed(evidenceOf) == Dynamic6 # {} /\ ~Learned /\ ~Leased(evidenceOf)

\* The IPv6 part; a dynamic address of unknown origin counts as SLAAC.
Detected6(evidenceOf) ==
    [slaac   |-> Learned \/ Guessed(evidenceOf),
     dhcp    |-> Leased(evidenceOf),
     static  |-> SetToSeq(Static6),
     gateway |-> default6.gateway,
     onlink  |-> OnLink(default6, Static6 \cup Dynamic6)]

Assemble ==
    /\ step = "files"
    /\ files' = host.files
    /\ plan' = [plan EXCEPT !.v4 = Detected4(files'), !.v6 = Detected6(files')]
    /\ blocked' = (blocked \/ Mixed4)
    /\ evidence4' = IF plan'.v4.mode = "dhcp" /\ Dynamic4 = {} THEN "inferred" ELSE "verified"
    /\ evidence6' =
          IF Guessed(files') THEN "inferred"
          ELSE IF Static6 \cup Dynamic6 # {} \/ default6 # NoRoute THEN "verified"
          ELSE IF plan'.v6.dhcp /\ "lease6" \notin files' THEN "inferred" ELSE "verified"
    /\ step' = "dns"
    /\ UNCHANGED <<host, changed, cancelled, edited, acked, routes4, default4, default6, seen,
                   probing, warned, evidence, router>>

\* detectDNS never fails: it has resolv.conf to fall back on.
ReadDNS ==
    /\ step = "dns"
    /\ plan' = [plan EXCEPT !.dns = host.dns, !.zone = plan.device]
    /\ warned' = (plan'.dns = {} /\ plan.v4.mode = "static" /\ ~plan.v6.dhcp)
    /\ step' = IF plan.mac THEN "probe" ELSE "judge"
    /\ UNCHANGED <<host, changed, cancelled, edited, acked, reading, probing, blocked,
                   evidence4, evidence6, evidence, router>>

-----------------------------------------------------------------------------
(* ProbeDHCP.  The socket sees every IPv4 packet on the wire.              *)

\* Mutant: an offer to anybody is taken for an answer.
IsOffer_Any(packet) == packet \in {"offer", "foreign"}

\* parseDHCPOffer compares the transaction.
IsOffer(packet) == packet = "offer"

\* A packet arrives and may end the wait; time passes with packets or without.
Receive ==
    /\ step = "probe" /\ left > 0 /\ ~cancelled
    /\ \E packet \in {"offer", "foreign", "noise"} :
          /\ answered' = (answered \/ packet = "offer")
          /\ offered' = IsOffer(packet)
          /\ step' = IF IsOffer(packet) THEN "judge" ELSE step
    /\ UNCHANGED <<host, changed, cancelled, edited, acked, reading, left, grading, plan, router>>

\* Mutant: no receive timeout is set, and on a silent wire the probe never comes
\* to look at its deadline.
ProbeClock_NoTimeout ==
    /\ step = "probe" /\ left > 0
    /\ UNCHANGED vars

ProbeClock ==
    /\ step = "probe" /\ left > 0
    /\ left' = left - 1
    /\ UNCHANGED <<host, changed, session, reading, offered, answered, grading, plan, router>>

ProbeOver ==
    /\ step' = "judge"
    /\ UNCHANGED <<host, changed, cancelled, edited, acked, reading, probing, grading, plan, router>>

\* The deadline has passed or the context is done: Detect goes on without an offer.
ProbeEnds  == step = "probe" /\ (left = 0 \/ cancelled) /\ ProbeOver

\* Opening the socket or sending the discovery may have failed.
ProbeFails == step = "probe" /\ left = Patience /\ "probe" \in CommandFaults /\ ProbeOver

-----------------------------------------------------------------------------
(* What Detect makes of it, and the review.                                *)

Unconfirmed == plan.v4.mode = "dhcp" /\ "lease4" \notin files /\ ~offered

Judge ==
    /\ step = "judge"
    /\ blocked' = \/ blocked \/ Unconfirmed
                  \/ plan.v4.mode = "none" /\ Static6 \cup Dynamic6 = {}
                  \/ ~Valid(plan)
    /\ evidence4' = IF plan.v4.mode = "dhcp" /\ ("lease4" \in files \/ offered)
                    THEN "verified" ELSE evidence4
    /\ evidence' = IF evidence4' = "verified" /\ evidence6 = "verified" /\ ~warned /\ ~blocked'
                   THEN "verified" ELSE "inferred"
    /\ step' = IF blocked' THEN "refused" ELSE "review"
    /\ UNCHANGED <<host, changed, cancelled, edited, acked, reading, probing, warned, evidence6,
                   plan, router>>

\* The form joins lists to texts and parses them back, which makes an empty IPv4
\* list of a missing one: that counts as an edit.  Without any IPv6 mode its
\* gateway is dropped, also one that the operator has just typed.
Submitted(p) ==
    IF ~p.v6.slaac /\ ~p.v6.dhcp /\ p.v6.static = <<>>
    THEN [p EXCEPT !.v6.gateway = None, !.v6.onlink = FALSE]
    ELSE p

Graded(p) ==
    IF Submitted(p) = plan /\ Static4 \cup Dynamic4 # {} THEN evidence ELSE "user"

Review ==
    /\ step = "review"
    /\ \E p \in {plan} \cup Edits :
          /\ edited' = (p # plan /\ Submitted(p) # plan)
          /\ IF Valid(Submitted(p))
             THEN /\ plan' = Submitted(p)
                  /\ evidence' = Graded(p)
                  /\ step' = IF Graded(p) = "verified" THEN "prepare" ELSE "acknowledge"
             ELSE step' = "refused" /\ UNCHANGED <<plan, evidence>>
    /\ UNCHANGED <<host, changed, cancelled, acked, reading, probing, blocked, warned,
                   evidence4, evidence6, router>>

\* The operator types the phrase, or leaves.
Acknowledge ==
    /\ step = "acknowledge"
    /\ \/ acked' = TRUE /\ step' = "prepare"
       \/ step' = "refused" /\ UNCHANGED acked
    /\ UNCHANGED <<host, changed, cancelled, edited, reading, probing, grading, plan, router>>

\* Prepare injects the script, unless its context is done; the disk is written
\* and RouterOS boots.  It may not find the MAC, or find it twice.
Install ==
    /\ step = "prepare"
    /\ \/ ~cancelled /\ step' = "installed" /\ uplink' \in Nics \cup {None}
       \/ step' = "refused" /\ UNCHANGED uplink
    /\ UNCHANGED <<host, changed, cancelled, edited, acked, reading, probing, grading, plan,
                   config, pc, failed>>

-----------------------------------------------------------------------------
HostChanges ==
    /\ step \in Detecting /\ ~changed
    /\ host' \in Changes \ {host}
    /\ changed' = TRUE
    /\ UNCHANGED <<session, reading, probing, grading, plan, router>>

Cancel ==
    /\ ~cancelled /\ step \notin {"installed", "refused"}
    /\ cancelled' = TRUE
    /\ UNCHANGED <<host, changed, step, edited, acked, reading, probing, grading, plan, router>>

\* RouterOS has its own time.
RouterOS ==
    /\ step = "installed"
    /\ BeginScript \/ RunCommand \/ RunAgain
    /\ UNCHANGED <<host, changed, session, reading, probing, grading>>

Detect ==
    \/ ReadRoutes4 \/ ReadRoutes6 \/ ReadRules \/ ReadLink \/ ReadUplinks \/ ReadAddresses
    \/ Assemble \/ ReadDNS \/ ProbeEnds \/ Judge

Next ==
    \/ Detect \/ Receive \/ ProbeClock \/ ProbeFails
    \/ Review \/ Acknowledge \/ Install
    \/ HostChanges \/ Cancel \/ RouterOS

Spec == Init /\ [][Next]_vars

\* Commands return and the clock of the probe runs; no packet ever has to come.
FairSpec == Spec /\ WF_vars(Detect) /\ WF_vars(ProbeClock)

-----------------------------------------------------------------------------
(* Properties.                                                             *)

Unedited == step = "installed" /\ Applied /\ ~edited

Reachable(gateway, known) == gateway \in AtOf(Entries({"host4", "host6"})) \/ Inside(gateway, known)

\* README supports same-subnet and off-link gateways.  RouterOS can look up the
\* gateway of every default route of a plan that the operator left alone: over a
\* subnet it has an address in, over a host route (which the route's target
\* scope must allow), or on the link itself.  This holds whatever changed on the
\* host between the commands that read the routes and the addresses.  One gateway
\* is an exception: gatewayOutside takes a link-local IPv4 address for reachable,
\* and the script binds only an IPv6 one to the interface.
GatewayReachable ==
    Unedited =>
        /\ \A e \in Entries({"default4"}) :
              e.at \in LinkLocal \/ Inside(e.at, OnUplink("address4"))
        /\ \A e \in Entries({"default6"}) : Inside(e.at, OnUplink("address6") \cup Dynamic6)
        /\ AtOf(Entries({"recursive4", "recursive6"})) \subseteq AtOf(Entries({"host4", "host6"}))
        /\ \A e \in Entries({"recursive6", "scoped6"}) : (e.kind = "scoped6") = (e.at \in LinkLocal)

\* The host's addresses are on the uplink again, or come to it by themselves.
AddressesCarried ==
    \A a \in host.addresses :
        Physical(a.dev) =>
            /\ a.dev = plan.device
            /\ CASE a.class = "static" -> a.name \in OnUplink("address4") \cup OnUplink("address6")
                 [] a.class = "ra"     -> "yes" \in AtOf(Entries({"ra"}))
                 [] a.class = "dhcp" /\ a.name \in Addresses6 -> OnUplink("dhcp6") # {}
                 [] a.class = "dynamic" /\ a.name \in Addresses6 ->
                        "yes" \in AtOf(Entries({"ra"})) \/ OnUplink("dhcp6") # {}
                 [] OTHER -> OnUplink("dhcp4") # {}

\* Two kinds of default routes are lost without a word: one that has no gateway,
\* and, with the host route to its gateway, one of a family in which the uplink
\* has no global address.
Lost(r, chosen, known) ==
    \/ r.dst = "default" /\ r.gateway = None
    \/ r.dst \in {"default", chosen.gateway} /\ known = {}

\* So is a third: an IPv4 default route that is not the DHCP server's, with the
\* host route to its gateway, on an uplink with DHCP addressing.  The script adds
\* the client with add-default-route and drops the gateway of the plan.
Displaced(r) ==
    /\ plan.v4.mode = "dhcp" /\ r.proto # "dhcp"
    /\ r.dst \in {"default", default4.gateway}

\* A route is there again, or follows from an address.
RouteCarried(r, defaults) ==
    \/ r.proto \in {"kernel", "ra"}
    \/ (IF r.dst = "default" THEN r.gateway ELSE r.dst) \in AtOf(Entries(defaults))

\* A route of the DHCP server comes with the next lease.
FromDHCP(r) == r.proto = "dhcp" /\ OnUplink("dhcp4") # {}

\* README: the server is replaced while preserving a reviewed network, and what
\* cannot be translated is rejected.  If nothing changed while Detect looked and
\* the operator left its plan alone, then RouterOS has everything the host had:
\* a second uplink, a route or a rule that the plan cannot express never gets
\* through, but for the default routes of Lost and Displaced.
Preserved ==
    Unedited /\ ~changed =>
        /\ AddressesCarried
        /\ \A r \in host.routes4 :
              \/ RouteCarried(r, Default4) \/ FromDHCP(r)
              \/ Lost(r, default4, Static4 \cup Dynamic4) \/ Displaced(r)
        /\ \A r \in host.routes6 :
              RouteCarried(r, Default6) \/ Lost(r, default6, Static6 \cup Dynamic6)
        /\ ~host.rules
        /\ AtOf(Entries({"dns"})) = host.dns

\* README: an unverified network must be acknowledged.  What is installed without
\* that is what Detect saw, and if it relies on DHCP then a server has answered
\* this probe, and no other client's, or there is a lease.
Acknowledged ==
    step = "installed" /\ ~acked =>
        /\ ~edited
        /\ plan.v4.mode = "dhcp" => answered \/ "lease4" \in files

\* Detect ends, also on a wire that is never silent.
DetectEnds == step \in Detecting ~> step \notin Detecting

=============================================================================
