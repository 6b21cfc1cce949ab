------------------------------- MODULE MCNetwork -------------------------------
(* The instance of Network that TLC checks: every kind of IPv4 network with  *)
(* a few kinds of IPv6, and the other way round.                             *)
EXTENDS Network

MCAddresses4 == {"A1", "A2", "N1"}
MCAddresses6 == {"P1", "P2", "M1"}
MCGateways4  == {"gwA", "gwB", "link4"}
MCGateways6  == {"gwP", "gwQ", "fe80"}
MCLinkLocal  == {"link4", "fe80", "fe80dns"}
MCWide       == {"A1", "A2", "P1", "P2"}
MCServers    == {"dns", "fe80dns"}
MCDevices    == {"eth0", "eth1", "lo"}
MCNics       == {"ether1", "ether2"}
MCNetOf ==
    [n \in MCAddresses4 \cup MCAddresses6 \cup MCGateways4 \cup MCGateways6 |->
        CASE n \in {"A1", "A2", "gwA"} -> "A" [] n \in {"P1", "P2", "gwP"} -> "P" [] OTHER -> n]

R(dst, gateway, dev, proto, metric) ==
    [dst |-> dst, gateway |-> gateway, dev |-> dev, proto |-> proto, metric |-> metric, onlink |-> FALSE]
OnLinkR(r) == [r EXCEPT !.onlink = TRUE]
At(name, class, dev) == [name |-> name, class |-> class, dev |-> dev]

ViaA == R("default", "gwA", "eth0", "static", 0)
ViaB == R("default", "gwB", "eth0", "static", 0)
ViaP == R("default", "gwP", "eth0", "static", 1)
ViaRA == R("default", "fe80", "eth0", "ra", 1)

Routes4 ==
    {{}, {ViaA}, {ViaA, R("default", "gwB", "eth0", "dhcp", 1)}, {R("default", "gwA", "eth0", "dhcp", 0)},
     {ViaA, R("default", "gwA", "eth1", "static", 1)}, {OnLinkR(ViaA)}, {ViaB},
     {OnLinkR(ViaB), R("gwB", None, "eth0", "static", 0)}, {ViaA, R("gwB", None, "eth0", "static", 0)},
     {ViaA, R("other", "gwB", "eth0", "static", 0)}, {ViaA, R("other", None, "eth0", "kernel", 0)},
     {R("default", "link4", "eth0", "static", 0), R("link4", None, "eth0", "static", 0)},
     {R("default", None, "eth0", "static", 0)}, {R("default", None, None, "static", 0)}}
Plain4 == {{}, {At("A1", "static", "eth0")}}
All4 ==
    Plain4 \cup
    {{At("A1", "dhcp", "eth0")}, {At("A1", "dynamic", "eth0"), At("A2", "static", "eth0")},
     {At("N1", "static", "eth0")}, {At("A1", "static", "eth0"), At("A2", "static", "eth0")},
     {At("A1", "static", "eth0"), At("A2", "static", "eth1")}, {At("N1", "static", "lo")}}
Routes6 ==
    {{}, {ViaP}, {ViaRA}, {OnLinkR(ViaRA)}, {R("default", "gwQ", "eth0", "static", 1)},
     {ViaRA, ViaP}, {R("default", None, "eth0", "static", 1)},
     {R("default", "fe80", "eth1", "ra", 1)}, {ViaP, R("other", "fe80", "eth0", "ra", 1)},
     {ViaP, R("other", "fe80", "eth0", "static", 1)}}
All6 ==
    {{}, {At("P1", "static", "eth0")}, {At("P1", "ra", "eth0")}, {At("M1", "dhcp", "eth0")},
     {At("P1", "dynamic", "eth0")}, {At("P1", "ra", "eth0"), At("P2", "static", "eth0")},
     {At("P1", "static", "eth0"), At("M1", "static", "eth0")}}

Host(r4, a4, r6, a6, link, rules, found, dns) ==
    [routes4 |-> r4, routes6 |-> r6, addresses |-> a4 \cup a6, rules |-> rules, files |-> found, dns |-> dns,
     link |-> [d \in MCDevices |-> IF d = "lo" THEN "virtual" ELSE IF d = "eth1" THEN "plain" ELSE link]]

Plain == "plain"
Static4Host == {At("A1", "static", "eth0")}
MCHosts ==
    {Host(r4, a4, {}, {}, Plain, FALSE, f, {}) :
        r4 \in Routes4, a4 \in All4, f \in {{}, {"dhcp4"}, {"dhcp4", "lease4"}}}
    \cup {Host({ViaA}, a4, r6, a6, Plain, FALSE, {}, {"dns"}) :
        a4 \in Plain4, r6 \in Routes6, a6 \in All6}
    \cup {Host({}, {}, r6, a6, Plain, FALSE, f, {}) :
        r6 \in {{ViaP}, {ViaRA}}, a6 \in All6, f \in {{}, {"dhcp6"}, {"lease6"}, {"dhcp4"}}}
    \cup {Host({ViaA}, Static4Host, {}, {}, l, FALSE, {}, {}) : l \in Links}
    \cup {Host({ViaA}, Static4Host, {}, {}, Plain, rules, {}, dns) :
        rules \in BOOLEAN, dns \in SUBSET MCServers}

MCChanges ==
    {Host({}, {}, {ViaRA}, {At("P1", "ra", "eth0")}, Plain, FALSE, {}, {"dns"}),
     Host({ViaB}, {At("N1", "static", "eth0")}, {}, {}, Plain, FALSE, {}, {}),
     Host({ViaA}, {At("A1", "dhcp", "eth0")}, {}, {At("P1", "static", "eth0")}, Plain, FALSE, {"dhcp4"}, {})}

EditedPlan(mode, static, gateway, slaac, zone) ==
    [device |-> "eth0", mac |-> TRUE, mtu |-> TRUE, dns |-> {"fe80dns"}, zone |-> zone,
     v4 |-> [mode |-> mode, static |-> static, gateway |-> gateway, onlink |-> TRUE],
     v6 |-> [slaac |-> slaac, dhcp |-> FALSE, static |-> <<>>, gateway |-> "fe80", onlink |-> TRUE]]
\* The last two add to what Detect makes of a host only what the form drops, and
\* repeat an address with another one in between.
MCEdits ==
    {EditedPlan("dhcp", <<>>, None, FALSE, "eth0"), EditedPlan("static", <<"A2">>, "gwB", TRUE, "eth0"),
     EditedPlan("static", <<>>, "gwB", TRUE, "eth0"), EditedPlan("none", <<>>, None, TRUE, "lo"),
     [EditedPlan("static", <<"A1">>, "gwA", FALSE, "eth0") EXCEPT !.dns = {}, !.v4.onlink = FALSE],
     [EditedPlan("static", <<"A2">>, "gwB", TRUE, "eth0") EXCEPT !.v6.static = <<"P1", "P2", "P1">>]}

MCFaults == {"routes4", "routes6", "rules", "link", "uplinks", "addresses", "probe"}
MCFactories == {Factory("ether1")}
=============================================================================
