------------------------------- MODULE MCSession -------------------------------
(* The instances of Session that TLC checks: two disks, a partition, a       *)
(* mapping or array, and something on top of it.                             *)
EXTENDS Session

MCDevices == {"sda", "sdb", "sda1", "dm-0", "dm-1"}

MCBelow ==
    [d \in MCDevices |->
        CASE d = "sda1" -> {"sda"}
          [] d = "dm-0" -> {"sda1", "sdb"}
          [] d = "dm-1" -> {"dm-0", "sda1", "sdb"}
          [] OTHER      -> {}]

MCKinds ==
    {[d \in MCDevices |->
        CASE d = "sda1" -> "part" [] d = "dm-0" -> k [] d = "dm-1" -> l [] OTHER -> "disk"] :
            k \in {"crypt", "lvm", "raid"}, l \in {"lvm", "loop"}}

MCStacks ==
    {[d \in MCDevices |->
        CASE d = "dm-0" -> a [] d = "dm-1" -> b [] OTHER -> MCBelow[d]] :
            a \in SUBSET MCBelow["dm-0"], b \in SUBSET MCBelow["dm-1"]}

Truthful == [d \in MCDevices |-> d]

MachinesNamed(names, roots) ==
    [kind: MCKinds, root: roots, name: names,
     stable: {{}, {"sda", "sdb"}}, unfit: {{}, {"sdb"}}]

\* An encrypted mapping that somebody has called sda1.
MisnamedHosts ==
    {h \in MachinesNamed({[Truthful EXCEPT !["dm-0"] = "sda1"]}, {"sda1", "dm-1", "live"}) :
        h.kind["dm-0"] = "crypt" /\ h.stable # {} /\ h.unfit = {}}

MCHosts == MachinesNamed({Truthful}, {"sda1", "dm-1", "live"}) \cup MisnamedHosts
=============================================================================
