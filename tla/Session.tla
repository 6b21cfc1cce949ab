-------------------------------- MODULE Session --------------------------------
(***************************************************************************)
(* Choosing the disk to erase: Run in src/internal/app/app.go with Detect  *)
(* in src/internal/disk/detect.go, which it calls twice, before the review *)
(* and after the operator's last confirmation.                             *)
(*                                                                         *)
(* Detect follows the block devices below the root filesystem, as lsblk    *)
(* shows them at that moment, down to a disk.  Meanwhile the machine goes  *)
(* on working: disks are plugged in and out, filesystems are mounted, and  *)
(* logical volumes move to other devices.                                  *)
(***************************************************************************)
EXTENDS Naturals, FiniteSets

CONSTANTS
    Devices, \* block devices, by kernel name
    Hosts,   \* the machines, see HostType
    Stacks,  \* what each device may lie on when the installer is started
    Below,   \* what each device may be moved to
    Live,    \* the root of a rescue system, which is no block device
    Nothing  \* no device

Kinds == {"disk", "part", "crypt", "lvm", "raid", "loop"}

\* The kinds that backingDisks takes for a safe storage stack.
Safe == {"disk", "part", "crypt", "lvm"}

\* What each device is, the device of the root filesystem, the name lsblk shows
\* for each device (the kernel name of another one, if a mapping was given that
\* name), the disks with an identity that outlives a reboot and those that are
\* read-only or removable.
HostType == [kind: [Devices -> Kinds], root: Devices \cup {Live}, name: [Devices -> Devices],
             stable: SUBSET Devices, unfit: SUBSET Devices]

\* For each device, those it lies on.
Graph == [Devices -> SUBSET Devices]

ASSUME DevicesAssumption == Live \notin Devices /\ Nothing \notin Devices
ASSUME FiniteAssumption == IsFiniteSet(Devices)
ASSUME BelowAssumption == Below \in [Devices -> SUBSET Devices]
ASSUME HostsAssumption ==
    /\ Hosts \subseteq HostType
    /\ \A h \in Hosts, d \in Devices : h.kind[d] = "disk" => h.name[d] = d
ASSUME StacksAssumption == Stacks \subseteq Graph

VARIABLES
    host,    \* the machine
    under,   \* the devices each device lies on
    visible, \* the disks that are plugged in
    mounted, \* the devices with a mounted filesystem or swap
    step,    \* where Run is
    again,   \* is this the detection after the review?
    parents, \* the graph that parseGraph made of it
    todo,    \* the devices that backingDisks has still to visit
    seen,    \* those it has visited
    target   \* the disk of the first detection, which the operator confirmed

world == <<under, visible, mounted>>
vars  == <<host, world, step, again, parents, todo, seen, target>>

IsDisk(d) == host.kind[d] = "disk"
DiskSet   == {d \in Devices : IsDisk(d)}

TypeOK ==
    /\ host \in Hosts
    /\ under \in Graph
    /\ visible \subseteq Devices
    /\ mounted \subseteq Devices
    /\ step \in {"lsblk", "visit", "choose", "review", "stage", "refused"}
    /\ again \in BOOLEAN
    /\ parents \in Graph
    /\ todo \subseteq Devices
    /\ seen \subseteq Devices
    /\ target \in Devices \cup {Nothing}

\* The devices that another one lies on directly.
InUse == UNION {under[d] : d \in Devices}

\* Disks and loop devices lie on nothing that lsblk would show, and nothing else
\* does so.
Grounded == \A d \in Devices : under[d] = {} <=> host.kind[d] \in {"disk", "loop"}

Init ==
    /\ host \in Hosts
    /\ under \in Stacks
    /\ Grounded
    /\ visible \in {v \in SUBSET DiskSet : (InUse \cup {host.root}) \cap DiskSet \subseteq v}
    /\ mounted = {host.root} \ {Live}
    /\ step = "lsblk"
    /\ again = FALSE
    /\ parents = [d \in Devices |-> {}]
    /\ todo = {}
    /\ seen = {}
    /\ target = Nothing

\* Everything below a device in a graph, itself included: what is in every set
\* that holds the device and all that its members lie on.
BelowIn(graph, start) ==
    {x \in Devices : \A S \in SUBSET Devices :
        start \in S /\ (\A d \in S : graph[d] \subseteq S) => x \in S}

-----------------------------------------------------------------------------
(* Detect.                                                                 *)

Misnamed == {d \in Devices : host.name[d] # d}

\* What parseGraph's byKey holds for a kernel name, if these misnamed devices
\* were listed after the devices whose name they have.
Resolved(later, k) ==
    LET namesakes == {d \in later : host.name[d] = k}
    IN  IF namesakes = {} THEN {k} ELSE namesakes

\* The graph, if these devices have a PKNAME that is a namesake's.
Linked(later, misled) ==
    [d \in Devices |->
        under[d] \cup (IF d \in misled THEN UNION {Resolved(later, p) : p \in under[d]} ELSE {})]

\* Mutant: the root of a rescue system is looked up like any other.
ParseGraph_NoLive ==
    /\ step = "lsblk"
    /\ parents' = under
    /\ todo' = {host.root}
    /\ seen' = {}
    /\ step' = "visit"
    /\ UNCHANGED <<host, world, again, target>>

\* lsblk, then parseGraph: the edges of the tree it prints, and those of PKNAME,
\* which it looks up by name.  A device is listed once under each device it lies
\* on and its last PKNAME counts, which need not be one with a namesake.
ParseGraph ==
    /\ step = "lsblk"
    /\ \E later \in SUBSET Misnamed, misled \in SUBSET Devices :
          /\ parents' = Linked(later, misled)
          /\ todo' = IF host.root = Live THEN {} ELSE Resolved(later, host.root)
    /\ seen' = {}
    /\ step' = IF host.root = Live THEN "choose" ELSE "visit"
    /\ UNCHANGED <<host, world, again, target>>

\* One call of visit in backingDisks, which does not look below a disk.
Visit ==
    /\ step = "visit"
    /\ \E d \in todo :
          /\ seen' = seen \cup {d}
          /\ todo' = (todo \cup (IF IsDisk(d) THEN {} ELSE parents[d])) \ (seen \cup {d})
    /\ UNCHANGED <<host, world, step, again, parents, target>>

\* Mutant: the blockers of the second detection are not looked at.
Identified_First(d) == again \/ d \in host.stable \/ Cardinality(visible) = 1

\* A disk without a stable identity will do only if it is the only one.
Identified(d) == d \in host.stable \/ Cardinality(visible) = 1

\* The graph lives as long as Detect.
ForgetGraph == parents' = [d \in Devices |-> {}] /\ seen' = {}

\* Mutant: the second detection is not compared with the first.
Found_NotCompared(d) ==
    /\ Identified(d)
    /\ ForgetGraph
    /\ \/ ~again /\ target' = d /\ step' = "review"
       \/ again /\ step' = "stage" /\ UNCHANGED target

\* Detect returns the disk without a blocker.  Run goes on to the review, or
\* compares the disk with that of the first detection.
Found(d) ==
    /\ Identified(d)
    /\ ForgetGraph
    /\ \/ ~again /\ target' = d /\ step' = "review"
       \/ again /\ target = d /\ step' = "stage" /\ UNCHANGED target

\* The root filesystem lies on one disk, by way of safe devices only.
RootBacked ==
    /\ step = "visit"
    /\ todo = {}
    /\ \A d \in seen : host.kind[d] \in Safe
    /\ \E d \in Devices : seen \cap DiskSet = {d} /\ Found(d)
    /\ UNCHANGED <<host, world, again, todo>>

\* Mutant: only a filesystem on the disk itself is noticed.
MountedAbove_Direct(d) == d \in mounted

\* hasMountedDescendant.
MountedAbove(d) == \E m \in mounted : d \in BelowIn(parents, m)

\* A rescue system: the one writable disk that is not in use.
Rescue ==
    /\ step = "choose"
    /\ \E d \in Devices :
          /\ {c \in visible \ host.unfit : ~MountedAbove(c)} = {d}
          /\ Found(d)
    /\ UNCHANGED <<host, world, again, todo>>

-----------------------------------------------------------------------------
(* Run.                                                                    *)

\* The review, the download and the last confirmation, then Detect again.
Review ==
    /\ step = "review"
    /\ step' = "lsblk"
    /\ again' = TRUE
    /\ UNCHANGED <<host, world, parents, todo, seen, target>>

\* Detect reports a blocker, of which only those above are modelled as such, the
\* operator declines, a step fails, or the two detections differ.
Refuse ==
    /\ step \in {"lsblk", "visit", "choose", "review"}
    /\ step' = "refused"
    /\ UNCHANGED <<host, world, again, parents, todo, seen, target>>

Run == ParseGraph \/ Visit \/ RootBacked \/ Rescue \/ Review \/ Refuse

-----------------------------------------------------------------------------
(* The machine changes at any time.  Detect sees it as lsblk does, at one     *)
(* moment: what changes while a detection runs shows to the next one only,   *)
(* as if it had changed during the review, and what changes before lsblk is  *)
(* run for the first time leaves another machine to begin with.              *)

\* A logical volume is moved to other devices, online.
Move ==
    /\ step = "review"
    /\ \E d \in Devices : \E onto \in SUBSET Below[d] :
          /\ host.kind[d] = "lvm"
          /\ onto # {}
          /\ onto \cap DiskSet \subseteq visible
          /\ under' = [under EXCEPT ![d] = onto]
    /\ UNCHANGED <<host, visible, mounted, step, again, parents, todo, seen, target>>

Plug ==
    /\ step = "review"
    /\ \E d \in DiskSet :
          \/ visible' = visible \cup {d}
          \/ d \notin InUse \cup mounted /\ visible' = visible \ {d}
    /\ UNCHANGED <<host, under, mounted, step, again, parents, todo, seen, target>>

Mount ==
    /\ step = "review"
    /\ \E d \in Devices \ {host.root} :
          /\ IsDisk(d) => d \in visible
          /\ mounted' = IF d \in mounted THEN mounted \ {d} ELSE mounted \cup {d}
    /\ UNCHANGED <<host, under, visible, step, again, parents, todo, seen, target>>

Next == Run \/ Move \/ Plug \/ Mount

Spec == Init /\ [][Next]_vars

-----------------------------------------------------------------------------
(* Properties of the machine as it was when lsblk was run for the last time, *)
(* after the operator's confirmation.                                        *)

\* The root filesystem rests on the target alone: whatever it lies on, directly
\* or not, and lies itself on nothing, is the disk the operator has confirmed.
RestsOnTarget ==
    \A x \in BelowIn(under, host.root) : under[x] = {} => x = target

\* README: the target is derived from the filesystem backing / and its ancestry
\* is rechecked after review.  Whatever the storage stack, and however it was
\* changed during the review, the disk that is staged for erasure is the only
\* one below the root filesystem, as long as no mapping goes by the kernel name
\* of another device.
TargetBacksRoot ==
    step = "stage" /\ host.root # Live /\ Misnamed = {} => RestsOnTarget

\* On a rescue system no filesystem above the target is in use, not even one
\* that was mounted during the review.
RescueTargetUnused ==
    step = "stage" /\ host.root = Live =>
        \A m \in mounted : target \notin BelowIn(under, m)

\* A target without a stable identity is still the only visible disk after the
\* review, for the writer will have nothing else to know it by.
FallbackAlone == step = "stage" /\ target \notin host.stable => visible = {target}

\* The README's claim without the restriction to truthful names.
TargetDerivedFromRoot == step = "stage" /\ host.root # Live => RestsOnTarget

=============================================================================
