----------------------------- MODULE SessionProofs -----------------------------
(***************************************************************************)
(* Proofs about Session, for any number of devices and any storage stacks. *)
(*                                                                         *)
(* That the traversal of backingDisks finds everything below the root is   *)
(* usually shown by induction along a path.  Here "below" is defined by    *)
(* closed sets, so it is enough that the set of visited devices is closed  *)
(* once nothing is left to visit.                                          *)
(***************************************************************************)
EXTENDS Session, FiniteSetTheorems, TLAPS

-----------------------------------------------------------------------------
\* What is below a device in a graph is below it in any larger graph.
LEMMA BelowGrows ==
    ASSUME NEW small \in Graph, NEW large \in Graph, NEW start \in Devices,
           \A d \in Devices : small[d] \subseteq large[d]
    PROVE  BelowIn(small, start) \subseteq BelowIn(large, start)
<1> SUFFICES ASSUME NEW x \in BelowIn(small, start), NEW S \in SUBSET Devices,
                    start \in S, \A d \in S : large[d] \subseteq S
             PROVE  x \in S
    BY DEF BelowIn
<1>1. \A d \in S : small[d] \subseteq S
    OBVIOUS
<1>2. QED
    BY <1>1 DEF BelowIn

\* A set that is closed under a graph holds everything below its members.
LEMMA BelowClosed ==
    ASSUME NEW graph \in Graph, NEW S \in SUBSET Devices, NEW start \in S,
           \A d \in S : graph[d] \subseteq S
    PROVE  BelowIn(graph, start) \subseteq S
BY DEF BelowIn

-----------------------------------------------------------------------------
\* The graph of parseGraph lacks no edge.
Complete == step \in {"visit", "choose"} => \A d \in Devices : under[d] \subseteq parents[d]

\* The traversal has started at the root and has left nothing out.
Traversed ==
    step = "visit" /\ Misnamed = {} =>
        /\ host.root \in seen \cup todo
        /\ \A d \in seen : ~IsDisk(d) => parents[d] \subseteq seen \cup todo

\* A rescue system chooses, any other traverses.
Parted == (step = "visit" => host.root # Live) /\ (step = "choose" => host.root = Live)

Typed    == TypeOK /\ Grounded
Explored == Complete /\ Traversed /\ Parted

-----------------------------------------------------------------------------
LEMMA TypedInit == ASSUME Init PROVE Typed
BY HostsAssumption, StacksAssumption DEF Init, Typed, TypeOK, HostType, Graph, DiskSet

LEMMA ResolvedDevices ==
    ASSUME NEW later \in SUBSET Devices, NEW k \in Devices
    PROVE  Resolved(later, k) \subseteq Devices
BY DEF Resolved

LEMMA TypedStep == ASSUME Typed, [Next]_vars PROVE Typed'
<1> USE DEF Typed, TypeOK, Grounded
<1>h. host.root \in Devices \cup {Live} /\ host.kind \in [Devices -> Kinds]
    BY HostsAssumption DEF HostType
<1>1. CASE ParseGraph
    <2> USE <1>1 DEF ParseGraph, world
    <2>1. PICK later \in SUBSET Misnamed, misled \in SUBSET Devices :
              /\ parents' = Linked(later, misled)
              /\ todo' = IF host.root = Live THEN {} ELSE Resolved(later, host.root)
        OBVIOUS
    <2>2. later \in SUBSET Devices
        BY DEF Misnamed
    <2>3. \A d \in Devices : under[d] \subseteq Devices
        BY DEF Graph
    <2>4. \A d \in Devices : UNION {Resolved(later, p) : p \in under[d]} \subseteq Devices
        BY <2>2, <2>3, ResolvedDevices
    <2>5. parents' \in Graph
        BY <2>1, <2>3, <2>4 DEF Graph, Linked
    <2>6. todo' \subseteq Devices
        BY <1>h, <2>1, <2>2, ResolvedDevices
    <2>7. QED
        BY <2>5, <2>6
<1>2. CASE Visit
    BY <1>2 DEF Visit, world, Graph
<1>3. CASE RootBacked
    BY <1>3 DEF RootBacked, Found, ForgetGraph, world, Graph
<1>4. CASE Rescue
    BY <1>4 DEF Rescue, Found, ForgetGraph, world, Graph
<1>5. CASE Review
    BY <1>5 DEF Review, world
<1>6. CASE Refuse
    BY <1>6 DEF Refuse, world
<1>7. CASE Move
    <2>1. PICK d \in Devices : \E onto \in SUBSET Below[d] :
              /\ host.kind[d] = "lvm"
              /\ onto # {}
              /\ under' = [under EXCEPT ![d] = onto]
        BY <1>7 DEF Move
    <2>2. under' \in Graph
        BY <2>1, BelowAssumption DEF Graph
    <2>3. QED
        BY <1>7, <2>1, <2>2 DEF Move, Graph
<1>8. CASE Plug
    BY <1>8 DEF Plug, DiskSet
<1>9. CASE Mount
    BY <1>9 DEF Mount
<1>10. CASE UNCHANGED vars
    BY <1>10 DEF vars, world
<1>11. QED
    BY <1>1, <1>2, <1>3, <1>4, <1>5, <1>6, <1>7, <1>8, <1>9, <1>10 DEF Next, Run

LEMMA ExploredStep == ASSUME Typed, Explored, [Next]_vars PROVE Explored'
<1> USE DEF Explored, Complete, Traversed, Parted
<1>1. CASE ParseGraph
    <2> USE <1>1 DEF ParseGraph, world
    <2>1. Complete'
        BY DEF Linked
    <2>2. Traversed'
        <3> SUFFICES ASSUME step' = "visit", Misnamed' = {}
                     PROVE  host.root \in seen' \cup todo' /\ seen' = {}
            OBVIOUS
        <3>1. Misnamed = {}
            BY DEF Misnamed
        <3>2. todo' = Resolved({}, host.root)
            BY <3>1
        <3>3. QED
            BY <3>2 DEF Resolved
    <2>3. QED
        BY <2>1, <2>2
<1>2. CASE Visit
    BY <1>2 DEF Visit, world, Typed, TypeOK, Misnamed, IsDisk
<1>3. CASE RootBacked
    BY <1>3 DEF RootBacked, Found
<1>4. CASE Rescue
    BY <1>4 DEF Rescue, Found
<1>5. CASE Review
    BY <1>5 DEF Review
<1>6. CASE Refuse
    BY <1>6 DEF Refuse
<1>7. CASE Move \/ Plug \/ Mount
    BY <1>7 DEF Move, Plug, Mount
<1>8. CASE UNCHANGED vars
    BY <1>8 DEF vars, world, Misnamed, IsDisk
<1>9. QED
    BY <1>1, <1>2, <1>3, <1>4, <1>5, <1>6, <1>7, <1>8 DEF Next, Run

-----------------------------------------------------------------------------
\* RootBacked stages a disk that the whole root filesystem rests on.
LEMMA RootBackedRests ==
    ASSUME Typed, Explored, RootBacked, step' = "stage", Misnamed = {}
    PROVE  RestsOnTarget'
<1>1. PICK d \in Devices : seen \cap DiskSet = {d} /\ Found(d)
    BY DEF RootBacked
<1>2. target' = d
    BY <1>1 DEF Found
<1>3. host' = host /\ under' = under
    BY DEF RootBacked, world
<1>4. under \in Graph /\ seen \in SUBSET Devices
    BY DEF Typed, TypeOK
<1>5. host.root \in seen
    BY DEF RootBacked, Explored, Traversed
<1>6. \A e \in seen : under[e] \subseteq seen
    <2> SUFFICES ASSUME NEW e \in seen PROVE under[e] \subseteq seen
        OBVIOUS
    <2>1. CASE IsDisk(e)
        BY <2>1, <1>4 DEF Typed, Grounded, IsDisk
    <2>2. CASE ~IsDisk(e)
        BY <2>2, <1>4 DEF RootBacked, Explored, Traversed, Complete
    <2>3. QED
        BY <2>1, <2>2
<1>7. BelowIn(under, host.root) \subseteq seen
    BY <1>4, <1>5, <1>6, BelowClosed
<1>8. SUFFICES ASSUME NEW x \in BelowIn(under, host.root), under[x] = {}
               PROVE  x = d
    BY <1>2, <1>3 DEF RestsOnTarget, BelowIn
<1>9. host.kind[x] \in {"disk", "loop"} /\ host.kind[x] \in Safe
    BY <1>4, <1>7, <1>8 DEF Typed, Grounded, RootBacked
<1>10. x \in seen \cap DiskSet
    BY <1>4, <1>7, <1>8, <1>9 DEF DiskSet, IsDisk, Safe
<1>11. QED
    BY <1>1, <1>10

LEMMA BacksRootStep ==
    ASSUME Typed, Explored, TargetBacksRoot, [Next]_vars
    PROVE  TargetBacksRoot'
<1> SUFFICES ASSUME (step = "stage" /\ host.root # Live /\ Misnamed = {})'
             PROVE  RestsOnTarget'
    BY DEF TargetBacksRoot
<1>1. CASE RootBacked
    <2>1. Misnamed = {}
        BY <1>1 DEF RootBacked, Misnamed
    <2>2. QED
        BY <1>1, <2>1, RootBackedRests
<1>2. CASE Rescue
    BY <1>2 DEF Rescue, Explored, Parted
<1>3. CASE ParseGraph \/ Visit \/ Review \/ Refuse
    BY <1>3 DEF ParseGraph, Visit, Review, Refuse
<1>4. CASE Move \/ Plug \/ Mount
    BY <1>4 DEF Move, Plug, Mount
<1>5. CASE UNCHANGED vars
    BY <1>5 DEF vars, world, TargetBacksRoot, RestsOnTarget, BelowIn, Misnamed
<1>6. QED
    BY <1>1, <1>2, <1>3, <1>4, <1>5 DEF Next, Run

LEMMA RescueStep ==
    ASSUME Typed, Explored, RescueTargetUnused, [Next]_vars
    PROVE  RescueTargetUnused'
<1> SUFFICES ASSUME (step = "stage" /\ host.root = Live)', NEW m \in mounted'
             PROVE  target' \notin BelowIn(under', m)
    BY DEF RescueTargetUnused
<1>1. CASE Rescue
    <2>1. PICK d \in Devices :
              {c \in visible \ host.unfit : ~MountedAbove(c)} = {d} /\ Found(d)
        BY <1>1 DEF Rescue
    <2>2. target' = d /\ ~MountedAbove(d)
        BY <2>1 DEF Found
    <2>3. under' = under /\ mounted' = mounted
        BY <1>1 DEF Rescue, world
    <2>4. m \in Devices /\ under \in Graph /\ parents \in Graph
        BY <2>3 DEF Typed, TypeOK
    <2>5. BelowIn(under, m) \subseteq BelowIn(parents, m)
        BY <1>1, <2>4, BelowGrows DEF Rescue, Explored, Complete
    <2>6. QED
        BY <2>2, <2>3, <2>5 DEF MountedAbove
<1>2. CASE RootBacked
    BY <1>2 DEF RootBacked, Explored, Parted
<1>3. CASE ParseGraph \/ Visit \/ Review \/ Refuse
    BY <1>3 DEF ParseGraph, Visit, Review, Refuse
<1>4. CASE Move \/ Plug \/ Mount
    BY <1>4 DEF Move, Plug, Mount
<1>5. CASE UNCHANGED vars
    BY <1>5 DEF vars, world, RescueTargetUnused, BelowIn
<1>6. QED
    BY <1>1, <1>2, <1>3, <1>4, <1>5 DEF Next, Run

-----------------------------------------------------------------------------
LEMMA Basics == Spec => [](Typed /\ Explored)
<1>1. Init => Typed /\ Explored
    BY TypedInit DEF Init, Explored, Complete, Traversed, Parted
<1>2. Typed /\ Explored /\ [Next]_vars => (Typed /\ Explored)'
    BY TypedStep, ExploredStep
<1>3. QED
    BY <1>1, <1>2, PTL DEF Spec

\* Every reachable state of app.Run and the machine is well typed.
THEOREM SessionTypeCorrect == Spec => []TypeOK
<1>1. Typed => TypeOK
    BY DEF Typed
<1>2. QED
    BY <1>1, Basics, PTL

\* Whatever the storage stack and its changes during the review, the disk that
\* app.Run stages for erasure is the only one below the root filesystem.
THEOREM TargetIsRoot == Spec => []TargetBacksRoot
<1>1. Init => TargetBacksRoot
    BY DEF Init, TargetBacksRoot
<1>2. Typed /\ Explored /\ TargetBacksRoot /\ [Next]_vars => TargetBacksRoot'
    BY BacksRootStep
<1>3. QED
    BY <1>1, <1>2, Basics, PTL DEF Spec

\* On a rescue system, app.Run stages a disk only if no filesystem above it is
\* mounted, whatever lsblk calls the devices in between.
THEOREM RescueIsUnused == Spec => []RescueTargetUnused
<1>1. Init => RescueTargetUnused
    BY DEF Init, RescueTargetUnused
<1>2. Typed /\ Explored /\ RescueTargetUnused /\ [Next]_vars => RescueTargetUnused'
    BY RescueStep
<1>3. QED
    BY <1>1, <1>2, Basics, PTL DEF Spec

-----------------------------------------------------------------------------
\* The disks that something in use lies on stay plugged in, and the traversal
\* comes by no other disk.
Plugged ==
    /\ (InUse \cup {host.root}) \cap DiskSet \subseteq visible
    /\ host.root # Live => host.root \in mounted

Present == step = "visit" => (seen \cup todo) \cap DiskSet \subseteq visible

\* A disk goes by its own name: what is resolved to a disk is that disk.
LEMMA ResolvedDisk ==
    ASSUME Typed, NEW later \in SUBSET Misnamed, NEW k \in Devices,
           NEW d \in Resolved(later, k), d \in DiskSet
    PROVE  d = k
<1>1. \A e \in DiskSet : host.name[e] = e
    BY HostsAssumption DEF Typed, TypeOK, DiskSet, IsDisk
<1>2. QED
    BY <1>1 DEF Resolved, Misnamed

\* So the graph of parseGraph leads to no disk but those in use.
LEMMA ParentsInUse ==
    ASSUME Typed, NEW later \in SUBSET Misnamed, NEW misled \in SUBSET Devices, NEW d \in Devices
    PROVE  Linked(later, misled)[d] \cap DiskSet \subseteq InUse
<1> SUFFICES ASSUME NEW x \in Linked(later, misled)[d], x \in DiskSet PROVE x \in InUse
    OBVIOUS
<1>1. under[d] \subseteq Devices
    BY DEF Typed, TypeOK, Graph
<1>2. CASE x \in under[d]
    BY <1>2 DEF InUse
<1>3. CASE x \notin under[d]
    <2>1. PICK p \in under[d] : x \in Resolved(later, p)
        BY <1>3 DEF Linked
    <2>2. x = p
        BY <1>1, <2>1, ResolvedDisk
    <2>3. QED
        BY <2>1, <2>2 DEF InUse
<1>4. QED
    BY <1>2, <1>3

\* Nothing of the graph of a running detection leads to an absent disk.
Leads == step = "visit" => \A d \in Devices : parents[d] \cap DiskSet \subseteq InUse

Visible == Plugged /\ Present /\ Leads

LEMMA VisibleStep == ASSUME Typed, Visible, [Next]_vars PROVE Visible'
<1> USE DEF Visible, Plugged, Present, Leads
<1>d. DiskSet' = DiskSet
    BY DEF DiskSet, IsDisk, Next, Run, vars, ParseGraph, Visit, RootBacked, Rescue, Review, Refuse,
           Move, Plug, Mount
<1>1. CASE ParseGraph
    <2>1. PICK later \in SUBSET Misnamed, misled \in SUBSET Devices :
              /\ parents' = Linked(later, misled)
              /\ todo' = IF host.root = Live THEN {} ELSE Resolved(later, host.root)
        BY <1>1 DEF ParseGraph
    <2>2. UNCHANGED <<host, under, visible, mounted>> /\ seen' = {}
        BY <1>1 DEF ParseGraph, world
    <2>3. InUse' = InUse
        BY <2>2 DEF InUse
    <2>4. Leads'
        BY <1>d, <2>1, <2>3, ParentsInUse
    <2>5. todo' \cap DiskSet \subseteq visible
        <3> SUFFICES ASSUME host.root # Live, NEW x \in todo', x \in DiskSet PROVE x \in visible
            BY <2>1
        <3>1. host.root \in Devices
            BY HostsAssumption DEF Typed, TypeOK, HostType
        <3>2. x = host.root
            BY <2>1, <3>1, ResolvedDisk
        <3>3. QED
            BY <3>2
    <2>6. QED
        BY <1>d, <2>2, <2>3, <2>4, <2>5
<1>2. CASE Visit
    <2>1. PICK d \in todo :
              /\ seen' = seen \cup {d}
              /\ todo' = (todo \cup (IF IsDisk(d) THEN {} ELSE parents[d])) \ (seen \cup {d})
        BY <1>2 DEF Visit
    <2>2. UNCHANGED <<host, under, visible, mounted, step, parents>> /\ step = "visit"
        BY <1>2 DEF Visit, world
    <2>3. InUse' = InUse
        BY <2>2 DEF InUse
    <2>4. d \in Devices /\ parents[d] \cap DiskSet \subseteq visible
        BY <2>2 DEF Typed, TypeOK
    <2>5. (seen' \cup todo') \cap DiskSet \subseteq visible
        BY <2>1, <2>2, <2>4
    <2>6. QED
        BY <1>d, <2>2, <2>3, <2>5
<1>3. CASE RootBacked \/ Rescue \/ Review \/ Refuse
    <2>1. UNCHANGED <<host, under, visible, mounted>> /\ step' # "visit"
        BY <1>3 DEF RootBacked, Rescue, Found, Review, Refuse, world
    <2>2. InUse' = InUse
        BY <2>1 DEF InUse
    <2>3. QED
        BY <1>d, <2>1, <2>2
<1>4. CASE Move
    <2>1. PICK d \in Devices : \E onto \in SUBSET Below[d] :
              /\ onto \cap DiskSet \subseteq visible
              /\ under' = [under EXCEPT ![d] = onto]
        BY <1>4 DEF Move
    <2>2. UNCHANGED <<host, visible, mounted>> /\ step' = "review"
        BY <1>4 DEF Move
    <2>3. \A e \in Devices : under'[e] = under[e] \/ under'[e] \cap DiskSet \subseteq visible
        BY <2>1 DEF Typed, TypeOK, Graph
    <2>4. InUse' \cap DiskSet \subseteq visible
        BY <2>3 DEF InUse
    <2>5. QED
        BY <1>d, <2>2, <2>4
<1>5. CASE Plug
    <2>1. PICK d \in DiskSet :
              \/ visible' = visible \cup {d}
              \/ d \notin InUse \cup mounted /\ visible' = visible \ {d}
        BY <1>5 DEF Plug
    <2>2. UNCHANGED <<host, under, mounted>> /\ step' = "review"
        BY <1>5 DEF Plug
    <2>3. InUse' = InUse /\ (host.root \in DiskSet => host.root # Live)
        BY <2>2, DevicesAssumption DEF InUse, DiskSet
    <2>4. QED
        BY <1>d, <2>1, <2>2, <2>3
<1>6. CASE Mount
    <2>1. UNCHANGED <<host, under, visible>> /\ step' = "review"
        BY <1>6 DEF Mount
    <2>2. InUse' = InUse /\ (host.root \in mounted => host.root \in mounted')
        BY <1>6, <2>1 DEF InUse, Mount
    <2>3. QED
        BY <1>d, <2>1, <2>2
<1>7. CASE UNCHANGED vars
    BY <1>d, <1>7 DEF vars, world, InUse
<1>8. QED
    BY <1>1, <1>2, <1>3, <1>4, <1>5, <1>6, <1>7 DEF Next, Run

\* The only visible disk is the one that was found.
LEMMA OnlyVisible ==
    ASSUME Typed, NEW d \in visible, Cardinality(visible) = 1
    PROVE  visible = {d}
<1>1. IsFiniteSet(visible)
    BY FiniteAssumption, FS_Subset DEF Typed, TypeOK
<1>2. QED
    BY <1>1, FS_Singleton

LEMMA AloneStep ==
    ASSUME Typed, Visible, FallbackAlone, [Next]_vars
    PROVE  FallbackAlone'
<1> SUFFICES ASSUME (step = "stage" /\ target \notin host.stable)' PROVE visible' = {target'}
    BY DEF FallbackAlone
<1>1. CASE RootBacked
    <2>1. PICK d \in Devices : seen \cap DiskSet = {d} /\ Found(d)
        BY <1>1 DEF RootBacked
    <2>2. target' = d /\ host' = host /\ visible' = visible
        BY <1>1, <2>1 DEF RootBacked, Found, world
    <2>3. d \in visible
        BY <1>1, <2>1 DEF RootBacked, Visible, Present
    <2>4. QED
        BY <2>1, <2>2, <2>3, OnlyVisible DEF Found, Identified
<1>2. CASE Rescue
    <2>1. PICK d \in Devices :
              {c \in visible \ host.unfit : ~MountedAbove(c)} = {d} /\ Found(d)
        BY <1>2 DEF Rescue
    <2>2. target' = d /\ host' = host /\ visible' = visible
        BY <1>2, <2>1 DEF Rescue, Found, world
    <2>3. d \in visible
        BY <2>1
    <2>4. QED
        BY <2>1, <2>2, <2>3, OnlyVisible DEF Found, Identified
<1>3. CASE ParseGraph \/ Visit \/ Review \/ Refuse
    BY <1>3 DEF ParseGraph, Visit, Review, Refuse
<1>4. CASE Move \/ Plug \/ Mount
    BY <1>4 DEF Move, Plug, Mount
<1>5. CASE UNCHANGED vars
    BY <1>5 DEF vars, world, FallbackAlone
<1>6. QED
    BY <1>1, <1>2, <1>3, <1>4, <1>5 DEF Next, Run

\* A disk that the writer will know by its name and size only is staged only if
\* no other disk is visible after the review.
THEOREM FallbackStagedAlone == Spec => []FallbackAlone
<1>1. Init => Visible /\ FallbackAlone
    BY DEF Init, Visible, Plugged, Present, Leads, FallbackAlone
<1>2. Typed /\ Visible /\ FallbackAlone /\ [Next]_vars => (Visible /\ FallbackAlone)'
    BY VisibleStep, AloneStep
<1>3. QED
    BY <1>1, <1>2, Basics, PTL DEF Spec

=============================================================================
