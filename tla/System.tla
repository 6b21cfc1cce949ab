--------------------------------- MODULE System ---------------------------------
(***************************************************************************)
(* A server from the first attempt to CHR: Staging, Writer and WriterClock *)
(* composed.  The installer stages a writer, GRUB or kexec boots it, the   *)
(* writer judges the manifest of the copy that was booted, and what the    *)
(* machine boots afterwards depends on how far the disk was written.       *)
(*                                                                         *)
(* Only here do the stories of the parts meet: the initramfs that is       *)
(* booted may be one of an earlier attempt, the power may be cut while the *)
(* disk is written, and the writer may die instead of halting.             *)
(***************************************************************************)
EXTENDS Integers, FiniteSets

CONSTANTS
    Hosts, Faults, LateFaults, Interruptible, Crashes,          \* see Staging
    Disks, Target, Names, HostName, Looks, Uses, Chunks,        \* see Writer
    WriterFaults, Unplugs, Lossy, Corrupts,
    MaxAge, FutureLeeway, MaxRTCOffset, Lags,                   \* see WriterClock
    Attempts, \* how often the operator starts the installer
    Horizon   \* the time at which a model ends

ASSUME BoundsAssumption == Attempts \in Nat /\ Horizon \in Nat

VARIABLES
    host, step, method, fallback, todo, return, cleanFailed, known, cancelled,
    reported, kexecReport, before, struck, disk, durable, armed, loaded, reboot, spent

VARIABLES
    expected, look, place, use, inUse, media, wstep, expired, path, swapped, alone,
    target, chunk, hashed, cache, dirty, readback, source

VARIABLES
    now,      \* the time, which the system clock of the running Linux shows
    lag,      \* now minus the RTC
    attempt,  \* the number of the latest attempt
    stamps,   \* what NewManifest recorded of the clocks at each attempt
    copies,   \* the attempt that made each copy of the initramfs, 0 for none
    inherited \* was an entry armed when the latest attempt began, or was the
              \* power cut during its fallback?

staging == <<host, step, method, fallback, todo, return, cleanFailed, known,
             cancelled, reported, kexecReport, before, struck, disk, durable, armed,
             loaded, reboot, spent>>
writer  == <<expected, look, place, use, inUse, media, wstep, expired, path, swapped,
             alone, target, chunk, hashed, cache, dirty, readback, source>>
clock   == <<now, lag>>
trail   == <<attempt, stamps, copies, inherited>>
vars    == <<staging, writer, clock, trail>>

S == INSTANCE Staging
W == INSTANCE Writer WITH step <- wstep, Faults <- WriterFaults

\* The clock as the writer that is running sees it.
C == INSTANCE WriterClock WITH
        readable <- TRUE, staged <- copies.running # 0, outcome <- "none",
        created <- stamps[copies.running].created,
        offset <- stamps[copies.running].offset

\* The writer refuses manifests that are too old, and it relies on identities.
\* The RTC is off by no more than a manifest may record, and update-grub carries
\* the installer's handler into grub.cfg: Staging alone covers the other hosts.
ASSUME SystemAssumption ==
    /\ "manifest" \in WriterFaults
    /\ ~Unplugs
    /\ \A l \in Looks : l.id # W!None
    /\ Lags \subseteq -MaxRTCOffset .. MaxRTCOffset
    /\ \A h \in Hosts : h.handler

\* What Writer and WriterClock assume, as far as the composition rests on it.
ASSUME PartsAssumption ==
    /\ Target \in Disks /\ W!None \notin Disks \cup Names
    /\ Chunks \in Nat \ {0} /\ {MaxAge, MaxRTCOffset} \subseteq Nat

\* The initramfs in the build directory, in /boot as the running system sees it
\* and as a power cut would leave it, in the kernel's kexec slot, and running.
Copy == {"build", "initrd", "durable", "image", "running"}

Init ==
    /\ S!Init
    /\ W!Init
    /\ now = 0
    /\ lag \in Lags
    /\ attempt = 0
    /\ stamps = [a \in 0 .. Attempts |-> [created |-> 0, offset |-> 0]]
    /\ copies = [c \in Copy |-> 0]
    /\ inherited = FALSE

-----------------------------------------------------------------------------
(* The installer.                                                          *)

\* app.Run makes one manifest for the attempt, whichever way it is staged.
Start ==
    /\ attempt < Attempts
    /\ S!Start
    /\ attempt' = attempt + 1
    /\ stamps' = [stamps EXCEPT ![attempt + 1] =
                     [created |-> now, offset |-> C!MeasuredOffset]]
    /\ inherited' = armed
    /\ UNCHANGED <<writer, clock, copies>>

Made(there, a) == IF there THEN a ELSE 0

\* Mutant: an initramfs that is already in /boot is kept.
Copied_Kept ==
    IF step = "copyInitrd" /\ step' = "dropBuild" /\ copies.initrd = 0
    THEN copies.build ELSE copies.initrd

\* copyFileAtomic replaces the initramfs that an earlier attempt left in /boot.
Copied ==
    IF step = "copyInitrd" /\ step' = "dropBuild" THEN copies.build ELSE copies.initrd

\* Where the initramfs of which attempt is after a step of the installer.  A
\* kexec -l that is reported as failed may have replaced a loaded image.
Copying ==
    \E image \in {copies.build, copies.image} :
        /\ step = "kexecLoad" /\ known' => image = copies.build
        /\ step # "kexecLoad" \/ ~loaded => image = IF loaded THEN copies.image ELSE copies.build
        /\ copies' =
              [build   |-> Made(disk'["build"] = "full", IF step = "build" THEN attempt ELSE copies.build),
               initrd  |-> Made(disk'["initrd"] = "full", Copied),
               durable |-> IF step = "sync" /\ step' \in {"kexecLoad", "updateGrub"}
                           THEN copies.initrd ELSE copies.durable,
               image   |-> Made(loaded', image),
               running |-> 0]

Install ==
    /\ S!Installer
    /\ Copying
    /\ UNCHANGED <<writer, clock, attempt, stamps, inherited>>

Kill ==
    /\ S!Kill
    /\ copies' = [copies EXCEPT !.build =
                     Made(disk'["build"] = "full", IF step = "build" THEN attempt ELSE @)]
    /\ UNCHANGED <<writer, clock, attempt, stamps, inherited>>

-----------------------------------------------------------------------------
(* From one system to the next.                                            *)

\* A fresh writer, in a kernel that has not discovered any disk.
Fresh ==
    /\ place' = [d \in Disks |-> W!None]
    /\ wstep' = "manifest"
    /\ expired' = FALSE /\ path' = W!None /\ swapped' = FALSE /\ alone' = FALSE
    /\ target' = W!None /\ chunk' = 1 /\ hashed' = TRUE
    /\ cache' = W!NotCached /\ dirty' = {} /\ readback' = W!None
    /\ source' = [b \in W!Blocks |-> "image"]
    /\ use' = [d \in Disks |-> W!None] /\ inUse' = {}
    /\ UNCHANGED <<expected, look, media>>

\* The boot loader on the disk, and GRUB's files, are still the old ones.
Untouched == \A b \in W!Blocks : media[Target][b] = "old"
Imaged    == \A b \in W!Blocks : media[Target][b] = "image"

\* The machine goes down; a kexec reboot leads to the writer that was loaded.
Shutdown ==
    /\ S!Shutdown
    /\ copies' = [copies EXCEPT
                    !.build = Made(disk'["build"] = "full", IF step = "build" THEN attempt ELSE @),
                    !.durable = copies.initrd,
                    !.running = Made(step' = "writer", copies.image),
                    !.image = 0]
    /\ UNCHANGED <<writer, clock, attempt, stamps, inherited>>

PowerCut ==
    /\ S!PowerCut
    /\ inherited' = (inherited \/ fallback)
    /\ copies' = [copies EXCEPT
                    !.build = Made(disk'["build"] = "full", IF step = "build" THEN attempt ELSE @),
                    !.initrd = copies.durable,
                    !.image = 0]
    /\ UNCHANGED <<writer, clock, attempt, stamps>>

\* The kernel writes back what Linux has cached, a rename at a time.
WriteBack ==
    /\ \/ /\ S!WriteBack
          /\ durable'["initrd"] # durable["initrd"]
          /\ copies' = [copies EXCEPT !.durable = copies.initrd]
       \/ S!WriteBack /\ durable'["initrd"] = durable["initrd"] /\ UNCHANGED copies
       \/ /\ Crashes /\ S!LinuxUp
          /\ durable["initrd"] = disk["initrd"]
          /\ copies.durable # copies.initrd
          /\ copies' = [copies EXCEPT !.durable = copies.initrd]
          /\ UNCHANGED staging
    /\ UNCHANGED <<writer, clock, attempt, stamps, inherited>>

\* GRUB, while the disk still holds it.
BootOld ==
    /\ Untouched
    /\ S!Boot
    /\ copies' = [copies EXCEPT !.running = Made(step' = "writer", copies.initrd)]
    /\ UNCHANGED <<writer, clock, attempt, stamps, inherited>>

\* CHR from a whole image; a disk that holds a part of it boots nothing.
BootNew ==
    /\ step = "off"
    /\ ~Untouched
    /\ step' = IF Imaged THEN "chr" ELSE "dead"
    /\ UNCHANGED <<host, method, fallback, todo, return, cleanFailed, known,
                   cancelled, reported, kexecReport, before, struck, disk, durable,
                   armed, loaded, reboot, spent, writer, clock, trail>>

\* The machine is turned off at a prompt of GRUB or of the initramfs.
PowerCycle ==
    /\ step = "stuck"
    /\ S!PowerCycle
    /\ UNCHANGED <<writer, clock, trail>>

-----------------------------------------------------------------------------
(* The writer.                                                             *)

\* Mutant: validateTimestamp is not called.
Admitted_Always == TRUE

\* validateTimestamp, on the manifest that is in the running initramfs.
Admitted == C!ValidTimestamp(now - lag)

RunWriter ==
    /\ step = "writer"
    /\ W!Next
    /\ wstep = "manifest" /\ wstep' = "hash" => Admitted
    /\ UNCHANGED <<staging, clock, trail>>

LeaveWriter(next) ==
    /\ step' = next
    /\ Fresh
    /\ copies' = [copies EXCEPT !.running = 0]
    /\ UNCHANGED <<host, method, fallback, todo, return, cleanFailed, known,
                   cancelled, reported, kexecReport, before, struck, disk, durable,
                   armed, loaded, reboot, spent, clock, attempt, stamps, inherited>>

WriterReboots ==
    /\ step = "writer" /\ wstep = "rebooted"
    /\ LeaveWriter("off")

\* The power goes while the writer works, or the operator turns the machine off
\* after HaltWriter.
WriterOff ==
    /\ step = "writer"
    /\ wstep = "halted" \/ (Crashes /\ wstep \in W!Working)
    /\ LeaveWriter("off")

\* The writer's process dies without HaltWriter.  The premount script has
\* exec'ed it, so the boot goes on and mounts the root filesystem, if it is
\* still there.  The last close of a device writes back what is dirty of it.
WriterDies ==
    /\ Crashes
    /\ step = "writer" /\ wstep \in W!Working /\ dirty = {}
    /\ LeaveWriter(IF Untouched THEN "idle" ELSE "stuck")

-----------------------------------------------------------------------------
(* Time.  An attempt and a run of the writer are short against MaxAge.     *)

Waiting == step \in {"idle", "failed", "off", "stuck"} \/ (step = "writer" /\ wstep = "halted")

Tick ==
    /\ Waiting
    /\ now < Horizon
    /\ now' = now + 1
    /\ UNCHANGED <<staging, writer, lag, trail>>

\* Linux sets the RTC from the system clock.
SetRTC ==
    /\ step \in {"idle", "failed", "done"}
    /\ lag # 0 /\ 0 \in Lags
    /\ lag' = 0
    /\ UNCHANGED <<staging, writer, now, trail>>

Next ==
    \/ Start \/ Install \/ Kill
    \/ Shutdown \/ PowerCut \/ WriteBack \/ BootOld \/ BootNew \/ PowerCycle
    \/ RunWriter \/ WriterReboots \/ WriterOff \/ WriterDies
    \/ Tick \/ SetRTC

Spec == Init /\ [][Next]_vars

\* The calls of the writer return, a reboot completes and a machine that is
\* switched on boots.  Nothing is assumed of the operator or the power.
WriterWorks ==
    /\ step = "writer"
    /\ W!RunWriter \/ W!Deadline \/ W!WriteBack
    /\ wstep = "manifest" /\ wstep' = "hash" => Admitted
    /\ UNCHANGED <<staging, clock, trail>>

FairSpec ==
    /\ Spec
    /\ WF_vars(BootOld \/ BootNew)
    /\ WF_vars(WriterWorks)
    /\ WF_vars(WriterReboots)

-----------------------------------------------------------------------------
(* Properties.                                                             *)

\* The writer that runs is the one of the latest attempt, with the target and
\* the image confirmed in it, although GRUB knows the initramfs only by a fixed
\* path and a loaded kexec image by nothing at all.  The two exceptions are an
\* entry that was already armed when the attempt began, which PrepareStage does
\* not clear, and a power cut during the fallback, which is not synced.
LatestWriter == step = "writer" => copies.running = attempt \/ inherited

\* A machine does not stay between two systems for ever, however often the power
\* is cut: the one-shot entry is spent before the writer runs, so the writer is
\* not booted again and again.
Limbo   == step = "off" \/ (step = "writer" /\ wstep # "halted")
NoLimbo == Limbo ~> ~Limbo

\* What an owner sees of the machine: what runs, what the disks hold, and when
\* the installation was authorized.
RunningNow ==
    CASE step = "writer" -> IF wstep = "halted" THEN "halted"
                            ELSE IF wstep = "rebooted" THEN "finished"
                            ELSE IF wstep = "manifest" THEN "off" ELSE "writer"
      [] step \in {"off", "stuck"} -> "off"
      [] step \in {"chr", "dead"}  -> step
      [] OTHER -> "linux"

Content ==
    [d \in Disks |-> IF \A b \in W!Blocks : media[d][b] = "old"   THEN "old"
                     ELSE IF \A b \in W!Blocks : media[d][b] = "image" THEN "new"
                     ELSE "torn"]

Abstract == INSTANCE SafeInstall WITH
                running <- RunningNow, content <- Content,
                authorized <- {stamps[a].created : a \in 1 .. attempt},
                Limit <- MaxAge + MaxRTCOffset

\* Staging, the writer and the clock together keep what SafeInstall promises.
InstallsSafely == Abstract!Spec

=============================================================================
