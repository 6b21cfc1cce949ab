------------------------------- MODULE Staging -------------------------------
(***************************************************************************)
(* Staging the RAM writer and handing the machine over to it, as done by   *)
(* StageAndBoot in src/internal/install/stage.go and everything it calls:  *)
(* PrepareStage, executeKexec, executeGRUB, cleanupStage and               *)
(* cleanupPartialStage.                                                    *)
(*                                                                         *)
(* The actors are the installer process, the operator (who may press       *)
(* Ctrl-C, kill the process, or run the installer again), the machine      *)
(* (write-back of cached files, power cuts, an orderly shutdown that runs  *)
(* concurrently with the installer once it is requested) and GRUB, which   *)
(* decides at boot time what runs next.                                    *)
(*                                                                         *)
(* Step names are those of the Go calls; an external command is one step   *)
(* with three outcomes: it works, it fails without effect, or it takes     *)
(* effect and is then reported as failed (it is killed when the context is *)
(* cancelled, or exits non-zero late).                                     *)
(*                                                                         *)
(* Ctrl-C does two things.  The first cancels the context; each one, also  *)
(* after the first, is a SIGINT to the terminal's foreground process       *)
(* group, which the commands share with the installer (OSRunner.Run sets   *)
(* no Setpgid), those of the cleanups included.                            *)
(***************************************************************************)
EXTENDS Naturals, FiniteSets

CONSTANTS
    Hosts,         \* the hosts configureStaging may have described, see HostType
    Faults,        \* the steps and removals that may fail without effect
    LateFaults,    \* the commands that may take effect and still report failure
    Interruptible, \* may Ctrl-C or SIGTERM cancel the context?
    Crashes        \* may the process be killed or the power be cut?

\* How a host was described by configureStaging (method, GRUB usable as well),
\* whether its update-grub output carries the installer's one-shot handler, and
\* whether grub-reboot writes the grubenv that GRUB and the installer use.
HostType == [method: {"kexec", "grub"}, grub: BOOLEAN, handler: BOOLEAN, env: BOOLEAN]

ASSUME HostsAssumption ==
    /\ Hosts \subseteq HostType
    /\ \A h \in Hosts : h.method = "grub" => h.grub
ASSUME FlagsAssumption == Interruptible \in BOOLEAN /\ Crashes \in BOOLEAN

PrepareSteps == {"makeBuildDir", "clearBuild", "buildSpace", "build", "memory",
                 "makeBootDir", "bootSpace", "copyInitrd", "dropBuild",
                 "renderScript", "writeScript"}
KexecSteps   == {"kexecLoad", "systemctlKexec", "kexecExec", "kexecUnload"}
GrubSteps    == {"updateGrub", "checkConfig", "checkStorage", "arm", "verify",
                 "systemctlReboot", "reboot"}
CleanupSteps == {"cleanup", "partialCleanup"}

\* The steps at which the installer process is running.
Running == PrepareSteps \cup {"sync"} \cup KexecSteps \cup GrubSteps \cup CleanupSteps

\* Linux is up but the installer is not at work: not started or killed ("idle"),
\* returned an error ("failed") or returned nil ("done").
Quiet == {"idle", "failed", "done"}

\* The machine is powered off or in GRUB, runs the writer, or GRUB is stuck.
Down == {"off", "writer", "stuck"}

\* What staging puts on the root disk.  "menu" is the installer's part of
\* grub.cfg; it is "partial" when the entry is there without its handler.
Artifacts == {"build", "initrd", "script", "menu", "buildDir", "bootDir"}
\* The artifacts GRUB or update-grub reads, whose loss in a power cut matters.
BootFiles == {"initrd", "script", "menu"}
Content   == {"absent", "partial", "full"}

\* What the cleanups need a command for: grub-editenv unset, update-grub, kexec -u.
CleanupCommands == {"armed", "menu", "kexec"}

VARIABLES
    host,        \* what preflight found
    step,        \* where the installer, or else the machine, is
    method,      \* disk.Method
    fallback,    \* is this the GRUB attempt after a failed kexec?
    todo,        \* what the cleanup under way, or the deferred one, removes
    return,      \* where the cleanup under way was called from
    cleanFailed, \* has the cleanup under way collected an error?
    known,       \* executeKexec's variable loaded
    cancelled,   \* has the context been cancelled?
    reported,    \* the removals that the error to be returned says failed
    kexecReport, \* those of kexecErr, while the GRUB fallback runs
    before,      \* the residue found when this attempt began
    struck,      \* the cleanup commands that a Ctrl-C hit (history)
    disk,        \* the artifacts as the running system sees them
    durable,     \* the boot files as a power cut would leave them
    armed,       \* next_entry=chr-install-writer in grubenv
    loaded,      \* does the kernel hold a pending kexec image?
    reboot,      \* the reboot under way: "no", "grub" or "kexec"
    spent        \* has GRUB booted the writer since the entry was last armed?

process == <<method, fallback, todo, return, cleanFailed, known>>
reports == <<reported, kexecReport, before, struck>>
machine == <<disk, durable, armed, loaded, reboot, spent>>
vars    == <<host, step, process, cancelled, reports, machine>>

\* What this installer has left on the root disk and in grubenv.
Residue == {a \in Artifacts : disk[a] # "absent"}
           \cup (IF armed THEN {"armed"} ELSE {})

ProcessTypeOK ==
    /\ step \in Running \cup Quiet \cup Down
    /\ method \in {"kexec", "grub"}
    /\ fallback \in BOOLEAN
    /\ todo \subseteq Artifacts \cup {"armed"}
    /\ return \in {"none", "sync", "loaded", "kexec", "grub"}
    /\ cleanFailed \in BOOLEAN
    /\ known \in BOOLEAN
    /\ cancelled \in BOOLEAN

ReportTypeOK ==
    /\ reported \subseteq Artifacts \cup {"armed", "kexec"}
    /\ kexecReport \subseteq Artifacts \cup {"armed", "kexec"}
    /\ before \subseteq Artifacts \cup {"armed"}
    /\ struck \subseteq CleanupCommands

MachineTypeOK ==
    /\ disk \in [Artifacts -> Content]
    /\ durable \in [BootFiles -> Content]
    /\ armed \in BOOLEAN
    /\ loaded \in BOOLEAN
    /\ reboot \in {"no", "grub", "kexec"}
    /\ spent \in BOOLEAN

TypeOK == host \in Hosts /\ ProcessTypeOK /\ ReportTypeOK /\ MachineTypeOK

Init ==
    /\ host \in Hosts
    /\ step = "idle"
    /\ method = host.method
    /\ fallback = FALSE
    /\ todo = {}
    /\ return = "none"
    /\ cleanFailed = FALSE
    /\ known = FALSE
    /\ cancelled = FALSE
    /\ reported = {}
    /\ kexecReport = {}
    /\ before = {}
    /\ struck = {}
    /\ disk = [a \in Artifacts |-> "absent"]
    /\ durable = [f \in BootFiles |-> "absent"]
    /\ armed = FALSE
    /\ loaded = FALSE
    /\ reboot = "no"
    /\ spent = FALSE

-----------------------------------------------------------------------------
(* The outcomes of a step.  exec.CommandContext refuses to start a command *)
(* once the context is done and kills the one that is running.             *)

\* The operator presses Ctrl-C, for the first time or again.
CtrlC == Interruptible /\ cancelled' = TRUE

\* Before or during a command of the caller's context; later ones are not started.
Interrupt == ~cancelled /\ CtrlC

\* A command runs to its end and succeeds.
Works == ~cancelled /\ UNCHANGED cancelled

\* A command is not started, or fails without effect.
Fails(s) ==
    \/ (cancelled \/ s \in Faults) /\ UNCHANGED cancelled
    \/ Interrupt

\* A command takes effect and its caller is told that it failed.
FailsLate(s) ==
    \/ ~cancelled /\ s \in LateFaults /\ UNCHANGED cancelled
    \/ Interrupt

\* Where a failure leads: cleanupStage, called with these artifacts to remove.
CallCleanup(caller, artifacts) ==
    /\ step' = "cleanup"
    /\ todo' = artifacts
    /\ return' = caller
    /\ cleanFailed' = FALSE
    /\ UNCHANGED <<method, fallback, known>>

\* Mutants: the GRUB script is not among what is removed, ...
StageArtifacts_NoScript ==
    IF method = "grub" THEN {"initrd", "bootDir", "buildDir"} ELSE {"build", "buildDir"}

\* ... or a kexec stage lists the loaded image as if it were a file.
StageArtifacts_Image ==
    IF method = "grub" THEN {"script", "initrd", "bootDir", "buildDir"}
                       ELSE {"build", "buildDir", "image"}

\* The files and directories of a Stage value, by method.
StageArtifacts ==
    IF method = "grub" THEN {"script", "initrd", "bootDir", "buildDir"}
                       ELSE {"build", "buildDir"}

\* executeGRUB's deferred cleanup: refreshAttempted is always true by then.
FailGRUB(armAttempted) ==
    CallCleanup("grub", StageArtifacts \cup {"menu"}
                        \cup (IF armAttempted THEN {"armed"} ELSE {}))

Goto(s) == step' = s /\ UNCHANGED process

-----------------------------------------------------------------------------
(* The operator starts the installer, in a fresh process, on a machine that *)
(* may hold what an earlier attempt left behind.                            *)
Start ==
    /\ step \in {"idle", "failed"}
    /\ reboot = "no"
    /\ step' = "makeBuildDir"
    /\ method' = host.method
    /\ fallback' = FALSE
    /\ todo' = {}
    /\ return' = "none"
    /\ cleanFailed' = FALSE
    /\ known' = FALSE
    /\ cancelled' = FALSE
    /\ reported' = {}
    /\ kexecReport' = {}
    /\ before' = Residue
    /\ struck' = {}
    /\ UNCHANGED <<host, machine>>

-----------------------------------------------------------------------------
(* PrepareStage, step by step.  Three of its steps run commands; todo      *)
(* collects partialFiles and partialDirs.                                  *)

\* What a step leaves on the root disk.  mkinitramfs and copyFileAtomic make
\* their file whole or not at all, and the final rename puts the script there.
Prepared ==
    CASE step = "makeBuildDir" -> [disk EXCEPT !["buildDir"] = "full"]
      [] step = "clearBuild"   -> [disk EXCEPT !["build"] = "absent"]
      [] step = "build"        -> [disk EXCEPT !["build"] = "full"]
      [] step = "makeBootDir"  -> [disk EXCEPT !["bootDir"] = "full"]
      [] step = "copyInitrd"   -> [disk EXCEPT !["initrd"] = disk["build"]]
      [] step = "dropBuild"    -> [disk EXCEPT !["build"] = "absent"]
      [] step = "writeScript"  -> [disk EXCEPT !["script"] = "full"]
      [] OTHER                 -> disk

\* What the deferred cleanupPartialStage removes from then on.
Registered ==
    CASE step = "makeBuildDir" -> {"buildDir", "build"}
      [] step = "makeBootDir"  -> todo \cup {"bootDir", "initrd"}
      [] step = "renderScript" -> todo \cup {"script"}
      [] OTHER                 -> todo

\* The step that follows; staging for kexec is committed after the memory check.
\* StageAndBoot calls sync after its first PrepareStage, not after the second.
AfterPrepare ==
    CASE step = "makeBuildDir" -> "clearBuild"
      [] step = "clearBuild"   -> "buildSpace"
      [] step = "buildSpace"   -> "build"
      [] step = "build"        -> "memory"
      [] step = "memory"       -> IF method = "kexec" THEN "sync" ELSE "makeBootDir"
      [] step = "makeBootDir"  -> "bootSpace"
      [] step = "bootSpace"    -> "copyInitrd"
      [] step = "copyInitrd"   -> "dropBuild"
      [] step = "dropBuild"    -> "renderScript"
      [] step = "renderScript" -> "writeScript"
      [] step = "writeScript"  -> IF fallback THEN "updateGrub" ELSE "sync"

Committed(s) == s \in {"sync", "updateGrub"}

PrepareStep ==
    /\ step \in PrepareSteps
    /\ IF step \in {"build", "memory", "renderScript"} THEN Works ELSE UNCHANGED cancelled
    /\ disk' = Prepared
    /\ step' = AfterPrepare
    /\ todo' = IF Committed(AfterPrepare) THEN {} ELSE Registered
    /\ UNCHANGED <<host, method, fallback, return, cleanFailed, known, reports,
                   durable, armed, loaded, reboot, spent>>

\* A failing step changes nothing, except that a failed mkinitramfs may leave
\* output that buildInitramfs could not remove.
PrepareFails ==
    /\ step \in PrepareSteps
    /\ IF step \in {"build", "memory", "renderScript"}
       THEN Fails(step)
       ELSE step \in Faults /\ UNCHANGED cancelled
    /\ \/ UNCHANGED disk
       \/ step = "build" /\ "build" \in Faults /\ disk' = [disk EXCEPT !["build"] = "partial"]
    /\ step' = "partialCleanup"
    /\ cleanFailed' = FALSE
    /\ UNCHANGED <<host, method, fallback, todo, return, known, reports,
                   durable, armed, loaded, reboot, spent>>

-----------------------------------------------------------------------------
(* StageAndBoot's own sync: what was staged becomes durable.               *)

\* Mutant: nothing waits for sync.
Sync_NotWaited ==
    /\ step = "sync"
    /\ Goto(IF method = "kexec" THEN "kexecLoad" ELSE "updateGrub")
    /\ UNCHANGED <<host, cancelled, reports, machine>>

Sync ==
    /\ step = "sync"
    /\ \/ /\ Works
          /\ durable' = [f \in BootFiles |-> disk[f]]
          /\ Goto(IF method = "kexec" THEN "kexecLoad" ELSE "updateGrub")
       \/ /\ Fails(step)
          /\ CallCleanup("sync", StageArtifacts)
          /\ UNCHANGED durable
    /\ UNCHANGED <<host, reports, disk, armed, loaded, reboot, spent>>

-----------------------------------------------------------------------------
(* executeKexec.  Its deferred kexec -u runs only when known is true.      *)

\* The cleanup of StageAndBoot that follows a failed executeKexec.
AfterKexec == CallCleanup("kexec", StageArtifacts)

KexecLoad ==
    /\ step = "kexecLoad"
    /\ \/ /\ Works
          /\ loaded' = TRUE
          /\ known' = TRUE
          /\ step' = "cleanup"
          /\ todo' = StageArtifacts
          /\ return' = "loaded"
          /\ cleanFailed' = FALSE
          /\ UNCHANGED <<method, fallback>>
       \/ Fails(step) /\ AfterKexec /\ UNCHANGED loaded
       \/ FailsLate(step) /\ AfterKexec /\ loaded' = TRUE
    /\ UNCHANGED <<host, reports, disk, durable, armed, reboot, spent>>

SystemctlKexec ==
    /\ step = "systemctlKexec"
    /\ \/ Works /\ reboot' = "kexec" /\ Goto("done")
       \/ Fails(step) /\ Goto("kexecExec") /\ UNCHANGED reboot
       \/ FailsLate(step) /\ Goto("kexecExec") /\ reboot' = "kexec"
    /\ UNCHANGED <<host, reports, disk, durable, armed, loaded, spent>>

\* kexec -e does not return when it works.
KexecExec ==
    /\ step = "kexecExec"
    /\ \/ Works /\ reboot' = "kexec" /\ Goto("done")
       \/ Fails(step) /\ Goto("kexecUnload") /\ UNCHANGED reboot
    /\ UNCHANGED <<host, reports, disk, durable, armed, loaded, spent>>

\* A command of a cleanup, which has a context of its own, fails: by itself, or
\* because a Ctrl-C reaches it through the process group.
CleanupFails(c, faults) ==
    /\ \/ c \in faults /\ UNCHANGED <<cancelled, struck>>
       \/ c \in CleanupCommands /\ CtrlC /\ struck' = struck \cup {c}
    /\ reported' = reported \cup {c}

\* The faults of kexec -u go by the name of its step.
UnloadFaults(faults) == IF "kexecUnload" \in faults THEN {"kexec"} ELSE {}

\* Mutant: the error of the deferred kexec -u is dropped.
KexecUnload_Silent ==
    /\ step = "kexecUnload"
    /\ loaded' = FALSE \/ (step \in Faults /\ UNCHANGED loaded)
    /\ AfterKexec
    /\ UNCHANGED <<host, cancelled, reports, disk, durable, armed, reboot, spent>>

\* The deferred kexec -u.
KexecUnload ==
    /\ step = "kexecUnload"
    /\ \/ loaded' = FALSE /\ UNCHANGED <<cancelled, reported, struck>>
       \/ CleanupFails("kexec", UnloadFaults(Faults)) /\ UNCHANGED loaded
       \/ CleanupFails("kexec", UnloadFaults(LateFaults)) /\ loaded' = FALSE
    /\ AfterKexec
    /\ UNCHANGED <<host, kexecReport, before, disk, durable, armed, reboot, spent>>

-----------------------------------------------------------------------------
(* executeGRUB.                                                            *)

\* What update-grub may generate from the scripts in /etc/grub.d: whether the
\* one-shot handler comes out whole depends on the host.
Generated ==
    IF disk["script"] = "absent" THEN "absent"
    ELSE IF host.handler THEN "full" ELSE "partial"

UpdateGrub ==
    /\ step = "updateGrub"
    /\ \/ Works /\ disk' = [disk EXCEPT !["menu"] = Generated] /\ Goto("checkConfig")
       \/ Fails(step) /\ FailGRUB(FALSE) /\ UNCHANGED disk
       \/ FailsLate(step) /\ FailGRUB(FALSE) /\ disk' = [disk EXCEPT !["menu"] = Generated]
    /\ UNCHANGED <<host, reports, durable, armed, loaded, reboot, spent>>

\* validateGRUBConfiguration reads the generated grub.cfg.
CheckConfig ==
    /\ step = "checkConfig"
    /\ UNCHANGED cancelled
    /\ \/ disk["menu"] = "full" /\ Goto("checkStorage")
       \/ (disk["menu"] # "full" \/ step \in Faults) /\ FailGRUB(FALSE)
    /\ UNCHANGED <<host, reports, machine>>

\* validateGRUBStorage, then armAttempted is set before grub-reboot is run.
CheckStorage ==
    /\ step = "checkStorage"
    /\ \/ Works /\ Goto("arm")
       \/ Fails(step) /\ FailGRUB(FALSE)
    /\ UNCHANGED <<host, reports, machine>>

\* grub-reboot arms the entry in the grubenv it knows.
ArmEntry ==
    /\ armed' = (armed \/ host.env)
    /\ spent' = (spent /\ ~host.env)

Arm ==
    /\ step = "arm"
    /\ \/ Works /\ ArmEntry /\ Goto("verify")
       \/ Fails(step) /\ FailGRUB(TRUE) /\ UNCHANGED <<armed, spent>>
       \/ FailsLate(step) /\ FailGRUB(TRUE) /\ ArmEntry
    /\ UNCHANGED <<host, reports, disk, durable, loaded, reboot>>

\* Mutant: the output of grub-editenv list is not looked at.
Verify_Unread ==
    /\ step = "verify"
    /\ \/ Works /\ Goto("systemctlReboot")
       \/ Fails(step) /\ FailGRUB(TRUE)
    /\ UNCHANGED <<host, reports, machine>>

\* verifyGRUBNextEntry.
Verify ==
    /\ step = "verify"
    /\ \/ Works /\ armed /\ Goto("systemctlReboot")
       \/ Works /\ ~armed /\ FailGRUB(TRUE)
       \/ Fails(step) /\ FailGRUB(TRUE)
    /\ UNCHANGED <<host, reports, machine>>

\* Mutant: a failed systemctl reboot ends the attempt as if it had worked.
SystemctlReboot_Ignored ==
    /\ step = "systemctlReboot"
    /\ \/ Works /\ reboot' = "grub" /\ Goto("done")
       \/ Fails(step) /\ Goto("done") /\ UNCHANGED reboot
    /\ UNCHANGED <<host, reports, disk, durable, armed, loaded, spent>>

SystemctlReboot ==
    /\ step = "systemctlReboot"
    /\ \/ Works /\ reboot' = "grub" /\ Goto("done")
       \/ Fails(step) /\ Goto("reboot") /\ UNCHANGED reboot
       \/ FailsLate(step) /\ Goto("reboot") /\ reboot' = "grub"
    /\ UNCHANGED <<host, reports, disk, durable, armed, loaded, spent>>

Reboot ==
    /\ step = "reboot"
    /\ \/ Works /\ reboot' = "grub" /\ Goto("done")
       \/ Fails(step) /\ FailGRUB(TRUE) /\ UNCHANGED reboot
       \/ FailsLate(step) /\ FailGRUB(TRUE) /\ reboot' = "grub"
    /\ UNCHANGED <<host, reports, disk, durable, armed, loaded, spent>>

Execute ==
    \/ KexecLoad \/ SystemctlKexec \/ KexecExec \/ KexecUnload
    \/ UpdateGrub \/ CheckConfig \/ CheckStorage \/ Arm \/ Verify
    \/ SystemctlReboot \/ Reboot

-----------------------------------------------------------------------------
(* cleanupStage and cleanupPartialStage: one removal per step, in order.   *)
(* Every error is collected and none stops the ones that follow.           *)

\* Mutant: next_entry is cleared after the files are removed.
StageOrder_DisarmLast ==
    [script |-> 1, initrd |-> 2, build |-> 3, bootDir |-> 4, buildDir |-> 5, armed |-> 6, menu |-> 7]

\* The order of cleanupStage: disarm first, refresh grub.cfg last.
StageOrder ==
    [armed |-> 1, script |-> 2, initrd |-> 3, build |-> 4, bootDir |-> 5, buildDir |-> 6, menu |-> 7]

\* The order of cleanupPartialStage: the files as registered, the directories
\* in reverse.
PartialOrder == [build |-> 1, initrd |-> 2, script |-> 3, bootDir |-> 4, buildDir |-> 5]

IsDue(a, order) == a \in todo /\ \A b \in todo : order[a] <= order[b]

\* A directory that still holds a file is left alone, without an error.
NotEmpty(dir) ==
    \/ dir = "buildDir" /\ disk["build"] # "absent"
    \/ dir = "bootDir"  /\ disk["initrd"] # "absent"

\* The outcome of one removal: grub-editenv unset for "armed", update-grub for
\* "menu", os.Remove for the others.
RemovalWorks(a) ==
    /\ armed' = (armed /\ a # "armed")
    /\ disk' = CASE a = "armed" \/ NotEmpty(a) -> disk
                 [] a = "menu"                 -> [disk EXCEPT !["menu"] = Generated]
                 [] OTHER                      -> [disk EXCEPT ![a] = "absent"]

\* Mutants: the cleanup runs its commands in the context of the installation,
\* and gives up on what it cannot run, ...
RemoveOne_CallerContext(a) ==
    /\ todo' = todo \ {a}
    /\ IF cancelled /\ a \in {"armed", "menu"}
       THEN cleanFailed' = TRUE /\ reported' = reported \cup {a} /\ UNCHANGED <<armed, disk>>
       ELSE RemovalWorks(a) /\ UNCHANGED <<cleanFailed, reported>>
    /\ UNCHANGED <<cancelled, struck>>

\* ... or tries it again until it works.
RemoveOne_Retried(a) ==
    /\ IF cancelled /\ a \in {"armed", "menu"}
       THEN UNCHANGED <<todo, armed, disk>>
       ELSE todo' = todo \ {a} /\ RemovalWorks(a)
    /\ UNCHANGED <<cleanFailed, reported, cancelled, struck>>

RemoveOne(a) ==
    /\ todo' = todo \ {a}
    /\ \/ RemovalWorks(a) /\ UNCHANGED <<cleanFailed, reported, cancelled, struck>>
       \/ /\ \/ CleanupFails(a, Faults) /\ UNCHANGED <<armed, disk>>
             \/ CleanupFails(a, LateFaults) /\ RemovalWorks(a)
          /\ cleanFailed' = TRUE

Cleanup ==
    /\ step = "cleanup"
    /\ \E a \in todo : IsDue(a, StageOrder) /\ RemoveOne(a)
    /\ UNCHANGED <<host, step, method, fallback, return, known, kexecReport,
                   before, durable, loaded, reboot, spent>>

PartialCleanup ==
    /\ step = "partialCleanup"
    /\ \E a \in todo : IsDue(a, PartialOrder) /\ RemoveOne(a)
    /\ UNCHANGED <<host, step, method, fallback, return, known, kexecReport,
                   before, durable, loaded, reboot, spent>>

\* StageAndBoot falls back to GRUB when the kexec attempt is cleaned up.
FallBack ==
    /\ method' = "grub"
    /\ fallback' = TRUE
    /\ step' = "makeBuildDir"
    /\ kexecReport' = reported
    /\ reported' = {}
    /\ UNCHANGED <<todo, return, cleanFailed, known, before, struck>>

\* Mutant: the cleanup's error is not looked at.
MayFallBack_Unchecked == host.grub

\* The condition of StageAndBoot's early return, negated.
MayFallBack == ~cleanFailed /\ host.grub

CleanupDone ==
    /\ step = "cleanup"
    /\ todo = {}
    /\ \/ return \in {"sync", "grub"} /\ Goto("failed") /\ UNCHANGED reports
       \/ /\ return = "loaded"
          /\ Goto(IF cleanFailed THEN "kexecUnload" ELSE "systemctlKexec")
          /\ UNCHANGED reports
       \/ return = "kexec" /\ ~MayFallBack /\ Goto("failed") /\ UNCHANGED reports
       \/ return = "kexec" /\ MayFallBack /\ FallBack
    /\ UNCHANGED <<host, cancelled, machine>>

\* A failed fallback staging is returned together with kexecErr.
PartialCleanupDone ==
    /\ step = "partialCleanup"
    /\ todo = {}
    /\ Goto("failed")
    /\ reported' = reported \cup kexecReport
    /\ UNCHANGED <<host, cancelled, kexecReport, before, struck, machine>>

\* The steps of the installer process.
Installer ==
    \/ PrepareStep \/ PrepareFails \/ Sync \/ Execute
    \/ Cleanup \/ PartialCleanup \/ CleanupDone \/ PartialCleanupDone

-----------------------------------------------------------------------------
(* The machine.                                                            *)

LinuxUp == step \in Running \cup Quiet

\* The kernel writes a cached change back on its own; only a power cut can tell.
WriteBack ==
    /\ Crashes
    /\ LinuxUp
    /\ \E f \in BootFiles :
          /\ durable[f] # disk[f]
          /\ durable' = [durable EXCEPT ![f] = disk[f]]
    /\ UNCHANGED <<host, step, process, cancelled, reports, disk, armed, loaded, reboot, spent>>

\* A step that is cut short may leave an unfinished initramfs behind.
CutShort ==
    IF step = "build" THEN {[disk EXCEPT !["build"] = c] : c \in Content} ELSE {disk}

\* The process's memory goes with it.  The other reports and fallback stay, for
\* the properties to tell what the killed attempt had done.
ForgetProcess ==
    /\ method' = host.method
    /\ todo' = {}
    /\ return' = "none"
    /\ cleanFailed' = FALSE
    /\ known' = FALSE
    /\ cancelled' = FALSE
    /\ kexecReport' = {}

\* Nothing but the root disk and grubenv outlives the running system.
ForgetSystem ==
    /\ ForgetProcess
    /\ fallback' = FALSE
    /\ reported' = {}
    /\ before' = {}
    /\ struck' = {}
    /\ loaded' = FALSE
    /\ reboot' = "no"

\* A requested reboot completes, whatever the installer is doing by then.
Shutdown ==
    /\ LinuxUp
    /\ reboot # "no"
    /\ disk' \in CutShort
    /\ durable' = [f \in BootFiles |-> disk[f]]
    /\ step' = IF reboot = "kexec" /\ loaded THEN "writer" ELSE "off"
    /\ ForgetSystem
    /\ UNCHANGED <<host, armed, spent>>

\* What a power cut leaves: the boot files that were written back, and the
\* directory of the one that is in it.
AfterCut(d) ==
    [a \in Artifacts |->
        CASE a \in BootFiles -> durable[a]
          [] a = "bootDir"   -> IF durable["initrd"] # "absent" THEN "full" ELSE d["bootDir"]
          [] OTHER           -> d[a]]

Kill ==
    /\ Crashes
    /\ step \in Running
    /\ disk' \in CutShort
    /\ step' = "idle"
    /\ ForgetProcess
    /\ UNCHANGED <<host, fallback, reported, before, struck, durable, armed, loaded, reboot, spent>>

PowerCut ==
    /\ Crashes
    /\ LinuxUp
    /\ \E d \in CutShort : disk' = AfterCut(d)
    /\ step' = "off"
    /\ ForgetSystem
    /\ UNCHANGED <<host, durable, armed, spent>>

\* Mutant: the handler in the generated script does not save the environment.
BootEntry_NotSaved ==
    /\ step = "off"
    /\ armed
    /\ disk["menu"] = "full"
    /\ spent' = TRUE
    /\ step' = IF disk["initrd"] = "full" THEN "writer" ELSE "stuck"
    /\ UNCHANGED <<host, process, cancelled, reports, disk, durable, armed, loaded, reboot>>

\* GRUB with the installer's handler: the entry is disarmed, then booted.
BootEntry ==
    /\ step = "off"
    /\ armed
    /\ disk["menu"] = "full"
    /\ armed' = FALSE
    /\ spent' = TRUE
    /\ step' = IF disk["initrd"] = "full" THEN "writer" ELSE "stuck"
    /\ UNCHANGED <<host, process, cancelled, reports, disk, durable, loaded, reboot>>

\* GRUB without a complete handler: it may know nothing of next_entry, clear it
\* and boot Linux, or boot the entry over and over.
BootWithoutHandler ==
    /\ step = "off"
    /\ armed
    /\ disk["menu"] # "full"
    /\ \/ step' = "idle" /\ armed' \in BOOLEAN /\ UNCHANGED spent
       \/ disk["menu"] = "partial" /\ step' = "writer" /\ UNCHANGED armed /\ spent' = TRUE
    /\ UNCHANGED <<host, process, cancelled, reports, disk, durable, loaded, reboot>>

BootLinux ==
    /\ step = "off"
    /\ ~armed
    /\ step' = "idle"
    /\ UNCHANGED <<host, process, cancelled, reports, machine>>

\* The writer halted or lost power before it wrote anything, or GRUB found no
\* initrd: the operator turns the machine off and on.
PowerCycle ==
    /\ step \in {"writer", "stuck"}
    /\ step' = "off"
    /\ UNCHANGED <<host, process, cancelled, reports, machine>>

Boot == BootEntry \/ BootWithoutHandler \/ BootLinux

Next ==
    \/ Start
    \/ Installer
    \/ WriteBack \/ Shutdown \/ Kill \/ PowerCut
    \/ Boot \/ PowerCycle

Spec == Init /\ [][Next]_vars

\* Every call the installer makes returns, a requested shutdown completes and a
\* machine that is switched on boots; nobody has to start it or turn it off.
FairSpec == Spec /\ WF_vars(Installer) /\ WF_vars(Shutdown) /\ WF_vars(Boot)

-----------------------------------------------------------------------------
(* Safety.                                                                 *)

\* What the returned error accounts for: a removal it says failed, the menu
\* entry that update-grub generates again from a script that could not be
\* removed, and a directory that still holds a file that could not be removed.
Accounted ==
    reported \cup (IF "script" \in reported THEN {"menu"} ELSE {})
             \cup (IF "build" \in reported THEN {"buildDir"} ELSE {})
             \cup (IF "initrd" \in reported THEN {"bootDir"} ELSE {})

\* A returned error leaves nothing of its own attempt on the root disk or in
\* grubenv that the error does not tell the operator about, whichever step
\* failed and whichever removals failed after it (cleanupStage and
\* cleanupPartialStage go on after an error and join them all).
ResidueReported == step = "failed" => Residue \ before \subseteq Accounted

\* When StageAndBoot returns nil the reboot it requested leads to the writer: a
\* complete entry, a complete initramfs and an armed grubenv, or a loaded image.
HandOverBootable ==
    step = "done" =>
        \/ reboot = "kexec" /\ loaded
        \/ reboot = "grub" /\ armed /\ disk["menu"] = "full" /\ disk["initrd"] = "full"

\* GRUB would pick an entry whose initramfs is not there.
Stranded(files) == armed /\ files["menu"] # "absent" /\ files["initrd"] # "full"

\* While Linux runs, an armed entry always has its initramfs, also in the
\* middle of a cleanup: cleanupStage clears next_entry before it removes a file.
\* The exception is an entry that could not be cleared, and then the error says
\* so, or one that an earlier, killed attempt had armed.
ArmedIsBootable ==
    LinuxUp /\ Stranded(disk) => "armed" \in reported \cup before

\* The same for what a power cut would leave, thanks to the sync between
\* PrepareStage and executeGRUB; the kexec fallback path has no such sync.
ArmedSurvivesPowerCut ==
    LinuxUp /\ Stranded(durable) => fallback \/ "armed" \in reported \cup before

\* A kexec image that executeKexec knows it has loaded is not left pending by a
\* returned error that does not say so; a fallback that fails in executeGRUB
\* returns without kexecErr.
KnownImageUnloaded ==
    step = "failed" /\ known /\ loaded =>
        "kexec" \in reported \/ (fallback /\ "kexec" \in kexecReport)

\* With no failure but the operator's Ctrl-C, pressed any number of times (and what
\* the host's GRUB does to the entry), a returned error leaves nothing of its
\* attempt on the root disk or in grubenv, because the cleanups have a context of
\* their own.  The exception is what a Ctrl-C that came while the cleanup's own
\* grub-editenv or update-grub ran kept it from undoing, and the error says so.
CancelledLeavesOnlyStruck ==
    step = "failed" => Residue \ before \subseteq struck \cap reported

-----------------------------------------------------------------------------
(* Action properties and liveness.                                         *)

\* GRUB boots the writer at most once each time grub-reboot arms the entry,
\* however often the machine is turned off and on: the handler that
\* validateGRUBConfiguration demands clears next_entry before it boots.
OneShot == [][step = "off" /\ step' = "writer" => ~spent]_vars

\* StageAndBoot falls back to GRUB only when nothing of the kexec attempt is
\* left on the root disk.
FallbackStartsClean == [][~fallback /\ fallback' => Residue \ before = {}]_vars

\* Every attempt ends: it returns, or the machine goes down under it.
AttemptEnds == step \in Running ~> step \notin Running

\* When StageAndBoot has returned nil and the power stays on, the writer runs.
HandOverHappens == step = "done" ~> step = "writer"

-----------------------------------------------------------------------------
(* What the documentation says, and the code does not do.                  *)

\* README: returned staging errors automatically unload a pending kexec image.
ErrorUnloadsImage == step = "failed" /\ loaded => "kexec" \in reported

\* README: returned staging errors automatically clear an armed GRUB entry.
ErrorDisarms == step = "failed" /\ armed => "armed" \in reported

=============================================================================
