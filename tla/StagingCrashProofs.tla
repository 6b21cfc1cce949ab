--------------------------- MODULE StagingCrashProofs ---------------------------
(***************************************************************************)
(* Theorems about Staging that are about kills, power cuts, Ctrl-C and the *)
(* kernel's kexec slot.                                                    *)
(***************************************************************************)
EXTENDS StagingProofs

-----------------------------------------------------------------------------
(* Ctrl-C.                                                                 *)

\* Without faults a Ctrl-C that hits a cleanup's own command is all that can keep
\* a removal from working.
OnlyStruckFailed == reported \cup kexecReport \subseteq struck

LEMMA OnlyStruckFailedNext ==
    ASSUME Faults = {}, LateFaults = {}
    PROVE  OnlyStruckFailed /\ [Next]_vars => OnlyStruckFailed'
<1> SUFFICES ASSUME OnlyStruckFailed, [Next]_vars PROVE OnlyStruckFailed'
  OBVIOUS
<1> USE DEF OnlyStruckFailed, reports, process, machine
<1>1. CASE Start \/ WriteBack \/ Shutdown \/ Kill \/ PowerCut \/ Boot \/ PowerCycle
  BY <1>1 DEF Start, WriteBack, Shutdown, Kill, PowerCut, ForgetSystem, ForgetProcess,
       Boot, BootEntry, BootWithoutHandler, BootLinux, PowerCycle
<1>2. CASE PrepareStep \/ PrepareFails \/ Sync
  BY <1>2 DEF PrepareStep, PrepareFails, Sync
<1>3. CASE Execute /\ ~KexecUnload
  BY <1>3 DEF Execute, KexecLoad, SystemctlKexec, KexecExec, UpdateGrub, CheckConfig,
       CheckStorage, Arm, Verify, SystemctlReboot, Reboot
<1>4. CASE KexecUnload
  BY <1>4 DEF KexecUnload, CleanupFails, UnloadFaults
<1>5. CASE Cleanup \/ PartialCleanup
  BY <1>5 DEF Cleanup, PartialCleanup, RemoveOne, CleanupFails
<1>6. CASE CleanupDone \/ PartialCleanupDone
  BY <1>6 DEF CleanupDone, PartialCleanupDone, FallBack
<1>7. CASE UNCHANGED vars
  BY <1>7 DEF vars
<1> QED
  BY <1>1, <1>2, <1>3, <1>4, <1>5, <1>6, <1>7 DEF Next, Installer

\* StageAndBoot: when the only failures are the operator's interrupts, however many
\* there are and whatever they hit, a returned error leaves nothing but the armed
\* entry or the menu entry whose own removal an interrupt hit, and says so.
THEOREM InterruptsLeaveOnlyStruck ==
    ASSUME Faults = {}, LateFaults = {}
    PROVE  Spec => []CancelledLeavesOnlyStruck
<1>1. Init => OnlyStruckFailed
  BY DEF Init, OnlyStruckFailed
<1>2. OnlyStruckFailed /\ [Next]_vars => OnlyStruckFailed'
  BY OnlyStruckFailedNext
<1>3. TypeOK /\ OnlyStruckFailed /\ ResidueReported => CancelledLeavesOnlyStruck
  BY DEF TypeOK, ReportTypeOK, OnlyStruckFailed, ResidueReported, CancelledLeavesOnlyStruck,
         Accounted, Residue, CleanupCommands
<1> QED
  BY <1>1, <1>2, <1>3, TypeCorrect, ResidueAccounted, PTL DEF Spec

-----------------------------------------------------------------------------
(* The pending kexec image.                                                *)

\* An image that executeKexec knows of is about to be used or unloaded, or the
\* error that is being put together says that it could not be unloaded.
ImageTracked ==
    /\ step \in Running /\ fallback => method = "grub"
    /\ step \in PrepareSteps \cup {"sync", "kexecLoad"} /\ ~fallback => ~known
    /\ known /\ loaded =>
          \/ step \in {"systemctlKexec", "kexecExec", "kexecUnload", "done"}
          \/ step = "cleanup" /\ return = "loaded"
          \/ "kexec" \in reported
          \/ fallback /\ "kexec" \in kexecReport

LEMMA ImageTrackedNext == TypeOK /\ Covered /\ ImageTracked /\ [Next]_vars => ImageTracked'
<1> SUFFICES ASSUME TypeOK, Covered, ImageTracked, [Next]_vars PROVE ImageTracked'
  OBVIOUS
<1> USE DEF ImageTracked, machine, reports, process, Running, PrepareSteps, KexecSteps, GrubSteps, CleanupSteps
<1>0. MethodFits /\ step \in Running \cup Quiet \cup Down
  BY DEF Covered, TypeOK, ProcessTypeOK
<1>1. CASE Start
  BY <1>1 DEF Start
<1>2. CASE PrepareStep
  BY <1>2 DEF PrepareStep, AfterPrepare
<1>3. CASE PrepareFails
  BY <1>3 DEF PrepareFails
<1>4. CASE Sync
  BY <1>4 DEF Sync, CallCleanup, Goto
<1>5. CASE KexecLoad
  BY <1>0, <1>5 DEF KexecLoad, AfterKexec, CallCleanup, MethodFits
<1>6. CASE SystemctlKexec
  BY <1>6 DEF SystemctlKexec, Goto
<1>7. CASE KexecExec
  BY <1>7 DEF KexecExec, Goto
<1>8. CASE KexecUnload
  BY <1>8 DEF KexecUnload, CleanupFails, UnloadFaults, AfterKexec, CallCleanup
<1>9. CASE UpdateGrub \/ CheckConfig \/ CheckStorage
  BY <1>9 DEF UpdateGrub, CheckConfig, CheckStorage, Goto, FailGRUB, CallCleanup
<1>10. CASE Arm \/ Verify \/ SystemctlReboot \/ Reboot
  BY <1>10 DEF Arm, Verify, SystemctlReboot, Reboot, Goto, FailGRUB, CallCleanup
<1>11. CASE Cleanup
  BY <1>11 DEF Cleanup, RemoveOne, CleanupFails
<1>12. CASE PartialCleanup
  BY <1>12 DEF PartialCleanup, RemoveOne, CleanupFails
<1>13. CASE CleanupDone
  <2>1. step = "cleanup" /\ UNCHANGED loaded
    BY <1>13 DEF CleanupDone
  <2>2. CASE return = "kexec" /\ FallBack
    <3>1. method = "kexec" /\ ~fallback
      BY <1>0, <2>1, <2>2 DEF MethodFits
    <3> QED
      BY <2>1, <2>2, <3>1 DEF FallBack
  <2>3. CASE Goto("failed") /\ UNCHANGED reports
    BY <1>13, <2>1, <2>3 DEF CleanupDone, Goto
  <2>4. CASE return = "loaded" /\ (Goto("kexecUnload") \/ Goto("systemctlKexec")) /\ UNCHANGED reports
    BY <2>1, <2>4 DEF Goto
  <2> QED
    BY <1>13, <2>2, <2>3, <2>4 DEF CleanupDone
<1>14. CASE PartialCleanupDone
  BY <1>14 DEF PartialCleanupDone, Goto
<1>15. CASE WriteBack \/ Boot \/ PowerCycle
  BY <1>0, <1>15 DEF WriteBack, Boot, BootEntry, BootWithoutHandler, BootLinux, PowerCycle, Down, Quiet
<1>16. CASE Shutdown \/ Kill \/ PowerCut
  BY <1>16 DEF Shutdown, Kill, PowerCut, ForgetSystem, ForgetProcess
<1>17. CASE UNCHANGED vars
  BY <1>17 DEF vars
<1> QED
  BY <1>1, <1>2, <1>3, <1>4, <1>5, <1>6, <1>7, <1>8, <1>9, <1>10, <1>11, <1>12, <1>13, <1>14,
     <1>15, <1>16, <1>17 DEF Next, Installer, Execute

LEMMA AlwaysCovered == Spec => [](TypeOK /\ Covered /\ Established)
BY TypeCorrect, CoveredInit, CoveredNext, EstablishedInit, EstablishedNext, PTL DEF Spec

\* executeKexec: whichever commands fail, late or not, a kexec image that it knows
\* is not left pending by an error that does not say so.
THEOREM ImageUnloaded == Spec => []KnownImageUnloaded
<1>1. Init => ImageTracked
  BY DEF Init, ImageTracked
<1>2. ImageTracked => KnownImageUnloaded
  BY DEF ImageTracked, KnownImageUnloaded
<1> QED
  BY <1>1, <1>2, ImageTrackedNext, AlwaysCovered, PTL DEF Spec

-----------------------------------------------------------------------------
(* The armed entry, on hosts whose update-grub carries the installer's       *)
(* one-shot handler into grub.cfg.                                           *)

ArmedAtWork == {"verify", "systemctlReboot", "reboot"}

\* Where a kill or a power cut may find the attempt's own entry armed, the
\* initramfs is there, and on the disk unless this is the fallback.
InitrdKept == disk["initrd"] = "full" /\ (fallback \/ durable["initrd"] = "full")

Backed ==
    LinuxUp /\ armed =>
        \/ "armed" \in reported \cup before
        \/ InitrdKept
        \/ step = "idle" /\ disk["menu"] = "absent" /\ durable["menu"] = "absent"

CrashProof ==
    /\ Backed
    /\ step \in GrubSteps => InitrdKept
    /\ step = "cleanup" /\ "armed" \in todo => InitrdKept
    /\ step \in Down => \A f \in BootFiles : durable[f] = disk[f]
    /\ {disk["menu"], durable["menu"]} \subseteq {"absent", "full"}
    /\ armed => ~spent

\* At the other steps, an entry that is armed is one that the attempt found, or
\* that it says it could not clear.
Found ==
    /\ armed
    /\ \/ step \in Running \ (ArmedAtWork \cup {"cleanup"})
       \/ step = "cleanup" /\ "armed" \notin todo
       \/ step = "failed"
    => "armed" \in reported \cup before

LEMMA AlwaysFound == TypeOK /\ Covered => Found
<1> SUFFICES ASSUME TypeOK, Covered, armed,
                    \/ step \in Running \ (ArmedAtWork \cup {"cleanup"})
                    \/ step = "cleanup" /\ "armed" \notin todo
                    \/ step = "failed"
             PROVE  "armed" \in reported \cup before
  BY DEF Found
<1>1. "armed" \in Residue /\ ("armed" \in Accounted => "armed" \in reported)
  BY DEF Residue, Accounted
<1>2. CASE step = "failed"
  BY <1>1, <1>2 DEF Covered, ResidueReported
<1>3. CASE step \in PrepareSteps
  BY <1>1, <1>3 DEF Covered, PrepareCovered, New, Artifacts, PrepareSteps
<1>4. CASE step \in {"sync"} \cup KexecSteps \cup {"updateGrub", "checkConfig", "checkStorage", "arm"}
  BY <1>1, <1>4 DEF Covered, StageCovered, New, StageArtifacts, KexecSteps
<1>5. CASE step = "cleanup" /\ "armed" \notin todo
  BY <1>1, <1>5 DEF Covered, CleanupCovered, New
<1>6. CASE step = "partialCleanup"
  BY <1>1, <1>6 DEF Covered, PrepareCovered, CleanupCovered, New, Artifacts
<1> QED
  BY <1>2, <1>3, <1>4, <1>5, <1>6 DEF Running, ArmedAtWork, GrubSteps, CleanupSteps

\* The initramfs is only removed when next_entry has had its turn.
LEMMA DisarmFirst ==
    ASSUME TypeOK, NEW a, IsDue(a, StageOrder), a # "armed"
    PROVE  "armed" \notin todo
BY DEF TypeOK, ProcessTypeOK, IsDue, StageOrder, Artifacts

LEMMA CrashProofInit == Init => CrashProof
BY DEF Init, CrashProof, Backed, LinuxUp, GrubSteps, Down, Artifacts, BootFiles

LEMMA CrashProofNext ==
    ASSUME \A h \in Hosts : h.handler,
           TypeOK, Covered, Established, CrashProof, [Next]_vars, TypeOK', Covered', Established'
    PROVE  CrashProof'
<1> USE DEF machine, reports, process
<1>0. host.handler
  BY DEF TypeOK
<1>f. Found'
  BY AlwaysFound, PTL
<1> USE DEF Found, CrashProof, Backed, InitrdKept, LinuxUp, TypeOK, ProcessTypeOK, MachineTypeOK, Running, Quiet, Down, PrepareSteps, KexecSteps, GrubSteps, CleanupSteps, ArmedAtWork, Artifacts, BootFiles
<1>1. CASE Start
  BY <1>0, <1>f, <1>1 DEF Start
<1>2. CASE PrepareStep
  <2>1. step' \in PrepareSteps \cup {"sync", "updateGrub"} /\ (step' = "updateGrub" => fallback)
    <3>1. step \in PrepareSteps /\ step' = AfterPrepare
      BY <1>2 DEF PrepareStep
    <3>2. CASE step \in {"makeBuildDir", "clearBuild", "buildSpace", "build", "memory"}
      BY <3>1, <3>2 DEF AfterPrepare
    <3>3. CASE step \in {"makeBootDir", "bootSpace", "copyInitrd", "dropBuild", "renderScript"}
      BY <3>1, <3>3 DEF AfterPrepare
    <3>4. CASE step = "writeScript"
      BY <3>1, <3>4 DEF AfterPrepare
    <3> QED
      BY <3>1, <3>2, <3>3, <3>4
  <2>2. step' = "updateGrub" => disk'["initrd"] = "full"
    BY DEF Established, GrubEstablished
  <2>3. disk'["menu"] = disk["menu"]
    BY <1>2 DEF PrepareStep, Prepared
  <2>4. UNCHANGED <<fallback, reported, before, durable, armed, spent>>
    BY <1>2 DEF PrepareStep
  <2> QED
    BY <1>f, <2>1, <2>2, <2>3, <2>4
<1>3. CASE PrepareFails
  BY <1>0, <1>f, <1>3 DEF PrepareFails
<1>4. CASE Sync
  <2>1. UNCHANGED <<disk, armed, spent, fallback, reported, before>>
    BY <1>4 DEF Sync, Goto, CallCleanup
  <2>2. CASE durable' = [f \in BootFiles |-> disk[f]] /\ Goto(IF method = "kexec" THEN "kexecLoad" ELSE "updateGrub")
    <3>1. step' = "updateGrub" => disk["initrd"] = "full"
      BY <1>4, <2>2 DEF Sync, Goto, Established, BuiltWhole
    <3> QED
      BY <1>f, <2>1, <2>2, <3>1 DEF Goto
  <2>3. CASE CallCleanup("sync", StageArtifacts) /\ UNCHANGED durable
    BY <1>f, <2>1, <2>3 DEF CallCleanup, StageArtifacts
  <2> QED
    BY <1>4, <2>2, <2>3 DEF Sync
<1>5. CASE KexecLoad
  BY <1>0, <1>f, <1>5 DEF KexecLoad, AfterKexec, CallCleanup, StageArtifacts
<1>6. CASE SystemctlKexec
  BY <1>0, <1>f, <1>6 DEF SystemctlKexec, Goto
<1>7. CASE KexecExec
  BY <1>0, <1>f, <1>7 DEF KexecExec, Goto
<1>8. CASE KexecUnload
  BY <1>0, <1>f, <1>8 DEF KexecUnload, CleanupFails, UnloadFaults, AfterKexec, CallCleanup, StageArtifacts
<1>9. CASE UpdateGrub
  BY <1>0, <1>f, <1>9 DEF UpdateGrub, Generated, Goto, FailGRUB, CallCleanup, StageArtifacts
<1>10. CASE CheckConfig
  BY <1>0, <1>f, <1>10 DEF CheckConfig, Goto, FailGRUB, CallCleanup, StageArtifacts
<1>11. CASE CheckStorage
  BY <1>0, <1>f, <1>11 DEF CheckStorage, Goto, FailGRUB, CallCleanup, StageArtifacts
<1>12. CASE Arm
  BY <1>0, <1>f, <1>12 DEF Arm, ArmEntry, Goto, FailGRUB, CallCleanup, StageArtifacts
<1>13. CASE Verify
  BY <1>0, <1>f, <1>13 DEF Verify, Goto, FailGRUB, CallCleanup, StageArtifacts
<1>14. CASE SystemctlReboot
  BY <1>0, <1>f, <1>14 DEF SystemctlReboot, Goto
<1>15. CASE Reboot
  BY <1>0, <1>f, <1>15 DEF Reboot, Goto, FailGRUB, CallCleanup, StageArtifacts
<1>16. CASE Cleanup
  <2>1. PICK a \in todo : IsDue(a, StageOrder) /\ RemoveOne(a)
    BY <1>16 DEF Cleanup
  <2>2. step = "cleanup" /\ step' = "cleanup" /\ UNCHANGED <<fallback, durable, spent, before>>
    BY <1>16 DEF Cleanup
  <2>3. todo' = todo \ {a} /\ disk'["menu"] \in {"absent", "full"} /\ (armed' => armed)
    BY <1>0, <2>1 DEF RemoveOne, CleanupFails, RemovalWorks, Generated
  <2>4. CASE a = "armed"
    BY <1>f, <2>1, <2>2, <2>3, <2>4
  <2>5. CASE a # "armed"
    BY <1>f, <2>1, <2>2, <2>3, <2>5, DisarmFirst
  <2> QED
    BY <2>4, <2>5
<1>17. CASE PartialCleanup
  BY <1>0, <1>f, <1>17 DEF PartialCleanup, RemoveOne, CleanupFails, RemovalWorks, Generated
<1>18. CASE CleanupDone
  BY <1>0, <1>f, <1>18 DEF CleanupDone, FallBack, Goto
<1>19. CASE PartialCleanupDone
  BY <1>0, <1>f, <1>19 DEF PartialCleanupDone, Goto
<1>20. CASE WriteBack
  BY <1>0, <1>f, <1>20 DEF WriteBack
<1>21. CASE Shutdown
  BY <1>0, <1>f, <1>21 DEF Shutdown, CutShort, ForgetSystem, ForgetProcess
<1>22. CASE Kill
  BY <1>0, <1>f, <1>22 DEF Kill, CutShort, ForgetProcess
<1>23. CASE PowerCut
  BY <1>0, <1>f, <1>23 DEF PowerCut, CutShort, AfterCut, ForgetSystem, ForgetProcess
<1>24. CASE BootEntry
  BY <1>0, <1>f, <1>24 DEF BootEntry
<1>25. CASE BootWithoutHandler
  <2>1. disk["menu"] = "absent" /\ durable["menu"] = "absent"
    BY <1>25 DEF BootWithoutHandler
  <2>2. step' = "idle" /\ UNCHANGED <<fallback, reported, before, disk, durable, spent>>
    BY <1>25, <2>1 DEF BootWithoutHandler
  <2>3. armed
    BY <1>25 DEF BootWithoutHandler
  <2> QED
    BY <2>1, <2>2, <2>3
<1>26. CASE BootLinux
  BY <1>0, <1>f, <1>26 DEF BootLinux
<1>27. CASE PowerCycle
  BY <1>0, <1>f, <1>27 DEF PowerCycle
<1>28. CASE UNCHANGED vars
  BY <1>0, <1>f, <1>28 DEF vars
<1> QED
  BY <1>1, <1>2, <1>3, <1>4, <1>5, <1>6, <1>7, <1>8, <1>9, <1>10, <1>11, <1>12, <1>13, <1>14, <1>15, <1>16, <1>17, <1>18, <1>19, <1>20, <1>21, <1>22, <1>23, <1>24, <1>25, <1>26, <1>27, <1>28
     DEF Next, Installer, Execute, Boot

LEMMA AlwaysCrashProof ==
    ASSUME \A h \in Hosts : h.handler
    PROVE  Spec => [](TypeOK /\ CrashProof)
<1>1. TypeOK /\ Covered /\ Established /\ CrashProof /\ [Next]_vars
          /\ TypeOK' /\ Covered' /\ Established' => CrashProof'
  BY CrashProofNext
<1> QED
  BY <1>1, CrashProofInit, AlwaysCovered, PTL DEF Spec

\* cleanupStage, executeGRUB: at whatever step and in whatever attempt the process
\* is killed, Linux never runs with an armed entry without its initramfs, unless
\* the error has said so or an earlier attempt left it.
THEOREM ArmedKeepsInitrd ==
    ASSUME \A h \in Hosts : h.handler
    PROVE  Spec => []ArmedIsBootable
<1>1. TypeOK /\ CrashProof => ArmedIsBootable
  BY DEF CrashProof, Backed, InitrdKept, ArmedIsBootable, Stranded
<1> QED
  BY <1>1, AlwaysCrashProof, PTL

\* StageAndBoot's sync: the same is true of what a power cut would leave, outside
\* the fallback.
THEOREM ArmedIsDurable ==
    ASSUME \A h \in Hosts : h.handler
    PROVE  Spec => []ArmedSurvivesPowerCut
<1>1. TypeOK /\ CrashProof => ArmedSurvivesPowerCut
  BY DEF CrashProof, Backed, InitrdKept, ArmedSurvivesPowerCut, Stranded
<1> QED
  BY <1>1, AlwaysCrashProof, PTL

\* grubScript: however often the power is cut, GRUB boots the writer once for each
\* time grub-reboot has armed the entry.
THEOREM BootedOnce ==
    ASSUME \A h \in Hosts : h.handler
    PROVE  Spec => OneShot
<1>1. TypeOK /\ CrashProof /\ [Next]_vars => [step = "off" /\ step' = "writer" => ~spent]_vars
  <2> SUFFICES ASSUME TypeOK, CrashProof, Next, step = "off", step' = "writer" PROVE ~spent
    OBVIOUS
  <2>1. CASE Boot
    BY <2>1 DEF Boot, BootEntry, BootWithoutHandler, BootLinux, CrashProof
  <2>2. CASE Installer
    BY <2>2 DEF Installer, Execute, PrepareStep, PrepareFails, PrepareSteps, Sync, KexecLoad, SystemctlKexec,
       KexecExec, KexecUnload, UpdateGrub, CheckConfig, CheckStorage, Arm, Verify,
       SystemctlReboot, Reboot, Cleanup, PartialCleanup, CleanupDone, PartialCleanupDone
  <2>3. CASE Start \/ WriteBack \/ Shutdown \/ Kill \/ PowerCut \/ PowerCycle
    BY <2>3 DEF Start, WriteBack, Shutdown, Kill, PowerCut, PowerCycle, LinuxUp, Running, Quiet,
       PrepareSteps, KexecSteps, GrubSteps, CleanupSteps
  <2> QED
    BY <2>1, <2>2, <2>3 DEF Next
<1> QED
  BY <1>1, AlwaysCrashProof, PTL DEF Spec, OneShot

=============================================================================
