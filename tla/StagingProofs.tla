---------------------------- MODULE StagingProofs ----------------------------
(***************************************************************************)
(* Theorems about Staging, for every set of hosts and every set of faults. *)
(***************************************************************************)
EXTENDS Staging, TLAPS

USE DEF Artifacts, BootFiles, Content, PrepareSteps, KexecSteps, GrubSteps,
        CleanupSteps, Running, Quiet, Down, CleanupCommands

(* The types that the comments beside the VARIABLES give hold initially ... *)
LEMMA TypeInit == Init => TypeOK
BY HostsAssumption
   DEF Init, TypeOK, ProcessTypeOK, ReportTypeOK, MachineTypeOK, HostType

(* ... and after every step, whatever fails and whenever.                   *)
LEMMA TypeNext == TypeOK /\ [Next]_vars => TypeOK'
<1> SUFFICES ASSUME TypeOK, [Next]_vars PROVE TypeOK'
  OBVIOUS
<1> USE DEF TypeOK, machine, reports, process
<1>1. CASE Start
  <2>1. host' \in Hosts /\ ProcessTypeOK'
    BY <1>1, HostsAssumption DEF Start, Residue, HostType, ProcessTypeOK
  <2>2. ReportTypeOK'
    BY <1>1 DEF Start, Residue, HostType, ProcessTypeOK, ReportTypeOK
  <2>3. MachineTypeOK'
    BY <1>1 DEF Start, Residue, MachineTypeOK
  <2> QED
    BY <2>1, <2>2, <2>3
<1>2. CASE PrepareStep
  <2>1. host' \in Hosts /\ ProcessTypeOK'
    BY <1>2 DEF PrepareStep, Prepared, Registered, AfterPrepare, Works, ProcessTypeOK
  <2>2. ReportTypeOK'
    BY <1>2 DEF PrepareStep, Prepared, Registered, AfterPrepare, Works, ProcessTypeOK, ReportTypeOK
  <2>3. MachineTypeOK'
    BY <1>2 DEF PrepareStep, Prepared, Registered, AfterPrepare, Works, MachineTypeOK
  <2> QED
    BY <2>1, <2>2, <2>3
<1>3. CASE PrepareFails
  <2>1. host' \in Hosts /\ ProcessTypeOK'
    BY <1>3 DEF PrepareFails, Fails, Interrupt, CtrlC, ProcessTypeOK
  <2>2. ReportTypeOK'
    BY <1>3 DEF PrepareFails, Fails, Interrupt, CtrlC, ProcessTypeOK, ReportTypeOK
  <2>3. MachineTypeOK'
    BY <1>3 DEF PrepareFails, Fails, Interrupt, CtrlC, MachineTypeOK
  <2> QED
    BY <2>1, <2>2, <2>3
<1>4. CASE Sync
  <2>1. host' \in Hosts /\ ProcessTypeOK'
    BY <1>4 DEF Sync, CallCleanup, StageArtifacts, Goto, Works, Fails, Interrupt, CtrlC, ProcessTypeOK
  <2>2. ReportTypeOK'
    BY <1>4 DEF Sync, CallCleanup, StageArtifacts, Goto, Works, Fails, Interrupt, CtrlC, ProcessTypeOK, ReportTypeOK
  <2>3. MachineTypeOK'
    BY <1>4 DEF Sync, CallCleanup, StageArtifacts, Goto, Works, Fails, Interrupt, CtrlC, MachineTypeOK
  <2> QED
    BY <2>1, <2>2, <2>3
<1>5. CASE KexecLoad
  <2>1. host' \in Hosts /\ ProcessTypeOK'
    BY <1>5 DEF KexecLoad, AfterKexec, CallCleanup, StageArtifacts, Works, Fails, FailsLate, Interrupt, CtrlC, ProcessTypeOK
  <2>2. ReportTypeOK'
    BY <1>5 DEF KexecLoad, AfterKexec, CallCleanup, StageArtifacts, Works, Fails, FailsLate, Interrupt, CtrlC, ProcessTypeOK, ReportTypeOK
  <2>3. MachineTypeOK'
    BY <1>5 DEF KexecLoad, AfterKexec, CallCleanup, StageArtifacts, Works, Fails, FailsLate, Interrupt, CtrlC, MachineTypeOK
  <2> QED
    BY <2>1, <2>2, <2>3
<1>6. CASE SystemctlKexec
  <2>1. host' \in Hosts /\ ProcessTypeOK'
    BY <1>6 DEF SystemctlKexec, Goto, Works, Fails, FailsLate, Interrupt, CtrlC, ProcessTypeOK
  <2>2. ReportTypeOK'
    BY <1>6 DEF SystemctlKexec, Goto, Works, Fails, FailsLate, Interrupt, CtrlC, ProcessTypeOK, ReportTypeOK
  <2>3. MachineTypeOK'
    BY <1>6 DEF SystemctlKexec, Goto, Works, Fails, FailsLate, Interrupt, CtrlC, MachineTypeOK
  <2> QED
    BY <2>1, <2>2, <2>3
<1>7. CASE KexecExec
  <2>1. host' \in Hosts /\ ProcessTypeOK'
    BY <1>7 DEF KexecExec, Goto, Works, Fails, Interrupt, CtrlC, ProcessTypeOK
  <2>2. ReportTypeOK'
    BY <1>7 DEF KexecExec, Goto, Works, Fails, Interrupt, CtrlC, ProcessTypeOK, ReportTypeOK
  <2>3. MachineTypeOK'
    BY <1>7 DEF KexecExec, Goto, Works, Fails, Interrupt, CtrlC, MachineTypeOK
  <2> QED
    BY <2>1, <2>2, <2>3
<1>8. CASE KexecUnload
  <2>1. host' \in Hosts /\ ProcessTypeOK'
    BY <1>8 DEF KexecUnload, CleanupFails, CtrlC, AfterKexec, CallCleanup, StageArtifacts, ProcessTypeOK
  <2>2. ReportTypeOK'
    BY <1>8 DEF KexecUnload, CleanupFails, UnloadFaults, AfterKexec, CallCleanup, StageArtifacts, ProcessTypeOK, ReportTypeOK
  <2>3. MachineTypeOK'
    BY <1>8 DEF KexecUnload, CleanupFails, UnloadFaults, AfterKexec, CallCleanup, StageArtifacts, MachineTypeOK
  <2> QED
    BY <2>1, <2>2, <2>3
<1>9. CASE UpdateGrub
  <2>1. host' \in Hosts /\ ProcessTypeOK'
    BY <1>9 DEF UpdateGrub, Generated, Goto, FailGRUB, CallCleanup, StageArtifacts, Works, Fails, FailsLate, Interrupt, CtrlC, ProcessTypeOK
  <2>2. ReportTypeOK'
    BY <1>9 DEF UpdateGrub, Generated, Goto, FailGRUB, CallCleanup, StageArtifacts, Works, Fails, FailsLate, Interrupt, CtrlC, ProcessTypeOK, ReportTypeOK
  <2>3. MachineTypeOK'
    BY <1>9 DEF UpdateGrub, Generated, Goto, FailGRUB, CallCleanup, StageArtifacts, Works, Fails, FailsLate, Interrupt, CtrlC, MachineTypeOK
  <2> QED
    BY <2>1, <2>2, <2>3
<1>10. CASE CheckConfig
  <2>1. host' \in Hosts /\ ProcessTypeOK'
    BY <1>10 DEF CheckConfig, Goto, FailGRUB, CallCleanup, StageArtifacts, ProcessTypeOK
  <2>2. ReportTypeOK'
    BY <1>10 DEF CheckConfig, Goto, FailGRUB, CallCleanup, StageArtifacts, ProcessTypeOK, ReportTypeOK
  <2>3. MachineTypeOK'
    BY <1>10 DEF CheckConfig, Goto, FailGRUB, CallCleanup, StageArtifacts, MachineTypeOK
  <2> QED
    BY <2>1, <2>2, <2>3
<1>11. CASE CheckStorage
  <2>1. host' \in Hosts /\ ProcessTypeOK'
    BY <1>11 DEF CheckStorage, Goto, FailGRUB, CallCleanup, StageArtifacts, Works, Fails, Interrupt, CtrlC, ProcessTypeOK
  <2>2. ReportTypeOK'
    BY <1>11 DEF CheckStorage, Goto, FailGRUB, CallCleanup, StageArtifacts, Works, Fails, Interrupt, CtrlC, ProcessTypeOK, ReportTypeOK
  <2>3. MachineTypeOK'
    BY <1>11 DEF CheckStorage, Goto, FailGRUB, CallCleanup, StageArtifacts, Works, Fails, Interrupt, CtrlC, MachineTypeOK
  <2> QED
    BY <2>1, <2>2, <2>3
<1>12. CASE Arm
  <2>1. host' \in Hosts /\ ProcessTypeOK'
    BY <1>12 DEF Arm, ArmEntry, Goto, FailGRUB, CallCleanup, StageArtifacts, Works, Fails, FailsLate, Interrupt, CtrlC, ProcessTypeOK
  <2>2. ReportTypeOK'
    BY <1>12 DEF Arm, ArmEntry, Goto, FailGRUB, CallCleanup, StageArtifacts, Works, Fails, FailsLate, Interrupt, CtrlC, ProcessTypeOK, ReportTypeOK
  <2>3. MachineTypeOK'
    BY <1>12 DEF Arm, ArmEntry, Goto, FailGRUB, CallCleanup, StageArtifacts, Works, Fails, FailsLate, Interrupt, CtrlC, MachineTypeOK
  <2> QED
    BY <2>1, <2>2, <2>3
<1>13. CASE Verify
  <2>1. host' \in Hosts /\ ProcessTypeOK'
    BY <1>13 DEF Verify, Goto, FailGRUB, CallCleanup, StageArtifacts, Works, Fails, Interrupt, CtrlC, ProcessTypeOK
  <2>2. ReportTypeOK'
    BY <1>13 DEF Verify, Goto, FailGRUB, CallCleanup, StageArtifacts, Works, Fails, Interrupt, CtrlC, ProcessTypeOK, ReportTypeOK
  <2>3. MachineTypeOK'
    BY <1>13 DEF Verify, Goto, FailGRUB, CallCleanup, StageArtifacts, Works, Fails, Interrupt, CtrlC, MachineTypeOK
  <2> QED
    BY <2>1, <2>2, <2>3
<1>14. CASE SystemctlReboot
  <2>1. host' \in Hosts /\ ProcessTypeOK'
    BY <1>14 DEF SystemctlReboot, Goto, Works, Fails, FailsLate, Interrupt, CtrlC, ProcessTypeOK
  <2>2. ReportTypeOK'
    BY <1>14 DEF SystemctlReboot, Goto, Works, Fails, FailsLate, Interrupt, CtrlC, ProcessTypeOK, ReportTypeOK
  <2>3. MachineTypeOK'
    BY <1>14 DEF SystemctlReboot, Goto, Works, Fails, FailsLate, Interrupt, CtrlC, MachineTypeOK
  <2> QED
    BY <2>1, <2>2, <2>3
<1>15. CASE Reboot
  <2>1. host' \in Hosts /\ ProcessTypeOK'
    BY <1>15 DEF Reboot, Goto, FailGRUB, CallCleanup, StageArtifacts, Works, Fails, FailsLate, Interrupt, CtrlC, ProcessTypeOK
  <2>2. ReportTypeOK'
    BY <1>15 DEF Reboot, Goto, FailGRUB, CallCleanup, StageArtifacts, Works, Fails, FailsLate, Interrupt, CtrlC, ProcessTypeOK, ReportTypeOK
  <2>3. MachineTypeOK'
    BY <1>15 DEF Reboot, Goto, FailGRUB, CallCleanup, StageArtifacts, Works, Fails, FailsLate, Interrupt, CtrlC, MachineTypeOK
  <2> QED
    BY <2>1, <2>2, <2>3
<1>16. CASE Cleanup
  <2>1. host' \in Hosts /\ ProcessTypeOK'
    BY <1>16 DEF Cleanup, RemoveOne, CleanupFails, CtrlC, ProcessTypeOK
  <2>2. ReportTypeOK'
    BY <1>16 DEF Cleanup, RemoveOne, CleanupFails, RemovalWorks, Generated, ProcessTypeOK, ReportTypeOK
  <2>3. MachineTypeOK'
    <3>1. PICK a \in todo : RemovalWorks(a) \/ UNCHANGED <<armed, disk>>
      BY <1>16 DEF Cleanup, RemoveOne
    <3>2. armed' \in BOOLEAN /\ disk' \in [Artifacts -> Content]
      BY <3>1 DEF RemovalWorks, Generated, MachineTypeOK
    <3> QED
      BY <1>16, <3>2 DEF Cleanup, MachineTypeOK
  <2> QED
    BY <2>1, <2>2, <2>3
<1>17. CASE PartialCleanup
  <2>1. host' \in Hosts /\ ProcessTypeOK'
    BY <1>17 DEF PartialCleanup, RemoveOne, CleanupFails, CtrlC, ProcessTypeOK
  <2>2. ReportTypeOK'
    BY <1>17 DEF PartialCleanup, RemoveOne, CleanupFails, RemovalWorks, Generated, ProcessTypeOK, ReportTypeOK
  <2>3. MachineTypeOK'
    <3>1. PICK a \in todo : RemovalWorks(a) \/ UNCHANGED <<armed, disk>>
      BY <1>17 DEF PartialCleanup, RemoveOne
    <3>2. armed' \in BOOLEAN /\ disk' \in [Artifacts -> Content]
      BY <3>1 DEF RemovalWorks, Generated, MachineTypeOK
    <3> QED
      BY <1>17, <3>2 DEF PartialCleanup, MachineTypeOK
  <2> QED
    BY <2>1, <2>2, <2>3
<1>18. CASE CleanupDone
  <2>1. host' \in Hosts /\ ProcessTypeOK'
    BY <1>18 DEF CleanupDone, FallBack, Goto, ProcessTypeOK
  <2>2. ReportTypeOK'
    BY <1>18 DEF CleanupDone, FallBack, Goto, ProcessTypeOK, ReportTypeOK
  <2>3. MachineTypeOK'
    BY <1>18 DEF CleanupDone, FallBack, Goto, MachineTypeOK
  <2> QED
    BY <2>1, <2>2, <2>3
<1>19. CASE PartialCleanupDone
  <2>1. host' \in Hosts /\ ProcessTypeOK'
    BY <1>19 DEF PartialCleanupDone, Goto, ProcessTypeOK
  <2>2. ReportTypeOK'
    BY <1>19 DEF PartialCleanupDone, Goto, ProcessTypeOK, ReportTypeOK
  <2>3. MachineTypeOK'
    BY <1>19 DEF PartialCleanupDone, Goto, MachineTypeOK
  <2> QED
    BY <2>1, <2>2, <2>3
<1>20. CASE WriteBack
  <2>1. host' \in Hosts /\ ProcessTypeOK'
    BY <1>20 DEF WriteBack, ProcessTypeOK
  <2>2. ReportTypeOK'
    BY <1>20 DEF WriteBack, ProcessTypeOK, ReportTypeOK
  <2>3. MachineTypeOK'
    BY <1>20 DEF WriteBack, MachineTypeOK
  <2> QED
    BY <2>1, <2>2, <2>3
<1>21. CASE Shutdown
  <2>1. host' \in Hosts /\ ProcessTypeOK'
    BY <1>21, HostsAssumption DEF Shutdown, CutShort, ForgetSystem, ForgetProcess, HostType, ProcessTypeOK
  <2>2. ReportTypeOK'
    BY <1>21 DEF Shutdown, CutShort, ForgetSystem, ForgetProcess, ProcessTypeOK, ReportTypeOK
  <2>3. MachineTypeOK'
    BY <1>21 DEF Shutdown, CutShort, ForgetSystem, ForgetProcess, MachineTypeOK
  <2> QED
    BY <2>1, <2>2, <2>3
<1>22. CASE Kill
  <2>1. host' \in Hosts /\ ProcessTypeOK'
    BY <1>22, HostsAssumption DEF Kill, CutShort, ForgetProcess, HostType, ProcessTypeOK
  <2>2. ReportTypeOK'
    BY <1>22 DEF Kill, CutShort, ForgetProcess, ProcessTypeOK, ReportTypeOK
  <2>3. MachineTypeOK'
    BY <1>22 DEF Kill, CutShort, ForgetProcess, MachineTypeOK
  <2> QED
    BY <2>1, <2>2, <2>3
<1>23. CASE PowerCut
  <2>1. host' \in Hosts /\ ProcessTypeOK'
    BY <1>23, HostsAssumption DEF PowerCut, CutShort, ForgetSystem, ForgetProcess, HostType, ProcessTypeOK
  <2>2. ReportTypeOK'
    BY <1>23 DEF PowerCut, CutShort, ForgetSystem, ForgetProcess, ProcessTypeOK, ReportTypeOK
  <2>3. MachineTypeOK'
    <3>1. PICK d \in CutShort : disk' = AfterCut(d)
      BY <1>23 DEF PowerCut
    <3>2. d \in [Artifacts -> Content]
      BY <3>1 DEF CutShort, MachineTypeOK
    <3>3. disk' \in [Artifacts -> Content]
      BY <3>1, <3>2 DEF AfterCut, MachineTypeOK
    <3> QED
      BY <1>23, <3>3 DEF PowerCut, ForgetSystem, MachineTypeOK
  <2> QED
    BY <2>1, <2>2, <2>3
<1>24. CASE BootEntry
  <2>1. host' \in Hosts /\ ProcessTypeOK'
    BY <1>24 DEF BootEntry, ProcessTypeOK
  <2>2. ReportTypeOK'
    BY <1>24 DEF BootEntry, ProcessTypeOK, ReportTypeOK
  <2>3. MachineTypeOK'
    BY <1>24 DEF BootEntry, MachineTypeOK
  <2> QED
    BY <2>1, <2>2, <2>3
<1>25. CASE BootWithoutHandler
  <2>1. host' \in Hosts /\ ProcessTypeOK'
    BY <1>25 DEF BootWithoutHandler, ProcessTypeOK
  <2>2. ReportTypeOK'
    BY <1>25 DEF BootWithoutHandler, ProcessTypeOK, ReportTypeOK
  <2>3. MachineTypeOK'
    BY <1>25 DEF BootWithoutHandler, MachineTypeOK
  <2> QED
    BY <2>1, <2>2, <2>3
<1>26. CASE BootLinux
  <2>1. host' \in Hosts /\ ProcessTypeOK'
    BY <1>26 DEF BootLinux, ProcessTypeOK
  <2>2. ReportTypeOK'
    BY <1>26 DEF BootLinux, ProcessTypeOK, ReportTypeOK
  <2>3. MachineTypeOK'
    BY <1>26 DEF BootLinux, MachineTypeOK
  <2> QED
    BY <2>1, <2>2, <2>3
<1>27. CASE PowerCycle
  <2>1. host' \in Hosts /\ ProcessTypeOK'
    BY <1>27 DEF PowerCycle, ProcessTypeOK
  <2>2. ReportTypeOK'
    BY <1>27 DEF PowerCycle, ProcessTypeOK, ReportTypeOK
  <2>3. MachineTypeOK'
    BY <1>27 DEF PowerCycle, MachineTypeOK
  <2> QED
    BY <2>1, <2>2, <2>3
<1>28. CASE UNCHANGED vars
  BY <1>28 DEF vars, ProcessTypeOK, ReportTypeOK, MachineTypeOK
<1> QED
  BY <1>1, <1>2, <1>3, <1>4, <1>5, <1>6, <1>7, <1>8, <1>9, <1>10, <1>11, <1>12, <1>13, <1>14, <1>15, <1>16, <1>17, <1>18, <1>19, <1>20, <1>21, <1>22, <1>23, <1>24, <1>25, <1>26, <1>27, <1>28
     DEF Next, Installer, Execute, Boot

(* The installer's memory and the machine are always of these types.        *)
THEOREM TypeCorrect == Spec => []TypeOK
BY TypeInit, TypeNext, PTL DEF Spec

-----------------------------------------------------------------------------
(* What StageAndBoot has established by the time it reaches a step: the      *)
(* invariant behind HandOverBootable.                                        *)

\* The initramfs that PrepareStage builds, and then copies, is whole.
BuiltWhole ==
    /\ step \in {"memory", "makeBootDir", "bootSpace", "copyInitrd"} => disk["build"] = "full"
    /\ step \in {"dropBuild", "renderScript", "writeScript"} => disk["initrd"] = "full"
    /\ step = "sync" /\ method = "grub" => disk["initrd"] = "full"

\* executeGRUB works on a whole stage, a checked grub.cfg and an armed entry.
GrubEstablished ==
    /\ step \in GrubSteps => disk["initrd"] = "full"
    /\ step \in {"checkStorage", "arm", "verify", "systemctlReboot", "reboot"}
          => disk["menu"] = "full"
    /\ step \in {"systemctlReboot", "reboot"} => armed

\* executeKexec cleans up, and asks for the reboot, with the image loaded.
KexecEstablished ==
    step \in {"systemctlKexec", "kexecExec"} \/ (step = "cleanup" /\ return = "loaded")
       => loaded

Established == BuiltWhole /\ GrubEstablished /\ KexecEstablished /\ HandOverBootable

LEMMA EstablishedInit == Init => Established
BY DEF Init, Established, BuiltWhole, GrubEstablished, KexecEstablished, HandOverBootable

LEMMA EstablishedNext == TypeOK /\ Established /\ [Next]_vars => Established'
<1> SUFFICES ASSUME TypeOK, Established, [Next]_vars PROVE Established'
  OBVIOUS
<1> USE DEF TypeOK, ProcessTypeOK, MachineTypeOK, Established, BuiltWhole, GrubEstablished,
            KexecEstablished, HandOverBootable, machine, process
<1>1. CASE Start
  BY <1>1 DEF Start
<1>2. CASE PrepareStep
  BY <1>2 DEF PrepareStep, Prepared, AfterPrepare
<1>3. CASE PrepareFails
  BY <1>3 DEF PrepareFails
<1>4. CASE Sync
  BY <1>4 DEF Sync, CallCleanup, StageArtifacts, Goto
<1>5. CASE KexecLoad
  BY <1>5 DEF KexecLoad, AfterKexec, CallCleanup, StageArtifacts
<1>6. CASE SystemctlKexec
  BY <1>6 DEF SystemctlKexec, Goto
<1>7. CASE KexecExec
  BY <1>7 DEF KexecExec, Goto
<1>8. CASE KexecUnload
  BY <1>8 DEF KexecUnload, CleanupFails, UnloadFaults, AfterKexec, CallCleanup, StageArtifacts
<1>9. CASE UpdateGrub
  BY <1>9 DEF UpdateGrub, Generated, Goto, FailGRUB, CallCleanup, StageArtifacts
<1>10. CASE CheckConfig
  BY <1>10 DEF CheckConfig, Goto, FailGRUB, CallCleanup, StageArtifacts
<1>11. CASE CheckStorage
  BY <1>11 DEF CheckStorage, Goto, FailGRUB, CallCleanup, StageArtifacts
<1>12. CASE Arm
  BY <1>12 DEF Arm, ArmEntry, Goto, FailGRUB, CallCleanup, StageArtifacts
<1>13. CASE Verify
  BY <1>13 DEF Verify, Goto, FailGRUB, CallCleanup, StageArtifacts
<1>14. CASE SystemctlReboot
  BY <1>14 DEF SystemctlReboot, Goto
<1>15. CASE Reboot
  BY <1>15 DEF Reboot, Goto, FailGRUB, CallCleanup, StageArtifacts
<1>16. CASE Cleanup
  BY <1>16 DEF Cleanup, RemoveOne, CleanupFails, RemovalWorks, Generated
<1>17. CASE PartialCleanup
  BY <1>17 DEF PartialCleanup, RemoveOne, CleanupFails, RemovalWorks, Generated
<1>18. CASE CleanupDone
  BY <1>18 DEF CleanupDone, FallBack, Goto
<1>19. CASE PartialCleanupDone
  BY <1>19 DEF PartialCleanupDone, Goto
<1>20. CASE WriteBack
  BY <1>20 DEF WriteBack
<1>21. CASE Shutdown
  BY <1>21 DEF Shutdown
<1>22. CASE Kill
  BY <1>22 DEF Kill
<1>23. CASE PowerCut
  BY <1>23 DEF PowerCut
<1>24. CASE BootEntry
  BY <1>24 DEF BootEntry
<1>25. CASE BootWithoutHandler
  BY <1>25 DEF BootWithoutHandler
<1>26. CASE BootLinux
  BY <1>26 DEF BootLinux
<1>27. CASE PowerCycle
  BY <1>27 DEF PowerCycle
<1>28. CASE UNCHANGED vars
  BY <1>28 DEF vars
<1> QED
  BY <1>1, <1>2, <1>3, <1>4, <1>5, <1>6, <1>7, <1>8, <1>9, <1>10, <1>11, <1>12, <1>13, <1>14, <1>15, <1>16, <1>17, <1>18, <1>19, <1>20, <1>21, <1>22, <1>23, <1>24, <1>25, <1>26, <1>27, <1>28
     DEF Next, Installer, Execute, Boot

(* When StageAndBoot returns nil, the reboot it asked for leads to the       *)
(* writer: on every host, whatever failed before, in this attempt or in an   *)
(* earlier one.                                                              *)
THEOREM HandOver == Spec => []HandOverBootable
<1>1. Spec => []Established
  BY TypeCorrect, EstablishedInit, EstablishedNext, PTL DEF Spec
<1> QED
  BY <1>1, PTL DEF Established

-----------------------------------------------------------------------------
(* Where the residue of an attempt can be at each step: the invariant behind *)
(* ResidueReported and FallbackStartsClean.                                  *)

\* What the attempt under way has left so far.
New == Residue \ before

\* A file is in its directory, now and in what the attempt found.
FilesInDirs ==
    /\ disk["build"] # "absent" => disk["buildDir"] # "absent"
    /\ disk["initrd"] # "absent" => disk["bootDir"] # "absent"
    /\ "build" \in before => "buildDir" \in before
    /\ "initrd" \in before => "bootDir" \in before
    /\ step \in PrepareSteps \ {"makeBuildDir"} => disk["buildDir"] # "absent"
    /\ step \in {"bootSpace", "copyInitrd", "dropBuild", "renderScript", "writeScript"}
          => disk["bootDir"] # "absent"

\* Each half of StageAndBoot works for its own method.
MethodFits ==
    /\ step \in KexecSteps => method = "kexec"
    /\ step \in GrubSteps => method = "grub"
    /\ step \in {"makeBootDir", "bootSpace", "copyInitrd", "dropBuild",
                 "renderScript", "writeScript"} => method = "grub"
    /\ step = "cleanup" /\ return \in {"loaded", "kexec"} => method = "kexec"

\* PrepareStage has registered for removal all that it has left, and no more
\* than files and directories.
PrepareCovered ==
    /\ step \in PrepareSteps => New \subseteq todo
    /\ step \in {"makeBuildDir", "clearBuild", "buildSpace", "build", "memory"}
          => todo \subseteq {"build", "buildDir"}
    /\ step \in PrepareSteps \cup {"partialCleanup"} => todo \subseteq Artifacts \ {"menu"}
    /\ step \in {"renderScript", "writeScript"} => disk["build"] = "absent"
    /\ step \in PrepareSteps \ {"makeBuildDir"} => {"build", "buildDir"} \subseteq todo
    /\ step \in {"bootSpace", "copyInitrd", "dropBuild", "renderScript", "writeScript"}
          => {"initrd", "bootDir"} \subseteq todo
    /\ step = "writeScript" => "script" \in todo

\* What a committed stage has left is what its cleanups are called for.
StageCovered ==
    /\ step \in {"sync", "updateGrub"} \cup KexecSteps => New \subseteq StageArtifacts
    /\ step \in {"checkConfig", "checkStorage", "arm"} => New \subseteq StageArtifacts \cup {"menu"}
    /\ step \in {"verify", "systemctlReboot", "reboot"}
          => New \subseteq StageArtifacts \cup {"menu", "armed"}

\* During a cleanup the residue is still to be removed or accounted for, ...
CleanupCovered ==
    /\ step \in {"cleanup", "partialCleanup"} => New \subseteq todo \cup Accounted
    /\ step = "cleanup" /\ return \in {"loaded", "kexec"}
          => New \cup todo \subseteq {"build", "buildDir"}
    /\ step = "cleanup" => return # "none"
    /\ step = "cleanup" /\ return = "sync" => "menu" \notin todo

\* ... with nothing reported as long as no removal has failed, and the script is
\* gone, unless its removal failed, when update-grub runs again.
CleanupProgress ==
    /\ step = "cleanup" /\ return = "kexec" /\ ~cleanFailed => New \subseteq todo
    /\ step = "cleanup" /\ return = "grub" /\ "script" \notin todo
          => disk["script"] = "absent" \/ "script" \in reported

Covered ==
    /\ FilesInDirs /\ MethodFits
    /\ PrepareCovered /\ StageCovered /\ CleanupCovered /\ CleanupProgress
    /\ ResidueReported

\* What one removal changes, and when what it should remove is still there.
LEMMA Removal ==
    ASSUME TypeOK, NEW a \in todo, RemoveOne(a)
    PROVE  /\ todo' = todo \ {a}
           /\ reported \subseteq reported'
           /\ ~cleanFailed' => ~cleanFailed /\ reported' = reported
           /\ a # "armed" => armed' = armed
           /\ \A x \in Artifacts : x # a => disk'[x] = disk[x]
           /\ a # "menu" /\ a # "armed" /\ disk'[a] # "absent" => disk[a] # "absent"
           /\ NotEmpty(a) => disk' = disk
           /\ \/ a \in reported' /\ cleanFailed'
              \/ a = "armed" /\ ~armed'
              \/ a = "menu" /\ disk["script"] # "absent"
              \/ a \in Artifacts /\ disk'[a] = "absent"
              \/ NotEmpty(a) /\ disk' = disk
BY DEF TypeOK, ProcessTypeOK, ReportTypeOK, MachineTypeOK, RemoveOne, CleanupFails, RemovalWorks, Generated, NotEmpty

\* Files are removed before their directory, and the script before update-grub.
LEMMA DueInStage ==
    ASSUME TypeOK, NEW a, IsDue(a, StageOrder)
    PROVE  /\ a = "buildDir" => "build" \notin todo
           /\ a = "bootDir" => "initrd" \notin todo
           /\ a = "menu" => "script" \notin todo
BY DEF TypeOK, ProcessTypeOK, IsDue, StageOrder

LEMMA DueInPartial ==
    ASSUME TypeOK, todo \subseteq Artifacts \ {"menu"}, NEW a, IsDue(a, PartialOrder)
    PROVE  /\ a = "buildDir" => "build" \notin todo
           /\ a = "bootDir" => "initrd" \notin todo
BY DEF TypeOK, ProcessTypeOK, IsDue, PartialOrder

LEMMA CoveredInit == Init => Covered
BY DEF Init, Covered, FilesInDirs, MethodFits, PrepareCovered, StageCovered, CleanupCovered,
       CleanupProgress, ResidueReported

LEMMA CoveredNext == TypeOK /\ Covered /\ [Next]_vars => Covered'
<1> SUFFICES ASSUME TypeOK, Covered, [Next]_vars PROVE Covered'
  OBVIOUS
<1> USE DEF TypeOK, ProcessTypeOK, ReportTypeOK, MachineTypeOK, Covered, machine, reports, process
<1>1. CASE Start
  <2>1. FilesInDirs' /\ MethodFits'
    BY <1>1 DEF Start, Residue, FilesInDirs, MethodFits
  <2>2. PrepareCovered' /\ StageCovered'
    BY <1>1 DEF Start, Residue, PrepareCovered, StageCovered, MethodFits, New, Residue
  <2>3. CleanupCovered' /\ CleanupProgress' /\ ResidueReported'
    BY <1>1 DEF Start, Residue, PrepareCovered, StageCovered, CleanupCovered, CleanupProgress, ResidueReported, MethodFits, FilesInDirs, New, Residue, Accounted
  <2> QED
    BY <2>1, <2>2, <2>3
<1>2. CASE PrepareStep
  <2> USE DEF FilesInDirs, MethodFits, PrepareCovered, StageCovered, CleanupCovered, CleanupProgress,
              ResidueReported, New, Residue, Accounted, StageArtifacts
  <2>0. UNCHANGED <<method, before, armed>>
    BY <1>2 DEF PrepareStep
  <2>1. CASE step = "makeBuildDir"
    <3>1. /\ disk' = [disk EXCEPT !["buildDir"] = "full"]
          /\ step' = "clearBuild"
          /\ todo' = {"buildDir", "build"}
      BY <1>2, <2>1 DEF PrepareStep, Prepared, Registered, AfterPrepare, Committed
    <3> QED
      BY <2>0, <2>1, <3>1
  <2>2. CASE step = "clearBuild"
    <3>1. /\ disk' = [disk EXCEPT !["build"] = "absent"]
          /\ step' = "buildSpace"
          /\ todo' = todo
      BY <1>2, <2>2 DEF PrepareStep, Prepared, Registered, AfterPrepare, Committed
    <3> QED
      BY <2>0, <2>2, <3>1
  <2>3. CASE step = "buildSpace"
    <3>1. /\ disk' = disk
          /\ step' = "build"
          /\ todo' = todo
      BY <1>2, <2>3 DEF PrepareStep, Prepared, Registered, AfterPrepare, Committed
    <3> QED
      BY <2>0, <2>3, <3>1
  <2>4. CASE step = "build"
    <3>1. /\ disk' = [disk EXCEPT !["build"] = "full"]
          /\ step' = "memory"
          /\ todo' = todo
      BY <1>2, <2>4 DEF PrepareStep, Prepared, Registered, AfterPrepare, Committed
    <3> QED
      BY <2>0, <2>4, <3>1
  <2>5. CASE step = "memory"
    <3>1. /\ disk' = disk
          /\ step' = IF method = "kexec" THEN "sync" ELSE "makeBootDir"
          /\ todo' = IF method = "kexec" THEN {} ELSE todo
      BY <1>2, <2>5 DEF PrepareStep, Prepared, Registered, AfterPrepare, Committed
    <3> QED
      BY <2>0, <2>5, <3>1
  <2>6. CASE step = "makeBootDir"
    <3>1. /\ disk' = [disk EXCEPT !["bootDir"] = "full"]
          /\ step' = "bootSpace"
          /\ todo' = todo \cup {"bootDir", "initrd"}
      BY <1>2, <2>6 DEF PrepareStep, Prepared, Registered, AfterPrepare, Committed
    <3> QED
      BY <2>0, <2>6, <3>1
  <2>7. CASE step = "bootSpace"
    <3>1. /\ disk' = disk
          /\ step' = "copyInitrd"
          /\ todo' = todo
      BY <1>2, <2>7 DEF PrepareStep, Prepared, Registered, AfterPrepare, Committed
    <3> QED
      BY <2>0, <2>7, <3>1
  <2>8. CASE step = "copyInitrd"
    <3>1. /\ disk' = [disk EXCEPT !["initrd"] = disk["build"]]
          /\ step' = "dropBuild"
          /\ todo' = todo
      BY <1>2, <2>8 DEF PrepareStep, Prepared, Registered, AfterPrepare, Committed
    <3> QED
      BY <2>0, <2>8, <3>1
  <2>9. CASE step = "dropBuild"
    <3>1. /\ disk' = [disk EXCEPT !["build"] = "absent"]
          /\ step' = "renderScript"
          /\ todo' = todo
      BY <1>2, <2>9 DEF PrepareStep, Prepared, Registered, AfterPrepare, Committed
    <3> QED
      BY <2>0, <2>9, <3>1
  <2>10. CASE step = "renderScript"
    <3>1. /\ disk' = disk
          /\ step' = "writeScript"
          /\ todo' = todo \cup {"script"}
      BY <1>2, <2>10 DEF PrepareStep, Prepared, Registered, AfterPrepare, Committed
    <3> QED
      BY <2>0, <2>10, <3>1
  <2>11. CASE step = "writeScript"
    <3>1. /\ disk' = [disk EXCEPT !["script"] = "full"]
          /\ step' = IF fallback THEN "updateGrub" ELSE "sync"
          /\ todo' = {}
      BY <1>2, <2>11 DEF PrepareStep, Prepared, Registered, AfterPrepare, Committed
    <3> QED
      BY <2>0, <2>11, <3>1
  <2> QED
    BY <1>2, <2>1, <2>2, <2>3, <2>4, <2>5, <2>6, <2>7, <2>8, <2>9, <2>10, <2>11 DEF PrepareStep
<1>3. CASE PrepareFails
  <2>1. FilesInDirs' /\ MethodFits'
    BY <1>3 DEF PrepareFails, FilesInDirs, MethodFits
  <2>2. PrepareCovered' /\ StageCovered'
    BY <1>3 DEF PrepareFails, PrepareCovered, StageCovered, MethodFits, New, Residue
  <2>3. New' \subseteq todo'
    BY <1>3 DEF PrepareFails, PrepareCovered, New, Residue
  <2>4. CleanupCovered' /\ CleanupProgress' /\ ResidueReported'
    BY <1>3, <2>3 DEF PrepareFails, CleanupCovered, CleanupProgress, ResidueReported
  <2> QED
    BY <2>1, <2>2, <2>4
<1>4. CASE Sync
  <2>1. FilesInDirs' /\ MethodFits'
    BY <1>4 DEF Sync, CallCleanup, StageArtifacts, Goto, FilesInDirs, MethodFits
  <2>2. PrepareCovered' /\ StageCovered'
    BY <1>4 DEF Sync, CallCleanup, StageArtifacts, Goto, PrepareCovered, StageCovered, MethodFits, New, Residue
  <2>3. CleanupCovered' /\ CleanupProgress' /\ ResidueReported'
    BY <1>4 DEF Sync, CallCleanup, StageArtifacts, Goto, PrepareCovered, StageCovered, CleanupCovered, CleanupProgress, ResidueReported, MethodFits, FilesInDirs, New, Residue, Accounted
  <2> QED
    BY <2>1, <2>2, <2>3
<1>5. CASE KexecLoad
  <2>1. FilesInDirs' /\ MethodFits'
    BY <1>5 DEF KexecLoad, AfterKexec, CallCleanup, StageArtifacts, FilesInDirs, MethodFits
  <2>2. PrepareCovered' /\ StageCovered'
    BY <1>5 DEF KexecLoad, AfterKexec, CallCleanup, StageArtifacts, PrepareCovered, StageCovered, MethodFits, New, Residue
  <2>3. CleanupCovered' /\ CleanupProgress' /\ ResidueReported'
    BY <1>5 DEF KexecLoad, AfterKexec, CallCleanup, StageArtifacts, PrepareCovered, StageCovered, CleanupCovered, CleanupProgress, ResidueReported, MethodFits, FilesInDirs, New, Residue, Accounted
  <2> QED
    BY <2>1, <2>2, <2>3
<1>6. CASE SystemctlKexec
  <2>1. FilesInDirs' /\ MethodFits'
    BY <1>6 DEF SystemctlKexec, Goto, FilesInDirs, MethodFits
  <2>2. PrepareCovered' /\ StageCovered'
    BY <1>6 DEF SystemctlKexec, Goto, StageArtifacts, PrepareCovered, StageCovered, MethodFits, New, Residue
  <2>3. CleanupCovered' /\ CleanupProgress' /\ ResidueReported'
    BY <1>6 DEF SystemctlKexec, Goto, PrepareCovered, StageCovered, CleanupCovered, CleanupProgress, ResidueReported, MethodFits, FilesInDirs, New, Residue, Accounted
  <2> QED
    BY <2>1, <2>2, <2>3
<1>7. CASE KexecExec
  <2>1. FilesInDirs' /\ MethodFits'
    BY <1>7 DEF KexecExec, Goto, FilesInDirs, MethodFits
  <2>2. PrepareCovered' /\ StageCovered'
    BY <1>7 DEF KexecExec, Goto, StageArtifacts, PrepareCovered, StageCovered, MethodFits, New, Residue
  <2>3. CleanupCovered' /\ CleanupProgress' /\ ResidueReported'
    BY <1>7 DEF KexecExec, Goto, PrepareCovered, StageCovered, CleanupCovered, CleanupProgress, ResidueReported, MethodFits, FilesInDirs, New, Residue, Accounted
  <2> QED
    BY <2>1, <2>2, <2>3
<1>8. CASE KexecUnload
  <2>1. FilesInDirs' /\ MethodFits'
    BY <1>8 DEF KexecUnload, CleanupFails, UnloadFaults, AfterKexec, CallCleanup, StageArtifacts, FilesInDirs, MethodFits
  <2>2. PrepareCovered' /\ StageCovered'
    BY <1>8 DEF KexecUnload, CleanupFails, UnloadFaults, AfterKexec, CallCleanup, StageArtifacts, PrepareCovered, StageCovered, MethodFits, New, Residue
  <2>3. CleanupCovered' /\ CleanupProgress' /\ ResidueReported'
    BY <1>8 DEF KexecUnload, CleanupFails, UnloadFaults, AfterKexec, CallCleanup, StageArtifacts, PrepareCovered, StageCovered, CleanupCovered, CleanupProgress, ResidueReported, MethodFits, FilesInDirs, New, Residue, Accounted
  <2> QED
    BY <2>1, <2>2, <2>3
<1>9. CASE UpdateGrub
  <2>1. FilesInDirs' /\ MethodFits'
    BY <1>9 DEF UpdateGrub, Generated, Goto, FailGRUB, CallCleanup, StageArtifacts, FilesInDirs, MethodFits
  <2>2. PrepareCovered' /\ StageCovered'
    BY <1>9 DEF UpdateGrub, Generated, Goto, FailGRUB, CallCleanup, StageArtifacts, PrepareCovered, StageCovered, MethodFits, New, Residue
  <2>3. CleanupCovered' /\ CleanupProgress' /\ ResidueReported'
    BY <1>9 DEF UpdateGrub, Generated, Goto, FailGRUB, CallCleanup, StageArtifacts, PrepareCovered, StageCovered, CleanupCovered, CleanupProgress, ResidueReported, MethodFits, FilesInDirs, New, Residue, Accounted
  <2> QED
    BY <2>1, <2>2, <2>3
<1>10. CASE CheckConfig
  <2>1. FilesInDirs' /\ MethodFits'
    BY <1>10 DEF CheckConfig, Goto, FailGRUB, CallCleanup, StageArtifacts, FilesInDirs, MethodFits
  <2>2. PrepareCovered' /\ StageCovered'
    BY <1>10 DEF CheckConfig, Goto, FailGRUB, CallCleanup, StageArtifacts, PrepareCovered, StageCovered, MethodFits, New, Residue
  <2>3. CleanupCovered' /\ CleanupProgress' /\ ResidueReported'
    BY <1>10 DEF CheckConfig, Goto, FailGRUB, CallCleanup, StageArtifacts, PrepareCovered, StageCovered, CleanupCovered, CleanupProgress, ResidueReported, MethodFits, FilesInDirs, New, Residue, Accounted
  <2> QED
    BY <2>1, <2>2, <2>3
<1>11. CASE CheckStorage
  <2>1. FilesInDirs' /\ MethodFits'
    BY <1>11 DEF CheckStorage, Goto, FailGRUB, CallCleanup, StageArtifacts, FilesInDirs, MethodFits
  <2>2. PrepareCovered' /\ StageCovered'
    BY <1>11 DEF CheckStorage, Goto, FailGRUB, CallCleanup, StageArtifacts, PrepareCovered, StageCovered, MethodFits, New, Residue
  <2>3. CleanupCovered' /\ CleanupProgress' /\ ResidueReported'
    BY <1>11 DEF CheckStorage, Goto, FailGRUB, CallCleanup, StageArtifacts, PrepareCovered, StageCovered, CleanupCovered, CleanupProgress, ResidueReported, MethodFits, FilesInDirs, New, Residue, Accounted
  <2> QED
    BY <2>1, <2>2, <2>3
<1>12. CASE Arm
  <2>1. FilesInDirs' /\ MethodFits'
    BY <1>12 DEF Arm, ArmEntry, Goto, FailGRUB, CallCleanup, StageArtifacts, FilesInDirs, MethodFits
  <2>2. PrepareCovered' /\ StageCovered'
    BY <1>12 DEF Arm, ArmEntry, Goto, FailGRUB, CallCleanup, StageArtifacts, PrepareCovered, StageCovered, MethodFits, New, Residue
  <2>3. CleanupCovered' /\ CleanupProgress' /\ ResidueReported'
    BY <1>12 DEF Arm, ArmEntry, Goto, FailGRUB, CallCleanup, StageArtifacts, PrepareCovered, StageCovered, CleanupCovered, CleanupProgress, ResidueReported, MethodFits, FilesInDirs, New, Residue, Accounted
  <2> QED
    BY <2>1, <2>2, <2>3
<1>13. CASE Verify
  <2>1. FilesInDirs' /\ MethodFits'
    BY <1>13 DEF Verify, Goto, FailGRUB, CallCleanup, StageArtifacts, FilesInDirs, MethodFits
  <2>2. PrepareCovered' /\ StageCovered'
    BY <1>13 DEF Verify, Goto, FailGRUB, CallCleanup, StageArtifacts, PrepareCovered, StageCovered, MethodFits, New, Residue
  <2>3. CleanupCovered' /\ CleanupProgress' /\ ResidueReported'
    BY <1>13 DEF Verify, Goto, FailGRUB, CallCleanup, StageArtifacts, PrepareCovered, StageCovered, CleanupCovered, CleanupProgress, ResidueReported, MethodFits, FilesInDirs, New, Residue, Accounted
  <2> QED
    BY <2>1, <2>2, <2>3
<1>14. CASE SystemctlReboot
  <2>1. FilesInDirs' /\ MethodFits'
    BY <1>14 DEF SystemctlReboot, Goto, FilesInDirs, MethodFits
  <2>2. PrepareCovered' /\ StageCovered'
    BY <1>14 DEF SystemctlReboot, Goto, StageArtifacts, PrepareCovered, StageCovered, MethodFits, New, Residue
  <2>3. CleanupCovered' /\ CleanupProgress' /\ ResidueReported'
    BY <1>14 DEF SystemctlReboot, Goto, PrepareCovered, StageCovered, CleanupCovered, CleanupProgress, ResidueReported, MethodFits, FilesInDirs, New, Residue, Accounted
  <2> QED
    BY <2>1, <2>2, <2>3
<1>15. CASE Reboot
  <2>1. FilesInDirs' /\ MethodFits'
    BY <1>15 DEF Reboot, Goto, FailGRUB, CallCleanup, StageArtifacts, FilesInDirs, MethodFits
  <2>2. PrepareCovered' /\ StageCovered'
    BY <1>15 DEF Reboot, Goto, FailGRUB, CallCleanup, StageArtifacts, PrepareCovered, StageCovered, MethodFits, New, Residue
  <2>3. CleanupCovered' /\ CleanupProgress' /\ ResidueReported'
    BY <1>15 DEF Reboot, Goto, FailGRUB, CallCleanup, StageArtifacts, PrepareCovered, StageCovered, CleanupCovered, CleanupProgress, ResidueReported, MethodFits, FilesInDirs, New, Residue, Accounted
  <2> QED
    BY <2>1, <2>2, <2>3
<1>16. CASE Cleanup
  <2>1. PICK a \in todo : IsDue(a, StageOrder) /\ RemoveOne(a)
    BY <1>16 DEF Cleanup
  <2>2. UNCHANGED <<step, method, return, before>> /\ step = "cleanup"
    BY <1>16 DEF Cleanup
  <2>3. /\ todo' = todo \ {a}
        /\ reported \subseteq reported'
        /\ ~cleanFailed' => ~cleanFailed /\ reported' = reported
        /\ a # "armed" => armed' = armed
        /\ \A x \in Artifacts : x # a => disk'[x] = disk[x]
        /\ a # "menu" /\ a # "armed" /\ disk'[a] # "absent" => disk[a] # "absent"
        /\ NotEmpty(a) => disk' = disk
        /\ \/ a \in reported' /\ cleanFailed'
           \/ a = "armed" /\ ~armed'
           \/ a = "menu" /\ disk["script"] # "absent"
           \/ a \in Artifacts /\ disk'[a] = "absent"
           \/ NotEmpty(a) /\ disk' = disk
    BY <2>1, Removal
  <2>4. /\ a = "buildDir" => "build" \notin todo
        /\ a = "bootDir" => "initrd" \notin todo
        /\ a = "menu" => "script" \notin todo
    BY <2>1, DueInStage
  <2>5. FilesInDirs'
    BY <2>2, <2>3, <2>4 DEF FilesInDirs, NotEmpty
  <2>6. MethodFits' /\ PrepareCovered' /\ StageCovered' /\ ResidueReported'
    BY <2>2 DEF MethodFits, PrepareCovered, StageCovered, ResidueReported
  <2>7. ASSUME NEW x \in New', x # a PROVE x \in todo' \cup Accounted'
    <3>1. x \in New
      BY <2>2, <2>3, <2>7 DEF New, Residue
    <3>2. Accounted \subseteq Accounted'
      BY <2>3 DEF Accounted
    <3> QED
      BY <2>2, <2>3, <2>7, <3>1, <3>2 DEF CleanupCovered
  <2>8. a \in New' => a \in Accounted'
    <3>1. CASE a \in reported'
      BY <3>1 DEF Accounted
    <3>2. CASE a = "menu"
      <4>1. disk["script"] = "absent" \/ "script" \in reported
        BY <2>2, <2>4, <3>2 DEF CleanupCovered, CleanupProgress
      <4>2. "menu" \in reported' \/ disk["script"] # "absent" \/ disk'["menu"] = "absent"
        BY <2>3, <3>2 DEF NotEmpty
      <4> QED
        BY <2>3, <3>2, <4>1, <4>2 DEF Accounted, New, Residue
    <3>3. CASE NotEmpty(a) /\ disk' = disk
      <4>1. /\ a = "buildDir" => "build" \in New \cup before /\ "build" \notin todo
            /\ a = "bootDir" => "initrd" \in New \cup before /\ "initrd" \notin todo
        BY <2>4, <3>3 DEF New, Residue, NotEmpty
      <4>2. /\ a = "buildDir" /\ a \in New' => "build" \in Accounted
            /\ a = "bootDir" /\ a \in New' => "initrd" \in Accounted
        BY <2>2, <4>1 DEF CleanupCovered, FilesInDirs, New
      <4> QED
        BY <2>3, <3>3, <4>2 DEF Accounted, NotEmpty
    <3> QED
      BY <2>3, <3>1, <3>2, <3>3 DEF New, Residue
  <2>9. CleanupCovered'
    <3>1. New' \subseteq todo' \cup Accounted'
      BY <2>7, <2>8
    <3>2. ASSUME return \in {"loaded", "kexec"} PROVE New' \subseteq {"build", "buildDir"}
      <4>1. New \cup todo \subseteq {"build", "buildDir"}
        BY <2>2, <3>2 DEF CleanupCovered
      <4> QED
        BY <2>2, <2>3, <4>1 DEF New, Residue
    <3> QED
      BY <2>2, <2>3, <3>1, <3>2 DEF CleanupCovered
  <2>10. CleanupProgress'
    <3>1. ASSUME return = "kexec", ~cleanFailed' PROVE New' \subseteq todo'
      <4>1. New \cup todo \subseteq {"build", "buildDir"} /\ New \subseteq todo
        BY <2>2, <2>3, <3>1 DEF CleanupCovered, CleanupProgress
      <4>2. ASSUME NEW x \in New', x # a PROVE x \in todo'
        BY <2>2, <2>3, <4>1, <4>2 DEF New, Residue
      <4>3. a \notin New'
        <5>1. CASE a = "build"
          BY <2>2, <2>3, <3>1, <5>1 DEF New, Residue, NotEmpty
        <5>2. CASE a = "buildDir"
          <6>1. NotEmpty(a) => "build" \in before
            BY <2>4, <4>1, <5>2 DEF New, Residue, NotEmpty
          <6> QED
            BY <2>2, <2>3, <3>1, <5>2, <6>1 DEF FilesInDirs, New, Residue
        <5> QED
          BY <4>1, <5>1, <5>2
      <4> QED
        BY <4>2, <4>3
    <3>2. ASSUME return = "grub", "script" \notin todo'
          PROVE disk'["script"] = "absent" \/ "script" \in reported'
      BY <2>2, <2>3, <3>2 DEF CleanupProgress, NotEmpty
    <3> QED
      BY <2>2, <3>1, <3>2 DEF CleanupProgress
  <2> QED
    BY <2>5, <2>6, <2>9, <2>10
<1>17. CASE PartialCleanup
  <2>1. PICK a \in todo : IsDue(a, PartialOrder) /\ RemoveOne(a)
    BY <1>17 DEF PartialCleanup
  <2>2. UNCHANGED <<step, method, return, before>> /\ step = "partialCleanup"
    BY <1>17 DEF PartialCleanup
  <2>3. /\ todo' = todo \ {a}
        /\ reported \subseteq reported'
        /\ a # "armed" => armed' = armed
        /\ \A x \in Artifacts : x # a => disk'[x] = disk[x]
        /\ a # "menu" /\ a # "armed" /\ disk'[a] # "absent" => disk[a] # "absent"
        /\ NotEmpty(a) => disk' = disk
        /\ \/ a \in reported' /\ cleanFailed'
           \/ a = "armed" /\ ~armed'
           \/ a = "menu" /\ disk["script"] # "absent"
           \/ a \in Artifacts /\ disk'[a] = "absent"
           \/ NotEmpty(a) /\ disk' = disk
    BY <2>1, Removal
  <2>4. /\ a = "buildDir" => "build" \notin todo
        /\ a = "bootDir" => "initrd" \notin todo
    BY <2>1, <2>2, DueInPartial DEF PrepareCovered
  <2>5. FilesInDirs'
    BY <2>2, <2>3, <2>4 DEF FilesInDirs, NotEmpty
  <2>6. MethodFits' /\ PrepareCovered' /\ StageCovered' /\ ResidueReported'
    BY <2>2, <2>3 DEF MethodFits, PrepareCovered, StageCovered, ResidueReported
  <2>7. ASSUME NEW x \in New', x # a PROVE x \in todo' \cup Accounted'
    <3>1. x \in New
      BY <2>2, <2>3, <2>7 DEF New, Residue
    <3>2. Accounted \subseteq Accounted'
      BY <2>3 DEF Accounted
    <3> QED
      BY <2>2, <2>3, <2>7, <3>1, <3>2 DEF CleanupCovered
  <2>8. a \in New' => a \in Accounted'
    <3>1. CASE a \in reported'
      BY <3>1 DEF Accounted
    <3>2. CASE a = "menu"
      BY <2>2, <3>2 DEF PrepareCovered
    <3>3. CASE NotEmpty(a) /\ disk' = disk
      <4>1. /\ a = "buildDir" => "build" \in New \cup before /\ "build" \notin todo
            /\ a = "bootDir" => "initrd" \in New \cup before /\ "initrd" \notin todo
        BY <2>4, <3>3 DEF New, Residue, NotEmpty
      <4>2. /\ a = "buildDir" /\ a \in New' => "build" \in Accounted
            /\ a = "bootDir" /\ a \in New' => "initrd" \in Accounted
        BY <2>2, <4>1 DEF CleanupCovered, FilesInDirs, New
      <4> QED
        BY <2>3, <3>3, <4>2 DEF Accounted, NotEmpty
    <3> QED
      BY <2>3, <3>1, <3>2, <3>3 DEF New, Residue
  <2> QED
    BY <2>2, <2>5, <2>6, <2>7, <2>8 DEF CleanupCovered, CleanupProgress
<1>18. CASE CleanupDone
  <2>1. FilesInDirs' /\ MethodFits'
    BY <1>18 DEF CleanupDone, FallBack, Goto, FilesInDirs, MethodFits
  <2>2. PrepareCovered' /\ StageCovered'
    BY <1>18 DEF CleanupDone, FallBack, MayFallBack, Goto, StageArtifacts, PrepareCovered, StageCovered,
                    CleanupCovered, CleanupProgress, MethodFits, New, Residue
  <2>3. CleanupCovered' /\ CleanupProgress' /\ ResidueReported'
    BY <1>18 DEF CleanupDone, FallBack, Goto, PrepareCovered, StageCovered, CleanupCovered, CleanupProgress, ResidueReported, MethodFits, FilesInDirs, New, Residue, Accounted
  <2> QED
    BY <2>1, <2>2, <2>3
<1>19. CASE PartialCleanupDone
  <2>1. FilesInDirs' /\ MethodFits'
    BY <1>19 DEF PartialCleanupDone, Goto, FilesInDirs, MethodFits
  <2>2. PrepareCovered' /\ StageCovered'
    BY <1>19 DEF PartialCleanupDone, Goto, PrepareCovered, StageCovered, MethodFits, New, Residue
  <2>3. CleanupCovered' /\ CleanupProgress' /\ ResidueReported'
    BY <1>19 DEF PartialCleanupDone, Goto, PrepareCovered, StageCovered, CleanupCovered, CleanupProgress, ResidueReported, MethodFits, FilesInDirs, New, Residue, Accounted
  <2> QED
    BY <2>1, <2>2, <2>3
<1>20. CASE WriteBack
  <2>1. FilesInDirs' /\ MethodFits'
    BY <1>20 DEF WriteBack, FilesInDirs, MethodFits
  <2>2. PrepareCovered' /\ StageCovered'
    BY <1>20 DEF WriteBack, StageArtifacts, PrepareCovered, StageCovered, MethodFits, New, Residue
  <2>3. CleanupCovered' /\ CleanupProgress' /\ ResidueReported'
    BY <1>20 DEF WriteBack, PrepareCovered, StageCovered, CleanupCovered, CleanupProgress, ResidueReported, MethodFits, FilesInDirs, New, Residue, Accounted
  <2> QED
    BY <2>1, <2>2, <2>3
<1>21. CASE Shutdown
  <2>1. FilesInDirs' /\ MethodFits'
    BY <1>21 DEF Shutdown, CutShort, ForgetSystem, ForgetProcess, FilesInDirs, MethodFits
  <2>2. PrepareCovered' /\ StageCovered'
    BY <1>21 DEF Shutdown, CutShort, ForgetSystem, ForgetProcess, PrepareCovered, StageCovered, MethodFits, New, Residue
  <2>3. CleanupCovered' /\ CleanupProgress' /\ ResidueReported'
    BY <1>21 DEF Shutdown, CutShort, ForgetSystem, ForgetProcess, PrepareCovered, StageCovered, CleanupCovered, CleanupProgress, ResidueReported, MethodFits, FilesInDirs, New, Residue, Accounted
  <2> QED
    BY <2>1, <2>2, <2>3
<1>22. CASE Kill
  <2>1. FilesInDirs' /\ MethodFits'
    BY <1>22 DEF Kill, CutShort, ForgetProcess, FilesInDirs, MethodFits
  <2>2. PrepareCovered' /\ StageCovered'
    BY <1>22 DEF Kill, CutShort, ForgetProcess, PrepareCovered, StageCovered, MethodFits, New, Residue
  <2>3. CleanupCovered' /\ CleanupProgress' /\ ResidueReported'
    BY <1>22 DEF Kill, CutShort, ForgetProcess, PrepareCovered, StageCovered, CleanupCovered, CleanupProgress, ResidueReported, MethodFits, FilesInDirs, New, Residue, Accounted
  <2> QED
    BY <2>1, <2>2, <2>3
<1>23. CASE PowerCut
  <2>1. FilesInDirs' /\ MethodFits'
    <3>1. PICK d \in CutShort : disk' = AfterCut(d)
      BY <1>23 DEF PowerCut
    <3>2. d["build"] # "absent" => d["buildDir"] # "absent"
      BY <3>1 DEF CutShort, FilesInDirs
    <3>3. step' = "off" /\ before' = {}
      BY <1>23 DEF PowerCut, ForgetSystem
    <3> QED
      BY <3>1, <3>2, <3>3 DEF AfterCut, FilesInDirs, MethodFits
  <2>2. PrepareCovered' /\ StageCovered'
    BY <1>23 DEF PowerCut, CutShort, ForgetSystem, ForgetProcess, PrepareCovered, StageCovered, MethodFits, New, Residue
  <2>3. CleanupCovered' /\ CleanupProgress' /\ ResidueReported'
    BY <1>23 DEF PowerCut, CutShort, ForgetSystem, ForgetProcess, PrepareCovered, StageCovered, CleanupCovered, CleanupProgress, ResidueReported, MethodFits, FilesInDirs, New, Residue, Accounted
  <2> QED
    BY <2>1, <2>2, <2>3
<1>24. CASE BootEntry
  <2>1. FilesInDirs' /\ MethodFits'
    BY <1>24 DEF BootEntry, FilesInDirs, MethodFits
  <2>2. PrepareCovered' /\ StageCovered'
    BY <1>24 DEF BootEntry, PrepareCovered, StageCovered, MethodFits, New, Residue
  <2>3. CleanupCovered' /\ CleanupProgress' /\ ResidueReported'
    BY <1>24 DEF BootEntry, PrepareCovered, StageCovered, CleanupCovered, CleanupProgress, ResidueReported, MethodFits, FilesInDirs, New, Residue, Accounted
  <2> QED
    BY <2>1, <2>2, <2>3
<1>25. CASE BootWithoutHandler
  <2>1. FilesInDirs' /\ MethodFits'
    BY <1>25 DEF BootWithoutHandler, FilesInDirs, MethodFits
  <2>2. PrepareCovered' /\ StageCovered'
    BY <1>25 DEF BootWithoutHandler, PrepareCovered, StageCovered, MethodFits, New, Residue
  <2>3. CleanupCovered' /\ CleanupProgress' /\ ResidueReported'
    BY <1>25 DEF BootWithoutHandler, PrepareCovered, StageCovered, CleanupCovered, CleanupProgress, ResidueReported, MethodFits, FilesInDirs, New, Residue, Accounted
  <2> QED
    BY <2>1, <2>2, <2>3
<1>26. CASE BootLinux
  <2>1. FilesInDirs' /\ MethodFits'
    BY <1>26 DEF BootLinux, FilesInDirs, MethodFits
  <2>2. PrepareCovered' /\ StageCovered'
    BY <1>26 DEF BootLinux, PrepareCovered, StageCovered, MethodFits, New, Residue
  <2>3. CleanupCovered' /\ CleanupProgress' /\ ResidueReported'
    BY <1>26 DEF BootLinux, PrepareCovered, StageCovered, CleanupCovered, CleanupProgress, ResidueReported, MethodFits, FilesInDirs, New, Residue, Accounted
  <2> QED
    BY <2>1, <2>2, <2>3
<1>27. CASE PowerCycle
  <2>1. FilesInDirs' /\ MethodFits'
    BY <1>27 DEF PowerCycle, FilesInDirs, MethodFits
  <2>2. PrepareCovered' /\ StageCovered'
    BY <1>27 DEF PowerCycle, PrepareCovered, StageCovered, MethodFits, New, Residue
  <2>3. CleanupCovered' /\ CleanupProgress' /\ ResidueReported'
    BY <1>27 DEF PowerCycle, PrepareCovered, StageCovered, CleanupCovered, CleanupProgress, ResidueReported, MethodFits, FilesInDirs, New, Residue, Accounted
  <2> QED
    BY <2>1, <2>2, <2>3
<1>28. CASE UNCHANGED vars
  BY <1>28 DEF vars, FilesInDirs, MethodFits, PrepareCovered, StageCovered, CleanupCovered, CleanupProgress, ResidueReported, New, Residue, Accounted, StageArtifacts
<1> QED
  BY <1>1, <1>2, <1>3, <1>4, <1>5, <1>6, <1>7, <1>8, <1>9, <1>10, <1>11, <1>12, <1>13, <1>14, <1>15, <1>16, <1>17, <1>18, <1>19, <1>20, <1>21, <1>22, <1>23, <1>24, <1>25, <1>26, <1>27, <1>28
     DEF Next, Installer, Execute, Boot

(* A returned error leaves nothing of its own attempt behind that it does    *)
(* not report, on every host and for every choice of failing steps, late     *)
(* failures, interrupts, kills and power cuts.                               *)
THEOREM ResidueAccounted == Spec => []ResidueReported
<1>1. Spec => []Covered
  BY TypeCorrect, CoveredInit, CoveredNext, PTL DEF Spec
<1> QED
  BY <1>1, PTL DEF Covered

(* StageAndBoot begins the GRUB attempt only when nothing of the kexec       *)
(* attempt is left on the root disk or in grubenv.                           *)
THEOREM CleanFallback == Spec => FallbackStartsClean
<1>1. Spec => []Covered
  BY TypeCorrect, CoveredInit, CoveredNext, PTL DEF Spec
<1>2. TypeOK /\ Covered /\ [Next]_vars => [~fallback /\ fallback' => Residue \ before = {}]_vars
  <2> SUFFICES ASSUME Covered, [Next]_vars, ~fallback, fallback'
               PROVE  Residue \ before = {}
    OBVIOUS
  <2>1. CleanupDone /\ return = "kexec" /\ MayFallBack
    BY DEF Next, vars, process, machine, reports, Installer, Execute, Boot, Start, PrepareStep,
           PrepareFails, Sync, KexecLoad, SystemctlKexec, KexecExec, KexecUnload, UpdateGrub,
           CheckConfig, CheckStorage, Arm, Verify, SystemctlReboot, Reboot, Cleanup, PartialCleanup,
           CleanupDone, PartialCleanupDone, WriteBack, Shutdown, Kill, PowerCut, BootEntry,
           BootWithoutHandler, BootLinux, PowerCycle, AfterKexec, CallCleanup, FailGRUB, Goto,
           ForgetSystem
  <2>2. New \subseteq todo /\ todo = {}
    BY <2>1 DEF CleanupDone, MayFallBack, Covered, CleanupProgress
  <2> QED
    BY <2>2 DEF New
<1> QED
  BY <1>1, <1>2, TypeCorrect, PTL DEF Spec, FallbackStartsClean

-----------------------------------------------------------------------------
(* StageAndBoot makes progress.                                              *)

\* The removals that the cleanup under way still has to try, ...
Count(a) == IF a \in todo THEN 1 ELSE 0
Pending  == Count("armed") + Count("script") + Count("initrd") + Count("build")
            + Count("bootDir") + Count("buildDir") + Count("menu")

\* ... the steps of PrepareStage, ...
PrepareAhead ==
    CASE step = "makeBuildDir" -> 11 [] step = "clearBuild" -> 10 [] step = "buildSpace" -> 9
      [] step = "build" -> 8 [] step = "memory" -> 7 [] step = "makeBootDir" -> 6
      [] step = "bootSpace" -> 5 [] step = "copyInitrd" -> 4 [] step = "dropBuild" -> 3
      [] step = "renderScript" -> 2 [] OTHER -> 1

\* ... and the steps that may follow in all: those of a kexec attempt with its
\* three cleanups, then those of the fallback, then the last cleanup.
AttemptRank ==
    CASE step \in PrepareSteps    -> PrepareAhead + (IF fallback THEN 30 ELSE 80)
      [] step = "sync"            -> 76
      [] step = "kexecLoad"       -> 75
      [] step = "systemctlKexec"  -> 63
      [] step = "kexecExec"       -> 62
      [] step = "kexecUnload"     -> 61
      [] step = "updateGrub"      -> 16
      [] step = "checkConfig"     -> 15
      [] step = "checkStorage"    -> 14
      [] step = "arm"             -> 13
      [] step = "verify"          -> 12
      [] step = "systemctlReboot" -> 11
      [] step = "reboot"          -> 10
      [] step = "cleanup"         -> Pending + (IF return = "loaded" THEN 64
                                                ELSE IF return = "kexec" THEN 50 ELSE 1)
      [] step = "partialCleanup"  -> Pending + 1
      [] OTHER                    -> 0

\* Each step of the installer comes closer to the end of its attempt, and only the
\* operator begins another one.
AttemptAdvances ==
    /\ Installer => AttemptRank' < AttemptRank
    /\ Start \/ AttemptRank' <= AttemptRank

\* The second attempt of StageAndBoot is one by GRUB.
FallbackIsGrub == step \in Running /\ fallback => method = "grub"

LEMMA PendingType == Pending \in 0 .. 7 /\ Pending' \in 0 .. 7
BY DEF Pending, Count

(* A removal is tried once.                                                  *)
LEMMA PendingShrinks ==
    ASSUME TypeOK, NEW a \in todo, todo' = todo \ {a}
    PROVE  Pending' = Pending - 1
<1>1. a \in {"armed", "script", "initrd", "build", "bootDir", "buildDir", "menu"}
  BY DEF TypeOK, ProcessTypeOK
<1> QED
  BY <1>1 DEF Pending, Count

LEMMA AttemptStep ==
    ASSUME TypeOK, FallbackIsGrub, [Next]_vars
    PROVE  FallbackIsGrub' /\ AttemptAdvances
<1> USE DEF machine, reports, process
<1>1. ASSUME Installer
      PROVE  FallbackIsGrub' /\ AttemptRank' < AttemptRank /\ AttemptRank' <= AttemptRank
  <2> DEFINE Cleans(returns) == step' = "cleanup" /\ return' \in returns /\ UNCHANGED <<method, fallback>>
             Goes(steps)     == step' \in steps /\ UNCHANGED <<method, fallback, return>>
  <2>1. CASE PrepareStep
    <3>1. step \in PrepareSteps /\ step' = AfterPrepare /\ UNCHANGED <<method, fallback>>
      BY <2>1 DEF PrepareStep
    <3>2. method \in {"kexec", "grub"} /\ (fallback => method = "grub")
      BY <3>1 DEF TypeOK, ProcessTypeOK, FallbackIsGrub, Running
    <3>3. FallbackIsGrub'
      BY <3>1, <3>2 DEF FallbackIsGrub
    <3>4. PICK k \in {30, 80} : k = IF fallback THEN 30 ELSE 80
      OBVIOUS
    <3>5. AttemptRank = PrepareAhead + k /\ PrepareAhead \in 1 .. 11
      BY <3>1, <3>4 DEF AttemptRank, PrepareAhead
    <3>6. CASE step \notin {"memory", "writeScript"}
      <4>1. step' \in PrepareSteps /\ PrepareAhead' = PrepareAhead - 1
        <5>1. CASE step = "makeBuildDir"
          BY <3>1, <5>1 DEF AfterPrepare, PrepareAhead, PrepareSteps
        <5>2. CASE step = "clearBuild"
          BY <3>1, <5>2 DEF AfterPrepare, PrepareAhead, PrepareSteps
        <5>3. CASE step = "buildSpace"
          BY <3>1, <5>3 DEF AfterPrepare, PrepareAhead, PrepareSteps
        <5>4. CASE step = "build"
          BY <3>1, <5>4 DEF AfterPrepare, PrepareAhead, PrepareSteps
        <5>5. CASE step = "makeBootDir"
          BY <3>1, <5>5 DEF AfterPrepare, PrepareAhead, PrepareSteps
        <5>6. CASE step = "bootSpace"
          BY <3>1, <5>6 DEF AfterPrepare, PrepareAhead, PrepareSteps
        <5>7. CASE step = "copyInitrd"
          BY <3>1, <5>7 DEF AfterPrepare, PrepareAhead, PrepareSteps
        <5>8. CASE step = "dropBuild"
          BY <3>1, <5>8 DEF AfterPrepare, PrepareAhead, PrepareSteps
        <5>9. CASE step = "renderScript"
          BY <3>1, <5>9 DEF AfterPrepare, PrepareAhead, PrepareSteps
        <5> QED
          BY <3>1, <3>6, <5>1, <5>2, <5>3, <5>4, <5>5, <5>6, <5>7, <5>8, <5>9 DEF PrepareSteps
      <4>2. AttemptRank' = PrepareAhead' + k
        BY <3>1, <3>4, <4>1 DEF AttemptRank
      <4> QED
        BY <3>3, <3>5, <4>1, <4>2
    <3>7. CASE step = "memory"
      <4>1. CASE method = "kexec"
        BY <3>1, <3>2, <3>3, <3>7, <4>1 DEF AfterPrepare, AttemptRank, PrepareAhead, PrepareSteps
      <4>2. CASE method = "grub"
        BY <3>1, <3>2, <3>3, <3>7, <4>2 DEF AfterPrepare, AttemptRank, PrepareAhead, PrepareSteps
      <4> QED
        BY <3>2, <4>1, <4>2
    <3>8. CASE step = "writeScript"
      BY <3>1, <3>3, <3>8 DEF AfterPrepare, AttemptRank, PrepareAhead, PrepareSteps
    <3> QED
      BY <3>6, <3>7, <3>8
  <2>2. CASE PrepareFails
    <3>1. step \in PrepareSteps /\ Goes({"partialCleanup"})
      BY <2>2 DEF PrepareFails
    <3> QED
      BY <3>1, PendingType DEF FallbackIsGrub, AttemptRank, PrepareAhead
  <2>3. CASE Sync
    <3>1. /\ step = "sync"
          /\ \/ Goto(IF method = "kexec" THEN "kexecLoad" ELSE "updateGrub")
             \/ CallCleanup("sync", StageArtifacts)
      BY <2>3 DEF Sync
    <3>2. UNCHANGED <<method, fallback>>
      BY <3>1 DEF Goto, CallCleanup
    <3>3. FallbackIsGrub'
      <4>1. fallback => method = "grub"
        BY <3>1 DEF FallbackIsGrub, Running
      <4> QED
        BY <3>2, <4>1 DEF FallbackIsGrub
    <3>6. step' \in {"kexecLoad", "updateGrub"} \/ (step' = "cleanup" /\ return' = "sync")
      BY <3>1 DEF Goto, CallCleanup
    <3>4. CASE step' \in {"kexecLoad", "updateGrub"}
      <4>1. AttemptRank = 76
        BY <3>1 DEF AttemptRank, PrepareSteps
      <4>2. AttemptRank' \in {75, 16}
        BY <3>4 DEF AttemptRank, PrepareSteps
      <4> QED
        BY <3>3, <4>1, <4>2
    <3>5. CASE step' = "cleanup" /\ return' = "sync"
      <4>1. AttemptRank' = Pending' + 1 /\ AttemptRank = 76
        BY <3>1, <3>5 DEF AttemptRank, PrepareSteps
      <4>2. PICK n \in 0 .. 7 : n = Pending'
        BY PendingType
      <4>3. n + 1 < 76 /\ n + 1 <= 76
        OBVIOUS
      <4> QED
        BY <3>3, <4>1, <4>2, <4>3
    <3> QED
      BY <3>4, <3>5, <3>6
  <2>4. CASE KexecLoad \/ SystemctlKexec \/ KexecExec \/ KexecUnload
    <3>1. \/ step = "kexecLoad" /\ Cleans({"loaded", "kexec"})
          \/ step = "systemctlKexec" /\ Goes({"done", "kexecExec"})
          \/ step = "kexecExec" /\ Goes({"done", "kexecUnload"})
          \/ step = "kexecUnload" /\ Cleans({"kexec"})
      BY <2>4 DEF KexecLoad, SystemctlKexec, KexecExec, KexecUnload, AfterKexec, CallCleanup, Goto
    <3> QED
      BY <3>1, PendingType DEF FallbackIsGrub, AttemptRank
  <2>5. CASE UpdateGrub \/ CheckConfig \/ CheckStorage \/ Arm \/ Verify \/ SystemctlReboot \/ Reboot
    <3>1. \/ step = "updateGrub" /\ (Goes({"checkConfig"}) \/ Cleans({"grub"}))
          \/ step = "checkConfig" /\ (Goes({"checkStorage"}) \/ Cleans({"grub"}))
          \/ step = "checkStorage" /\ (Goes({"arm"}) \/ Cleans({"grub"}))
          \/ step = "arm" /\ (Goes({"verify"}) \/ Cleans({"grub"}))
          \/ step = "verify" /\ (Goes({"systemctlReboot"}) \/ Cleans({"grub"}))
          \/ step = "systemctlReboot" /\ Goes({"done", "reboot"})
          \/ step = "reboot" /\ (Goes({"done"}) \/ Cleans({"grub"}))
      BY <2>5 DEF UpdateGrub, CheckConfig, CheckStorage, Arm, Verify, SystemctlReboot, Reboot,
                  FailGRUB, CallCleanup, Goto
    <3> QED
      BY <3>1, PendingType DEF FallbackIsGrub, AttemptRank
  <2>6. CASE Cleanup \/ PartialCleanup
    <3>1. /\ step \in CleanupSteps /\ UNCHANGED <<step, method, fallback, return>>
          /\ \E a \in todo : todo' = todo \ {a}
      BY <2>6 DEF Cleanup, PartialCleanup, RemoveOne, CleanupFails
    <3>2. PICK n, m \in 0 .. 7 : n = Pending /\ m = Pending' /\ m = n - 1
      BY <3>1, PendingShrinks, PendingType
    <3>3. FallbackIsGrub'
      BY <3>1 DEF FallbackIsGrub
    <3>4. PICK k \in {1, 50, 64} : AttemptRank = n + k /\ AttemptRank' = m + k
      BY <3>1, <3>2 DEF AttemptRank, CleanupSteps, PrepareSteps
    <3> QED
      BY <3>2, <3>3, <3>4
  <2>7. CASE CleanupDone
    <3>1. /\ step = "cleanup"
          /\ \/ return \in {"sync", "grub", "kexec"} /\ Goes({"failed"})
             \/ return = "loaded" /\ Goes({"kexecUnload", "systemctlKexec"})
             \/ return = "kexec" /\ step' = "makeBuildDir" /\ fallback' /\ method' = "grub"
      BY <2>7 DEF CleanupDone, FallBack, Goto
    <3> QED
      BY <3>1, PendingType DEF FallbackIsGrub, AttemptRank, PrepareAhead
  <2>8. CASE PartialCleanupDone
    <3>1. step = "partialCleanup" /\ Goes({"failed"})
      BY <2>8 DEF PartialCleanupDone, Goto
    <3> QED
      BY <3>1, PendingType DEF FallbackIsGrub, AttemptRank
  <2> QED
    BY <1>1, <2>1, <2>2, <2>3, <2>4, <2>5, <2>6, <2>7, <2>8 DEF Installer, Execute
<1>2. CASE Installer
  BY <1>1, <1>2 DEF AttemptAdvances
<1>3. CASE Start
  BY <1>1, <1>3 DEF AttemptAdvances, FallbackIsGrub, Start
<1>4. CASE ~Installer /\ UNCHANGED <<step, process>>
  BY <1>4, PendingType DEF AttemptAdvances, AttemptRank, PrepareAhead, Pending, Count, FallbackIsGrub
<1>5. CASE ~Installer /\ step' \in {"idle", "off", "writer", "stuck"}
  <2>1. AttemptRank \in Nat
    BY PendingType DEF AttemptRank, PrepareAhead
  <2>2. AttemptRank' = 0
    BY <1>5 DEF AttemptRank
  <2>3. \A n \in Nat : 0 <= n
    OBVIOUS
  <2> QED
    BY <1>5, <2>1, <2>2, <2>3 DEF AttemptAdvances, FallbackIsGrub
<1>6. CASE WriteBack \/ UNCHANGED vars
  <2>1. UNCHANGED <<step, process>>
    BY <1>6 DEF WriteBack, vars
  <2> QED
    BY <1>2, <1>4, <2>1
<1>7. CASE Shutdown \/ Kill \/ PowerCut \/ Boot \/ PowerCycle
  <2>1. step' \in {"idle", "off", "writer", "stuck"}
    BY <1>7 DEF Shutdown, Kill, PowerCut, Boot, BootEntry, BootWithoutHandler, BootLinux, PowerCycle
  <2> QED
    BY <1>2, <1>5, <2>1
<1> QED
  BY <1>2, <1>3, <1>6, <1>7 DEF Next

(* StageAndBoot: whatever fails, late or at once, and however often Ctrl-C, a *)
(* kill, a power cut or the shutdown comes in between, each step of an        *)
(* attempt takes it closer to its end, a natural number of them: the fallback *)
(* does not fall back again, no cleanup tries a removal twice, and only the   *)
(* operator starts another attempt.                                           *)
THEOREM AttemptShrinks == Spec => [](AttemptRank \in Nat) /\ [][AttemptAdvances]_vars
<1>1. Init => FallbackIsGrub
  BY DEF Init, FallbackIsGrub
<1>2. TypeOK /\ FallbackIsGrub /\ [Next]_vars => FallbackIsGrub' /\ AttemptAdvances
  BY AttemptStep
<1>3. AttemptRank \in Nat
  BY PendingType DEF AttemptRank, PrepareAhead
<1> QED
  BY <1>1, <1>2, <1>3, TypeCorrect, PTL DEF Spec

=============================================================================
