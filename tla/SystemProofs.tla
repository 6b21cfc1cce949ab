------------------------------ MODULE SystemProofs ------------------------------
(***************************************************************************)
(* Theorems about System, for any disks and any size of the image, any     *)
(* number of attempts and any window of the clock: the composition of the  *)
(* installer, the writer and the clock implements SafeInstall.             *)
(*                                                                         *)
(* The invariant has four parts.  Staged: which files are whole, by the    *)
(* step of the installer.  Numbered: every whole copy of an initramfs is   *)
(* one of an attempt that was made.  Stamped: what the manifest of each    *)
(* attempt says of the clocks.  Writing: what was written of which disk,   *)
(* by the step of the writer.                                              *)
(***************************************************************************)
EXTENDS System, TLAPS

-----------------------------------------------------------------------------
(* The installer and its files.                                            *)

USE DEF S!Artifacts, S!BootFiles, S!Content, S!PrepareSteps, S!KexecSteps, S!GrubSteps,
        S!CleanupSteps, S!Running, S!Quiet

Whole(files) == files["menu"] \in {"absent", "full"}

\* The handler is in grub.cfg whenever the entry is.
Files ==
    /\ host \in Hosts
    /\ disk \in [S!Artifacts -> S!Content]    /\ Whole(disk)
    /\ durable \in [S!BootFiles -> S!Content] /\ Whole(durable)
    /\ loaded \in BOOLEAN

GrubPrepare == {"makeBootDir", "bootSpace", "copyInitrd", "dropBuild", "renderScript", "writeScript"}

\* What kexec loads is the initramfs that was built, which nothing has removed.
BuildKept ==
    /\ step = "memory" => disk["build"] = "full"
    /\ step \in {"sync", "kexecLoad"} /\ method = "kexec" => disk["build"] = "full"
    /\ step \in GrubPrepare => method # "kexec"
    /\ step = "kexecLoad" => method = "kexec"

Staged == Files /\ BuildKept

(* Nothing is staged yet.                                                  *)
LEMMA StagedInit == Init => Staged
BY DEF Init, S!Init, Staged, Files, Whole, BuildKept, GrubPrepare

\* Where a step of the installer may put the initramfs.
Installed ==
    /\ step \in S!Running
    /\ step' \in S!Running \cup {"failed", "done"}
    /\ disk'["build"] = "full" => disk["build"] = "full" \/ step = "build"
    /\ disk'["initrd"] = "full" =>
          disk["initrd"] = "full" \/ (step = "copyInitrd" /\ step' = "dropBuild")
    /\ step = "copyInitrd" /\ step' = "dropBuild" => disk'["initrd"] = disk["build"]
    /\ durable' = IF step = "sync" /\ step' \in {"kexecLoad", "updateGrub"}
                  THEN [f \in S!BootFiles |-> disk[f]] ELSE durable
    /\ loaded' => loaded \/ step = "kexecLoad"

Kept == UNCHANGED <<host, disk, durable, loaded>>

(* A step that leaves the files alone keeps what is said of them.          *)
LEMMA KeptFiles == Files /\ Kept => Files'
BY DEF Files, Kept, Whole

(* update-grub generates the entry with its handler, or nothing of it.     *)
LEMMA GeneratedWhole == host \in Hosts => S!Generated \in {"absent", "full"}
BY SystemAssumption DEF S!Generated

(* A removal leaves what it removes absent and everything else as it is.   *)
LEMMA Removal ==
  ASSUME Files, NEW a, S!RemoveOne(a), UNCHANGED <<host, durable, loaded>>
  PROVE  /\ Files'
         /\ disk'["build"] = "full" => disk["build"] = "full"
         /\ disk'["initrd"] = "full" => disk["initrd"] = "full"
<1>1. S!Generated \in {"absent", "full"}
  BY GeneratedWhole DEF Files
<1>2. \/ disk' = disk
      \/ disk' = [disk EXCEPT !["menu"] = S!Generated]
      \/ disk' = [disk EXCEPT ![a] = "absent"]
  BY DEF S!RemoveOne, S!RemovalWorks
<1>3. disk' \in [S!Artifacts -> S!Content] /\ Whole(disk')
  BY <1>1, <1>2 DEF Files, Whole
<1>4. Files'
  BY <1>3 DEF Files, Whole
<1>5. (disk'["build"] = "full" => disk["build"] = "full")
      /\ (disk'["initrd"] = "full" => disk["initrd"] = "full")
  BY <1>1, <1>2 DEF Files, Whole
<1> QED
  BY <1>4, <1>5

(* PrepareStage puts an initramfs only where Installed allows one.         *)
LEMMA PrepareStaged == ASSUME Staged, S!PrepareStep PROVE Staged' /\ Installed
<1>1. disk' \in [S!Artifacts -> S!Content]
  BY DEF Staged, Files, S!PrepareStep, S!Prepared
<1>2. disk'["menu"] = disk["menu"] /\ UNCHANGED <<host, durable, loaded, method>>
  BY DEF Staged, Files, S!PrepareStep, S!Prepared, S!reports
<1>3. step' \in S!PrepareSteps \cup {"sync", "updateGrub"}
  BY DEF S!PrepareStep, S!AfterPrepare
<1>4. BuildKept'
  BY DEF Staged, Files, BuildKept, GrubPrepare, S!PrepareStep, S!AfterPrepare, S!Prepared
<1>5. Installed
  BY <1>2, <1>3 DEF Staged, Files, Installed, S!PrepareStep, S!AfterPrepare, S!Prepared
<1> QED
  BY <1>1, <1>2, <1>4, <1>5 DEF Staged, Files, Whole

(* A failed step of PrepareStage may spoil the build, nothing else.        *)
LEMMA PrepareFailsStaged == ASSUME Staged, S!PrepareFails PROVE Staged' /\ Installed
<1>1. /\ disk' = disk \/ disk' = [disk EXCEPT !["build"] = "partial"]
      /\ UNCHANGED <<host, durable, loaded, method>>
      /\ step' = "partialCleanup" /\ step \in S!PrepareSteps
  BY DEF S!PrepareFails
<1>2. Files'
  BY <1>1 DEF Staged, Files, Whole
<1>3. BuildKept' /\ Installed
  BY <1>1 DEF Staged, Files, BuildKept, GrubPrepare, Installed
<1> QED
  BY <1>2, <1>3 DEF Staged

(* sync makes durable what is on the disk, if it succeeds.                 *)
LEMMA SyncStaged == ASSUME Staged, S!Sync PROVE Staged' /\ Installed
<1>1. UNCHANGED <<host, disk, loaded, method>> /\ step = "sync"
  BY DEF S!Sync, S!Goto, S!CallCleanup, S!process
<1>2. \/ /\ durable' = [f \in S!BootFiles |-> disk[f]]
         /\ step' = IF method = "kexec" THEN "kexecLoad" ELSE "updateGrub"
      \/ durable' = durable /\ step' = "cleanup"
  BY DEF S!Sync, S!Goto, S!CallCleanup
<1>3. Files'
  BY <1>1, <1>2 DEF Staged, Files, Whole
<1>4. BuildKept'
  BY <1>1, <1>2 DEF Staged, BuildKept, GrubPrepare
<1>5. Installed
  BY <1>1, <1>2 DEF Installed
<1> QED
  BY <1>3, <1>4, <1>5 DEF Staged

(* executeKexec and executeGRUB leave the copies where they are.           *)
LEMMA ExecuteStaged == ASSUME Staged, S!Execute PROVE Staged' /\ Installed
<1> DEFINE Elsewhere(s) ==
      s \in (S!Running \cup {"done"}) \ ({"memory", "sync", "kexecLoad"} \cup GrubPrepare)
<1>1. CASE S!KexecLoad
  <2>1. /\ UNCHANGED <<host, disk, durable>> /\ loaded' \in {loaded, TRUE}
        /\ step = "kexecLoad" /\ step' = "cleanup"
    BY <1>1 DEF S!KexecLoad, S!AfterKexec, S!CallCleanup
  <2> QED
    BY <2>1 DEF Staged, Files, Whole, BuildKept, GrubPrepare, Installed
<1>2. CASE S!SystemctlKexec \/ S!KexecExec \/ S!KexecUnload
  <2>1. /\ UNCHANGED <<host, disk, durable>> /\ loaded' \in {loaded, FALSE}
        /\ step \in S!KexecSteps \ {"kexecLoad"} /\ Elsewhere(step')
    BY <1>2 DEF S!SystemctlKexec, S!KexecExec, S!KexecUnload, S!AfterKexec, S!CallCleanup, S!Goto, GrubPrepare
  <2>2. Files'
    BY <2>1 DEF Staged, Files, Whole
  <2>3. BuildKept'
    BY <2>1 DEF BuildKept, GrubPrepare
  <2>4. loaded' => loaded
    BY <2>1
  <2>5. Installed
    BY <2>1, <2>4 DEF Installed
  <2> QED
    BY <2>2, <2>3, <2>5 DEF Staged
<1>3. CASE S!UpdateGrub
  <2>1. /\ UNCHANGED <<host, durable, loaded>>
        /\ step = "updateGrub" /\ Elsewhere(step')
        /\ disk' \in {disk, [disk EXCEPT !["menu"] = S!Generated]}
    BY <1>3 DEF S!UpdateGrub, S!FailGRUB, S!CallCleanup, S!Goto, GrubPrepare
  <2>2. S!Generated \in {"absent", "full"}
    BY GeneratedWhole DEF Staged, Files
  <2>3. Files'
    BY <2>1, <2>2 DEF Staged, Files, Whole
  <2>4. BuildKept' /\ Installed
    BY <2>1, <2>2 DEF Staged, Files, BuildKept, GrubPrepare, Installed
  <2> QED
    BY <2>3, <2>4 DEF Staged
<1>4. CASE S!CheckConfig \/ S!CheckStorage \/ S!Arm \/ S!Verify \/ S!SystemctlReboot \/ S!Reboot
  <2>1. Kept /\ step \in S!GrubSteps \ {"updateGrub"} /\ Elsewhere(step')
    BY <1>4 DEF S!CheckConfig, S!CheckStorage, S!Arm, S!Verify, S!SystemctlReboot, S!Reboot,
                S!FailGRUB, S!CallCleanup, S!Goto, S!machine, Kept, GrubPrepare
  <2>2. Files'
    BY <2>1, KeptFiles DEF Staged
  <2> QED
    BY <2>1, <2>2 DEF Staged, BuildKept, GrubPrepare, Installed, Kept
<1> QED
  BY <1>1, <1>2, <1>3, <1>4 DEF S!Execute

(* The cleanups only take copies away.                                     *)
LEMMA CleanupStaged ==
  ASSUME Staged, S!Cleanup \/ S!PartialCleanup \/ S!CleanupDone \/ S!PartialCleanupDone
  PROVE  Staged' /\ Installed
<1>1. CASE S!Cleanup \/ S!PartialCleanup
  <2>1. PICK a : S!RemoveOne(a)
    BY <1>1 DEF S!Cleanup, S!PartialCleanup
  <2>2. UNCHANGED <<host, durable, loaded, step>> /\ step \in S!CleanupSteps
    BY <1>1 DEF S!Cleanup, S!PartialCleanup
  <2>3. /\ Files'
        /\ disk'["build"] = "full" => disk["build"] = "full"
        /\ disk'["initrd"] = "full" => disk["initrd"] = "full"
    BY <2>1, <2>2, Removal DEF Staged
  <2> QED
    BY <2>2, <2>3 DEF Staged, BuildKept, GrubPrepare, Installed
<1>2. CASE S!CleanupDone \/ S!PartialCleanupDone
  <2>1. /\ Kept /\ step \in S!CleanupSteps
        /\ step' \in {"failed", "kexecUnload", "systemctlKexec", "makeBuildDir"}
    BY <1>2 DEF S!CleanupDone, S!PartialCleanupDone, S!Goto, S!FallBack, S!machine, Kept
  <2>2. Files'
    BY <2>1, KeptFiles DEF Staged
  <2> QED
    BY <2>1, <2>2 DEF Staged, BuildKept, GrubPrepare, Installed, Kept
<1> QED
  BY <1>1, <1>2

(* Every step of the installer keeps Staged and stays within Installed.    *)
LEMMA InstallStep == ASSUME Staged, S!Installer PROVE Staged' /\ Installed
BY PrepareStaged, PrepareFailsStaged, SyncStaged, ExecuteStaged, CleanupStaged DEF S!Installer

-----------------------------------------------------------------------------
(* The copies of the initramfs.                                            *)

\* Every copy that is whole is one of an attempt that has been made.
Numbered ==
    /\ attempt \in 0 .. Attempts
    /\ copies \in [Copy -> 0 .. attempt]
    /\ step \in S!Running => attempt # 0
    /\ disk["build"] = "full"     => copies.build # 0
    /\ disk["initrd"] = "full"    => copies.initrd # 0
    /\ durable["initrd"] = "full" => copies.durable # 0
    /\ loaded                     => copies.image # 0
    /\ step = "writer"            => copies.running # 0

Inherited == Staged /\ Numbered

(* No attempt has been made and there is no copy.                          *)
LEMMA InheritedInit == Init => Inherited
<1> SUFFICES ASSUME Init PROVE Numbered
  BY StagedInit DEF Inherited
<1> QED
  BY BoundsAssumption DEF Init, S!Init, Numbered, Copy

(* A step that is cut short loses or leaves the initramfs it builds.       *)
LEMMA CutShortFiles ==
  ASSUME Files, NEW d \in S!CutShort
  PROVE  /\ d \in [S!Artifacts -> S!Content]
         /\ d["menu"] = disk["menu"] /\ d["initrd"] = disk["initrd"]
         /\ d["build"] = "full" => disk["build"] = "full" \/ step = "build"
BY DEF Files, S!CutShort

(* The installer numbers every copy it makes.                              *)
LEMMA InstallInherited == ASSUME Inherited, Install PROVE Inherited'
<1>1. Staged' /\ Installed
  BY InstallStep DEF Install, Inherited
<1>2. PICK image \in {copies.build, copies.image} :
        /\ step # "kexecLoad" \/ ~loaded => image = IF loaded THEN copies.image ELSE copies.build
        /\ copies' =
              [build   |-> Made(disk'["build"] = "full", IF step = "build" THEN attempt ELSE copies.build),
               initrd  |-> Made(disk'["initrd"] = "full", Copied),
               durable |-> IF step = "sync" /\ step' \in {"kexecLoad", "updateGrub"}
                           THEN copies.initrd ELSE copies.durable,
               image   |-> Made(loaded', image),
               running |-> 0]
  BY DEF Install, Copying
<1>3. attempt' = attempt /\ attempt \in Nat /\ attempt # 0 /\ attempt \in 0 .. Attempts
  BY <1>1, BoundsAssumption DEF Install, Inherited, Numbered, Installed
<1>4. /\ {copies.build, copies.initrd, copies.durable, copies.image} \subseteq 0 .. attempt
      /\ Copied \in {copies.build, copies.initrd}
  BY DEF Inherited, Numbered, Copy, Copied
<1>5. copies' \in [Copy -> 0 .. attempt']
  BY <1>2, <1>3, <1>4 DEF Copy, Made
<1>6. disk'["build"] = "full" => copies'.build # 0
  BY <1>1, <1>2, <1>3 DEF Made, Installed, Inherited, Numbered
<1>7. disk'["initrd"] = "full" => copies'.initrd # 0
  BY <1>1, <1>2, <1>3 DEF Made, Copied, Installed, Inherited, Numbered
<1>8. durable'["initrd"] = "full" => copies'.durable # 0
  BY <1>1, <1>2 DEF Installed, Inherited, Numbered
<1>9. loaded' => copies'.image # 0
  <2>1. step = "kexecLoad" => copies.build # 0
    BY DEF Inherited, Staged, BuildKept, Numbered
  <2>2. loaded' => image # 0
    BY <1>1, <1>2, <2>1 DEF Installed, Inherited, Numbered
  <2> QED
    BY <1>2, <2>2 DEF Made
<1>10. step' # "writer"
  BY <1>1 DEF Installed
<1> QED
  BY <1>1, <1>3, <1>5, <1>6, <1>7, <1>8, <1>9, <1>10 DEF Inherited, Numbered

(* A killed installer leaves its copies behind, perhaps an unfinished one. *)
LEMMA KillInherited == ASSUME Inherited, Kill PROVE Inherited'
<1> DEFINE d == disk'
<1>1. /\ d \in S!CutShort /\ step' = "idle" /\ UNCHANGED <<host, durable, loaded, attempt>>
      /\ step \in S!Running
  BY DEF Kill, S!Kill
<1>2. /\ d \in [S!Artifacts -> S!Content]
      /\ d["menu"] = disk["menu"] /\ d["initrd"] = disk["initrd"]
      /\ d["build"] = "full" => disk["build"] = "full" \/ step = "build"
  BY <1>1, CutShortFiles DEF Inherited, Staged
<1>3. Staged'
  BY <1>1, <1>2 DEF Inherited, Staged, Files, Whole, BuildKept, GrubPrepare
<1>4. copies' = [copies EXCEPT !.build =
                    Made(disk'["build"] = "full", IF step = "build" THEN attempt ELSE @)]
  BY DEF Kill
<1>5. Numbered'
  BY <1>1, <1>2, <1>4, BoundsAssumption DEF Inherited, Numbered, Made, Copy
<1> QED
  BY <1>3, <1>5 DEF Inherited

(* A reboot into a loaded kernel runs the copy that was loaded.            *)
LEMMA ShutdownInherited == ASSUME Inherited, Shutdown PROVE Inherited'
<1> DEFINE d == disk'
<1>1. /\ d \in S!CutShort /\ durable' = [f \in S!BootFiles |-> disk[f]] /\ loaded' = FALSE
      /\ UNCHANGED <<host, attempt>> /\ step' = IF reboot = "kexec" /\ loaded THEN "writer" ELSE "off"
      /\ step \in S!Running \cup S!Quiet
  BY DEF Shutdown, S!Shutdown, S!ForgetSystem, S!LinuxUp
<1>2. /\ d \in [S!Artifacts -> S!Content]
      /\ d["menu"] = disk["menu"] /\ d["initrd"] = disk["initrd"]
      /\ d["build"] = "full" => disk["build"] = "full" \/ step = "build"
  BY <1>1, CutShortFiles DEF Inherited, Staged
<1>3. Staged'
  BY <1>1, <1>2 DEF Inherited, Staged, Files, Whole, BuildKept, GrubPrepare
<1>4. copies' = [copies EXCEPT
                    !.build = Made(disk'["build"] = "full", IF step = "build" THEN attempt ELSE @),
                    !.durable = copies.initrd,
                    !.running = Made(step' = "writer", copies.image),
                    !.image = 0]
  BY DEF Shutdown
<1>5. copies' \in [Copy -> 0 .. attempt']
  <2> DEFINE built   == Made(disk'["build"] = "full", IF step = "build" THEN attempt ELSE copies.build)
             running == Made(step' = "writer", copies.image)
  <2>1. {0, built, running, copies.initrd} \subseteq 0 .. attempt
    BY BoundsAssumption DEF Inherited, Numbered, Made, Copy
  <2>2. copies' = [copies EXCEPT !.build = built, !.durable = copies.initrd,
                                 !.running = running, !.image = 0]
    BY <1>4 DEF Inherited, Numbered, Copy
  <2> HIDE DEF built, running
  <2> QED
    BY <1>1, <2>1, <2>2 DEF Inherited, Numbered, Copy
<1>6. /\ copies'.build = Made(disk'["build"] = "full", IF step = "build" THEN attempt ELSE copies.build)
      /\ copies'.initrd = copies.initrd /\ copies'.durable = copies.initrd
      /\ copies'.running = Made(step' = "writer", copies.image)
  BY <1>4 DEF Inherited, Numbered, Copy
<1>7. Numbered'
  BY <1>1, <1>2, <1>5, <1>6 DEF Inherited, Numbered, Made
<1> QED
  BY <1>3, <1>7 DEF Inherited

(* A power cut leaves the durable copy of the initramfs.                   *)
LEMMA PowerCutInherited == ASSUME Inherited, PowerCut PROVE Inherited'
<1>1. PICK d \in S!CutShort : disk' = S!AfterCut(d)
  BY DEF PowerCut, S!PowerCut
<1>2. /\ loaded' = FALSE /\ UNCHANGED <<host, durable, attempt>> /\ step' = "off"
      /\ step \in S!Running \cup S!Quiet
  BY DEF PowerCut, S!PowerCut, S!ForgetSystem, S!LinuxUp
<1>3. /\ d \in [S!Artifacts -> S!Content]
      /\ d["build"] = "full" => disk["build"] = "full" \/ step = "build"
  BY CutShortFiles DEF Inherited, Staged
<1>4. /\ disk' \in [S!Artifacts -> S!Content]
      /\ disk'["build"] = d["build"] /\ disk'["initrd"] = durable["initrd"]
      /\ disk'["menu"] = durable["menu"]
  BY <1>1, <1>3 DEF S!AfterCut, Inherited, Staged, Files
<1>5. Staged'
  BY <1>2, <1>4 DEF Inherited, Staged, Files, Whole, BuildKept, GrubPrepare
<1>6. copies' = [copies EXCEPT
                    !.build = Made(disk'["build"] = "full", IF step = "build" THEN attempt ELSE @),
                    !.initrd = copies.durable,
                    !.image = 0]
  BY DEF PowerCut
<1>7. copies' \in [Copy -> 0 .. attempt']
  <2> DEFINE built == Made(disk'["build"] = "full", IF step = "build" THEN attempt ELSE copies.build)
  <2>1. {0, built, copies.durable} \subseteq 0 .. attempt
    BY BoundsAssumption DEF Inherited, Numbered, Made, Copy
  <2>2. copies' = [copies EXCEPT !.build = built, !.initrd = copies.durable, !.image = 0]
    BY <1>6 DEF Inherited, Numbered, Copy
  <2> HIDE DEF built
  <2> QED
    BY <1>2, <2>1, <2>2 DEF Inherited, Numbered, Copy
<1>8. /\ copies'.build = Made(disk'["build"] = "full", IF step = "build" THEN attempt ELSE copies.build)
      /\ copies'.initrd = copies.durable /\ copies'.durable = copies.durable
  BY <1>6 DEF Inherited, Numbered, Copy
<1>9. Numbered'
  BY <1>2, <1>3, <1>4, <1>7, <1>8 DEF Inherited, Numbered, Made
<1> QED
  BY <1>5, <1>9 DEF Inherited

(* The kernel makes durable the copy that is in /boot.                     *)
LEMMA WriteBackInherited == ASSUME Inherited, WriteBack PROVE Inherited'
<1>1. CASE S!WriteBack
  <2>1. PICK f \in S!BootFiles : durable' = [durable EXCEPT ![f] = disk[f]]
    BY <1>1 DEF S!WriteBack
  <2>2. UNCHANGED <<host, step, method, disk, loaded, attempt>>
    BY <1>1 DEF S!WriteBack, S!process, WriteBack
  <2>3. copies' = [copies EXCEPT !.durable = copies.initrd] \/ copies' = copies
    BY DEF WriteBack
  <2>4. Staged'
    BY <2>1, <2>2 DEF Inherited, Staged, Files, Whole, BuildKept, GrubPrepare
  <2>5. durable'["initrd"] \in {durable["initrd"], disk["initrd"]}
    BY <2>1 DEF Inherited, Staged, Files
  <2>6. durable'["initrd"] = "full" => copies'.durable # 0
    BY <1>1, <2>3, <2>5 DEF WriteBack, Inherited, Numbered, Copy
  <2>7. Numbered'
    BY <2>2, <2>3, <2>6 DEF Inherited, Numbered, Copy
  <2> QED
    BY <2>4, <2>7 DEF Inherited
<1>2. CASE ~S!WriteBack
  <2>1. /\ UNCHANGED <<host, step, method, disk, durable, loaded, attempt>>
        /\ durable["initrd"] = disk["initrd"]
        /\ copies' = [copies EXCEPT !.durable = copies.initrd]
    BY <1>2 DEF WriteBack, staging
  <2>2. Staged'
    BY <2>1 DEF Inherited, Staged, Files, Whole, BuildKept
  <2>3. Numbered'
    BY <2>1 DEF Inherited, Numbered, Copy
  <2> QED
    BY <2>2, <2>3 DEF Inherited
<1> QED
  BY <1>1, <1>2

(* GRUB boots a writer only with its initramfs.                            *)
LEMMA BootInherited == ASSUME Inherited, BootOld PROVE Inherited'
<1>1. /\ UNCHANGED <<host, method, disk, durable, loaded, attempt>>
      /\ step' \in {"idle", "writer", "stuck"}
      /\ step' = "writer" => disk["initrd"] = "full"
  BY DEF BootOld, S!Boot, S!BootEntry, S!BootWithoutHandler, S!BootLinux, S!process, S!machine,
         Inherited, Staged, Files, Whole
<1>2. Staged'
  BY <1>1 DEF Inherited, Staged, Files, Whole, BuildKept, GrubPrepare
<1>3. copies' = [copies EXCEPT !.running = Made(step' = "writer", copies.initrd)]
  BY DEF BootOld
<1>4. Numbered'
  BY <1>1, <1>3 DEF Inherited, Numbered, Copy, Made
<1> QED
  BY <1>2, <1>4 DEF Inherited

(* Every step of the system numbers the copies it leaves.                  *)
LEMMA InheritedNext == ASSUME Inherited, [Next]_vars PROVE Inherited'
<1>1. CASE Start
  <2>1. /\ UNCHANGED <<host, disk, durable, loaded, copies>> /\ step' = "makeBuildDir"
        /\ attempt' = attempt + 1 /\ attempt < Attempts
    BY <1>1 DEF Start, S!Start, S!machine
  <2>2. Staged'
    BY <2>1 DEF Inherited, Staged, Files, Whole, BuildKept, GrubPrepare
  <2>3. Numbered'
    BY <2>1, BoundsAssumption DEF Inherited, Numbered, Copy
  <2> QED
    BY <2>2, <2>3 DEF Inherited
<1>2. CASE WriterReboots \/ WriterOff \/ WriterDies
  <2>1. /\ UNCHANGED <<host, method, disk, durable, loaded, attempt>>
        /\ step' \in {"off", "idle", "stuck"} /\ copies' = [copies EXCEPT !.running = 0]
    BY <1>2 DEF WriterReboots, WriterOff, WriterDies, LeaveWriter
  <2>2. Staged'
    BY <2>1 DEF Inherited, Staged, Files, Whole, BuildKept, GrubPrepare
  <2>3. Numbered'
    BY <2>1 DEF Inherited, Numbered, Copy
  <2> QED
    BY <2>2, <2>3 DEF Inherited
<1>3. CASE BootNew \/ PowerCycle
  <2>1. /\ UNCHANGED <<host, method, disk, durable, loaded, attempt, copies>>
        /\ step' \in {"off", "chr", "dead"}
    BY <1>3 DEF BootNew, PowerCycle, S!PowerCycle, S!process, S!machine, trail
  <2> QED
    BY <2>1 DEF Inherited, Staged, Files, Whole, BuildKept, GrubPrepare, Numbered
<1>4. CASE RunWriter \/ Tick \/ SetRTC \/ UNCHANGED vars
  <2>1. UNCHANGED <<host, step, method, disk, durable, loaded, attempt, copies>>
    BY <1>4 DEF RunWriter, Tick, SetRTC, vars, staging, trail
  <2> QED
    BY <2>1 DEF Inherited, Staged, Files, Whole, BuildKept, Numbered
<1> QED
  BY <1>1, <1>2, <1>3, <1>4, InstallInherited, KillInherited, ShutdownInherited, PowerCutInherited,
     WriteBackInherited, BootInherited DEF Next
-----------------------------------------------------------------------------
(* The clocks.                                                             *)

\* What the manifest of each attempt says of the clocks: the RTC is off as it
\* was then, or has been set since.
Stamped ==
    /\ now \in Nat
    /\ lag \in -MaxRTCOffset .. MaxRTCOffset
    /\ attempt \in 0 .. Attempts
    /\ stamps \in [0 .. Attempts -> [created : Nat, offset : Int]]
    /\ \A a \in 1 .. attempt :
          /\ stamps[a].created <= now
          /\ stamps[a].offset \in -MaxRTCOffset .. MaxRTCOffset
          /\ lag = 0 \/ stamps[a].offset = lag

(* No attempt has stamped a manifest yet.                                  *)
LEMMA StampedInit == Init => Stamped
BY BoundsAssumption, PartsAssumption, SystemAssumption DEF Init, Stamped

(* NewManifest stamps what the clocks show; nothing changes a stamp.       *)
LEMMA StampedNext == ASSUME Stamped, [Next]_vars PROVE Stamped'
<1>1. CASE Start
  <2> DEFINE stamp == [created |-> now, offset |-> C!MeasuredOffset]
  <2>1. C!MeasuredOffset = lag
    BY PartsAssumption DEF Stamped, C!MeasuredOffset, C!InOffsetRange
  <2>2. stamp \in [created : Nat, offset : Int] /\ stamp.created = now /\ stamp.offset = lag
    BY <2>1, PartsAssumption DEF Stamped
  <2>3. /\ attempt' = attempt + 1 /\ attempt < Attempts /\ UNCHANGED <<now, lag>>
        /\ stamps' = [stamps EXCEPT ![attempt + 1] = stamp]
    BY <1>1 DEF Start, clock
  <2> HIDE DEF stamp
  <2>4. attempt' \in 0 .. Attempts /\ stamps' \in [0 .. Attempts -> [created : Nat, offset : Int]]
    BY <2>2, <2>3, BoundsAssumption DEF Stamped
  <2>5. ASSUME NEW a \in 1 .. attempt'
        PROVE  stamps'[a] = stamp \/ (a \in 1 .. attempt /\ stamps'[a] = stamps[a])
    BY <2>3, BoundsAssumption DEF Stamped
  <2> QED
    BY <2>2, <2>3, <2>4, <2>5 DEF Stamped
<1>2. CASE Tick
  BY <1>2, BoundsAssumption DEF Tick, Stamped, trail
<1>3. CASE SetRTC
  BY <1>3, PartsAssumption DEF SetRTC, Stamped, trail
<1>4. CASE UNCHANGED <<clock, attempt, stamps>>
  BY <1>4 DEF Stamped, clock
<1> QED
  BY <1>1, <1>2, <1>3, <1>4
     DEF Next, Install, Kill, Shutdown, PowerCut, WriteBack, BootOld, BootNew, PowerCycle, RunWriter,
         WriterReboots, WriterOff, WriterDies, LeaveWriter, vars, trail

(* A writer whose manifest validateTimestamp accepts was staged within      *)
(* MaxAge and MaxRTCOffset, whichever of the two clocks it went by.         *)
LEMMA AdmittedLately ==
  ASSUME Stamped, Admitted, copies.running \in 1 .. attempt
  PROVE  now <= stamps[copies.running].created + (MaxAge + MaxRTCOffset)
<1> DEFINE made == stamps[copies.running].created
           off  == stamps[copies.running].offset
<1>1. /\ made \in Nat /\ off \in -MaxRTCOffset .. MaxRTCOffset
      /\ lag = 0 \/ off = lag
  BY BoundsAssumption DEF Stamped
<1>2. (now - lag) - made <= MaxAge \/ ((now - lag) + off) - made <= MaxAge
  BY DEF Admitted, C!ValidTimestamp, C!WithinWindow
<1>3. now \in Nat /\ lag \in -MaxRTCOffset .. MaxRTCOffset /\ {MaxAge, MaxRTCOffset} \subseteq Nat
  BY PartsAssumption DEF Stamped
<1> HIDE DEF made, off
<1>4. now <= made + (MaxAge + MaxRTCOffset)
  BY <1>1, <1>2, <1>3
<1> QED
  BY <1>4 DEF made

-----------------------------------------------------------------------------
(* The disks.                                                              *)

USE DEF W!Blocks

Early   == {"manifest", "hash", "wait", "unmounted", "swaps", "open"}
Opened  == {"copy", "sync", "close", "reopen", "flush", "verify"}
Written == {"close", "reopen", "flush", "verify", "reboot", "rebooted"}

\* No two disks have one name, and only Target has its identity.
Named ==
    /\ expected \in Looks /\ look \in [Disks -> Looks]
    /\ W!UniqueIds
    /\ place \in [Disks -> Names \cup {W!None}]
    /\ \A d, e \in Disks : place[d] = place[e] => d = e \/ place[d] = W!None

\* Nothing but Target has been written, and every chunk that is dirty or still
\* to be copied is as it was.
Unwritten ==
    /\ media \in [Disks -> [W!Blocks -> W!Contents]]
    /\ \A d \in Disks \ {Target}, b \in W!Blocks : media[d][b] = "old"
    /\ \A b \in dirty : media[Target][b] = "old" /\ cache[b] \in {"image", "bad"}
    /\ wstep = "copy" =>
          \A b \in W!Blocks : b >= chunk => media[Target][b] = "old" /\ b \notin dirty

\* What the writer holds, by where it is.
Holding ==
    /\ wstep \in W!Working \cup {"halted", "rebooted"}
    /\ target \in {Target, W!None}
    /\ chunk \in 1 .. Chunks + 1
    /\ cache \in [W!Blocks -> {"image", "bad", W!None}]
    /\ source \in [W!Blocks -> {"image", "bad"}]
    /\ dirty \subseteq W!Blocks /\ (dirty # {} => target = Target)
    /\ wstep \in Early => target = W!None /\ dirty = {} /\ chunk = 1
    /\ wstep \in {"unmounted", "swaps", "open"} \cup Opened => place[Target] = path /\ path # W!None
    /\ wstep \in Opened => target = Target
    /\ wstep = "copy" => chunk \in W!Blocks
    /\ wstep \in Written => dirty = {}
    /\ wstep \in {"flush", "verify"} => readback = Target
    /\ wstep = "verify" => cache = W!NotCached

\* What is on the authorized disk, by what the machine does.
Phased ==
    /\ step # "writer" => wstep = "manifest"
    /\ step \in S!Running \cup S!Quiet => Untouched
    /\ step = "writer" /\ wstep \in Early => Untouched
    /\ wstep \in {"reboot", "rebooted"} => Imaged

Writing == Named /\ Unwritten /\ Holding /\ Phased

(* No disk has been written or even discovered.                            *)
LEMMA WritingInit == Init => Writing
<1> SUFFICES ASSUME Init PROVE Writing
  OBVIOUS
<1> USE PartsAssumption DEF Init, W!Init
<1>1. Named
  BY DEF Named
<1>2. Unwritten
  BY DEF Unwritten, W!Contents
<1>3. Holding
  BY DEF Holding, W!Working, Early, Opened, Written, W!NotCached
<1>4. Phased
  BY DEF Phased, S!Init, Untouched, Early
<1> QED
  BY <1>1, <1>2, <1>3, <1>4 DEF Writing

(* The disk that waitForFingerprint finds is the authorized one.           *)
LEMMA AuthorizedIsTarget ==
  ASSUME Named, NEW d \in W!Authorized
  PROVE  d = Target /\ place[d] # W!None
<1>1. d \in Disks /\ place[d] # W!None /\ W!FingerprintsMatch(d)
  BY DEF W!Authorized, W!Candidates
<1>2. expected.id # W!None
  BY SystemAssumption DEF Named
<1>3. look[d].id = expected.id
  BY <1>1, <1>2 DEF W!FingerprintsMatch, W!Stable
<1> QED
  BY <1>1, <1>2, <1>3 DEF Named, W!UniqueIds

(* A path leads to the authorized disk only, while it is there.            *)
LEMMA PathIsTarget ==
  ASSUME Named, place[Target] = path, path # W!None
  PROVE  W!At(path) = {Target}
BY PartsAssumption DEF Named, W!At

(* What a step of the writer does to the disks it knows.                   *)
LEMMA WriterNext ==
  ASSUME Writing, step = "writer", UNCHANGED step, W!Next
  PROVE  Writing'
<1> USE DEF Early, Opened, Written, W!Halt, W!MayFail, W!world, W!others, W!finding, W!copying
<1>s. step \notin S!Running \cup S!Quiet /\ wstep \in W!Working \cup {"halted", "rebooted"}
  BY DEF Writing, Holding
<1>1. CASE W!ReadManifest
  <2>1. Named'
    BY <1>1 DEF W!ReadManifest, Writing, Named, W!UniqueIds
  <2>2. Unwritten'
    BY <1>1 DEF W!ReadManifest, Writing, Unwritten, Holding
  <2>3. Holding'
    BY <1>1 DEF W!ReadManifest, Writing, Holding, W!Working
  <2>4. Phased'
    BY <1>1, <1>s DEF W!ReadManifest, Writing, Phased, Untouched, Imaged
  <2> QED
    BY <2>1, <2>2, <2>3, <2>4 DEF Writing
<1>2. CASE W!HashImage
  <2>1. Named'
    BY <1>2 DEF W!HashImage, Writing, Named, W!UniqueIds
  <2>2. Unwritten'
    BY <1>2 DEF W!HashImage, Writing, Unwritten, Holding
  <2>3. Holding'
    BY <1>2 DEF W!HashImage, Writing, Holding, W!Working
  <2>4. Phased'
    BY <1>2, <1>s DEF W!HashImage, Writing, Phased, Untouched, Imaged
  <2> QED
    BY <2>1, <2>2, <2>3, <2>4 DEF Writing
<1>3. CASE W!EnsureUnmounted \/ W!EnsureNoSwap
  <2>1. Named'
    BY <1>3 DEF W!EnsureUnmounted, W!EnsureNoSwap, Writing, Named, W!UniqueIds
  <2>2. Unwritten'
    BY <1>3 DEF W!EnsureUnmounted, W!EnsureNoSwap, Writing, Unwritten, Holding
  <2>3. Holding'
    BY <1>3 DEF W!EnsureUnmounted, W!EnsureNoSwap, Writing, Holding, W!Working
  <2>4. Phased'
    BY <1>3, <1>s DEF W!EnsureUnmounted, W!EnsureNoSwap, Writing, Phased, Untouched, Imaged
  <2> QED
    BY <2>1, <2>2, <2>3, <2>4 DEF Writing
<1>4. CASE W!SyncTarget
  <2>1. Named'
    BY <1>4 DEF W!SyncTarget, Writing, Named, W!UniqueIds
  <2>2. Unwritten'
    BY <1>4 DEF W!SyncTarget, Writing, Unwritten, Holding
  <2>3. Holding'
    BY <1>4 DEF W!SyncTarget, Writing, Holding, W!Working
  <2>4. Phased'
    BY <1>4, <1>s DEF W!SyncTarget, Writing, Phased, Untouched, Imaged
  <2> QED
    BY <2>1, <2>2, <2>3, <2>4 DEF Writing
<1>5. CASE W!Reboot
  <2>1. Named'
    BY <1>5 DEF W!Reboot, Writing, Named, W!UniqueIds
  <2>2. Unwritten'
    BY <1>5 DEF W!Reboot, Writing, Unwritten, Holding
  <2>3. Holding'
    BY <1>5 DEF W!Reboot, Writing, Holding, W!Working
  <2>4. Phased'
    BY <1>5, <1>s DEF W!Reboot, Writing, Phased, Untouched, Imaged
  <2> QED
    BY <2>1, <2>2, <2>3, <2>4 DEF Writing
<1>6. CASE W!Deadline
  <2>1. Named'
    BY <1>6 DEF W!Deadline, Writing, Named, W!UniqueIds
  <2>2. Unwritten'
    BY <1>6 DEF W!Deadline, Writing, Unwritten, Holding
  <2>3. Holding'
    BY <1>6 DEF W!Deadline, Writing, Holding, W!Working
  <2>4. Phased'
    BY <1>6, <1>s DEF W!Deadline, Writing, Phased, Untouched, Imaged
  <2> QED
    BY <2>1, <2>2, <2>3, <2>4 DEF Writing
<1>7. CASE W!CloseTarget
  <2>1. Named'
    BY <1>7 DEF W!CloseTarget, Writing, Named, W!UniqueIds
  <2>2. Unwritten'
    BY <1>7 DEF W!CloseTarget, Writing, Unwritten, Holding
  <2>3. Holding'
    BY <1>7 DEF W!CloseTarget, Writing, Holding, W!Working, W!NotCached
  <2>4. Phased'
    BY <1>7, <1>s DEF W!CloseTarget, Writing, Phased, Untouched, Imaged
  <2> QED
    BY <2>1, <2>2, <2>3, <2>4 DEF Writing
<1>8. CASE W!WaitForFingerprint
  <2>0. step' = "writer" /\ wstep = "wait" /\ wstep' \in {"halted", "unmounted"}
        /\ (wstep' = "unmounted" => place[Target] = path' /\ path' # W!None)
        /\ UNCHANGED <<expected, look, place, media, W!copying, readback, source>>
    BY <1>8, AuthorizedIsTarget DEF W!WaitForFingerprint, Writing
  <2>1. Named'
    BY <2>0 DEF Writing, Named, W!UniqueIds
  <2>2. Unwritten'
    BY <2>0 DEF Writing, Unwritten, Holding
  <2>3. Holding'
    BY <2>0 DEF Writing, Holding, W!Working
  <2>4. Phased'
    BY <2>0, <1>s DEF Writing, Phased, Untouched
  <2> QED
    BY <2>1, <2>2, <2>3, <2>4 DEF Writing
<1>9. CASE W!OpenTarget
  <2>0. wstep = "open" /\ W!At(path) = {Target}
    BY <1>9, PathIsTarget DEF W!OpenTarget, Writing, Holding
  <2>1. Named'
    BY <1>9 DEF W!OpenTarget, Writing, Named, W!UniqueIds
  <2>2. Unwritten'
    BY <1>9, <2>0 DEF W!OpenTarget, Writing, Unwritten, Holding, Phased, Untouched
  <2>3. Holding'
    BY <1>9, <2>0, PartsAssumption DEF W!OpenTarget, Writing, Holding, W!Working
  <2>4. Phased'
    BY <1>9, <1>s DEF W!OpenTarget, Writing, Phased, Untouched
  <2> QED
    BY <2>1, <2>2, <2>3, <2>4 DEF Writing
<1>10. CASE W!CopyChunk
  <2>0. wstep = "copy" /\ chunk \in W!Blocks /\ target = Target /\ source[chunk] \in {"image", "bad"}
        /\ wstep' \in {"copy", "sync", "halted"} /\ UNCHANGED <<expected, look, place, media, target, path, source>>
        /\ (wstep' = "copy" => chunk # Chunks)
    BY <1>10 DEF W!CopyChunk, Writing, Holding
  <2>1. Named'
    BY <2>0 DEF Writing, Named, W!UniqueIds
  <2>c. \/ UNCHANGED <<chunk, cache, dirty>> /\ wstep' = "halted"
        \/ /\ \E c \in {"image", "bad"} : cache' = [cache EXCEPT ![chunk] = c]
           /\ dirty' = dirty \cup {chunk}
           /\ chunk' = chunk + 1 \/ (chunk' = chunk /\ wstep' = "halted")
    BY <1>10, <2>0 DEF W!CopyChunk
  <2>2. Unwritten'
    <3>1. \A b \in W!Blocks : b >= chunk => media[Target][b] = "old" /\ b \notin dirty
      BY <2>0 DEF Writing, Unwritten
    <3>2. \A b \in dirty' : media'[Target][b] = "old" /\ cache'[b] \in {"image", "bad"}
      <4>1. media[Target][chunk] = "old"
        BY <2>0, <3>1, PartsAssumption
      <4>2. CASE UNCHANGED <<cache, dirty>>
        BY <2>0, <4>2 DEF Writing, Unwritten
      <4>3. CASE dirty' = dirty \cup {chunk} /\ \E c \in {"image", "bad"} : cache' = [cache EXCEPT ![chunk] = c]
        BY <2>0, <4>1, <4>3 DEF Writing, Unwritten, Holding
      <4> QED
        BY <2>c, <4>2, <4>3
    <3>3. ASSUME wstep' = "copy", NEW b \in W!Blocks, b >= chunk'
          PROVE  media'[Target][b] = "old" /\ b \notin dirty'
      <4>1. chunk' = chunk + 1 /\ dirty' = dirty \cup {chunk}
        BY <2>c, <3>3
      <4>2. b >= chunk /\ b # chunk
        BY <2>0, <3>3, <4>1, PartsAssumption
      <4> QED
        BY <2>0, <3>1, <4>1, <4>2
    <3> QED
      BY <2>0, <3>2, <3>3 DEF Writing, Unwritten
  <2>3. Holding'
    <3>1. cache' \in [W!Blocks -> {"image", "bad", W!None}] /\ dirty' \subseteq W!Blocks
      BY <2>0, <2>c DEF Writing, Holding
    <3>2. chunk' \in 1 .. Chunks + 1 /\ (wstep' = "copy" => chunk' \in W!Blocks)
      BY <2>0, <2>c, PartsAssumption
    <3> QED
      BY <2>0, <3>1, <3>2 DEF Writing, Holding, W!Working
  <2>4. Phased'
    BY <2>0, <1>s DEF Writing, Phased
  <2> QED
    BY <2>1, <2>2, <2>3, <2>4 DEF Writing
<1>11. CASE W!Reopen
  <2>0. wstep = "reopen" /\ W!At(path) = {Target}
    BY <1>11, PathIsTarget DEF W!Reopen, Writing, Holding
  <2>1. Named'
    BY <1>11 DEF W!Reopen, Writing, Named, W!UniqueIds
  <2>2. Unwritten'
    BY <1>11 DEF W!Reopen, Writing, Unwritten, Holding
  <2>3. Holding'
    BY <1>11, <2>0 DEF W!Reopen, Writing, Holding, W!Working
  <2>4. Phased'
    BY <1>11, <1>s DEF W!Reopen, Writing, Phased, Untouched
  <2> QED
    BY <2>1, <2>2, <2>3, <2>4 DEF Writing
<1>12. CASE W!Flush
  <2>0. wstep = "flush" /\ readback = target /\ wstep' \in {"verify", "halted"} /\ dirty = {}
        /\ cache' \in {cache, W!NotCached} /\ (wstep' = "verify" => cache' = W!NotCached)
        /\ UNCHANGED <<expected, look, place, media, path, target, chunk, dirty, readback, source>>
    BY <1>12, PartsAssumption DEF W!Flush, Writing, Holding
  <2>1. Named'
    BY <2>0 DEF Writing, Named, W!UniqueIds
  <2>2. Unwritten'
    BY <2>0 DEF Writing, Unwritten
  <2>3. Holding'
    BY <2>0 DEF Writing, Holding, W!Working, W!NotCached
  <2>4. Phased'
    BY <2>0, <1>s DEF Writing, Phased
  <2> QED
    BY <2>1, <2>2, <2>3, <2>4 DEF Writing
<1>13. CASE W!Verify
  <2>0. wstep = "verify" /\ dirty = {} /\ UNCHANGED <<expected, look, place, media, path, W!copying, readback, source>>
        /\ wstep' \in {"reboot", "halted"}
    BY <1>13 DEF W!Verify, Writing, Holding
  <2>1. Named'
    BY <2>0 DEF Writing, Named, W!UniqueIds
  <2>2. Unwritten'
    BY <2>0 DEF Writing, Unwritten
  <2>3. Holding'
    BY <2>0 DEF Writing, Holding, W!Working
  <2>5. wstep' = "reboot" => Imaged
    <3>1. \A b \in W!Blocks : cache[b] = W!None
      BY <2>0 DEF Writing, Holding, W!NotCached
    <3> QED
      BY <1>13, <2>0, <3>1 DEF W!Verify, W!ReadBlock, Writing, Holding, Imaged
  <2>4. Phased'
    BY <2>0, <1>s, <2>5 DEF Writing, Phased, Imaged
  <2> QED
    BY <2>1, <2>2, <2>3, <2>4 DEF Writing
<1>14. CASE W!WriteBack
  <2>0. PICK b \in dirty, c \in W!Contents :
           dirty' = dirty \ {b} /\ media' = [media EXCEPT ![Target][b] = c]
    <3>1. PICK b \in dirty :
             /\ dirty' = dirty \ {b}
             /\ \E c \in {cache[b], "bad", media[target][b]} : media' = [media EXCEPT ![target][b] = c]
      BY <1>14 DEF W!WriteBack
    <3>2. target = Target /\ b \in W!Blocks /\ cache[b] \in {"image", "bad"} /\ media[Target][b] = "old"
      BY DEF Writing, Unwritten, Holding
    <3> QED
      BY <3>1, <3>2 DEF W!Contents
  <2>6. /\ UNCHANGED <<expected, look, place, path, target, chunk, cache, readback, source, wstep>>
        /\ wstep \notin Early \cup Written /\ b \in W!Blocks
    BY <1>14, <2>0 DEF W!WriteBack, Writing, Holding
  <2>1. Named'
    BY <2>6 DEF Writing, Named, W!UniqueIds
  <2>2. Unwritten'
    BY <2>0, <2>6, PartsAssumption DEF Writing, Unwritten, Holding
  <2>3. Holding'
    BY <2>0, <2>6 DEF Writing, Holding, W!Working
  <2>4. Phased'
    BY <2>6, <1>s DEF Writing, Phased
  <2> QED
    BY <2>1, <2>2, <2>3, <2>4 DEF Writing
<1>15. CASE W!Appear
  <2>0. PICK d \in Disks, n \in Names :
           place[d] = W!None /\ W!At(n) = {} /\ place' = [place EXCEPT ![d] = n]
    BY <1>15 DEF W!Appear
  <2>5. UNCHANGED <<expected, look, media, wstep, path, W!copying, readback, source>>
    BY <1>15 DEF W!Appear
  <2>1. Named'
    BY <2>0, <2>5 DEF Writing, Named, W!UniqueIds, W!At
  <2>2. Unwritten'
    BY <2>5 DEF Writing, Unwritten
  <2>6. place[Target] = path /\ path # W!None => place'[Target] = path
    BY <2>0, PartsAssumption DEF Writing, Named
  <2>3. Holding'
    BY <2>5, <2>6 DEF Writing, Holding
  <2>4. Phased'
    BY <2>5 DEF Writing, Phased, Untouched, Imaged
  <2> QED
    BY <2>1, <2>2, <2>3, <2>4 DEF Writing
<1>16. CASE W!Corrupt \/ W!ChangeUse
  <2>1. Named'
    BY <1>16 DEF W!Corrupt, W!ChangeUse, Writing, Named, W!UniqueIds
  <2>2. Unwritten'
    BY <1>16 DEF W!Corrupt, W!ChangeUse, Writing, Unwritten
  <2>3. Holding'
    BY <1>16 DEF W!Corrupt, W!ChangeUse, Writing, Holding
  <2>4. Phased'
    BY <1>16 DEF W!Corrupt, W!ChangeUse, Writing, Phased, Untouched, Imaged
  <2> QED
    BY <2>1, <2>2, <2>3, <2>4 DEF Writing
<1> QED
  BY <1>1, <1>2, <1>3, <1>4, <1>5, <1>6, <1>7, <1>8, <1>9, <1>10, <1>11, <1>12, <1>13, <1>14, <1>15,
     <1>16, SystemAssumption DEF W!Next, W!RunWriter, W!Unplug
(* Writing is kept by every step: what is not the writer leaves the disks   *)
(* alone, and Linux is booted only from the disk as it was.                *)
LEMMA WritingNext == ASSUME Staged, Writing, [Next]_vars PROVE Writing'
<1>1. CASE RunWriter
  BY <1>1, WriterNext DEF RunWriter, staging
<1>2. CASE WriterReboots \/ WriterOff \/ WriterDies
  <2>1. PICK next \in {"off", "idle", "stuck"} : LeaveWriter(next) /\ (next = "idle" => Untouched)
    BY <1>2 DEF WriterReboots, WriterOff, WriterDies
  <2>2. Named'
    BY <2>1 DEF LeaveWriter, Fresh, Writing, Named, W!UniqueIds
  <2>3. Unwritten'
    BY <2>1 DEF LeaveWriter, Fresh, Writing, Unwritten
  <2>4. Holding'
    BY <2>1, PartsAssumption
       DEF LeaveWriter, Fresh, Writing, Holding, W!Working, Early, Opened, Written, W!NotCached
  <2>5. Phased'
    BY <2>1 DEF LeaveWriter, Fresh, Writing, Phased, Untouched
  <2> QED
    BY <2>2, <2>3, <2>4, <2>5 DEF Writing
<1>3. CASE UNCHANGED writer /\ ~RunWriter /\ ~(WriterReboots \/ WriterOff \/ WriterDies)
  <2>1. UNCHANGED <<expected, look, place, media, wstep, path, target, chunk, cache, dirty, readback, source>>
    BY <1>3 DEF writer
  <2>2. Named' /\ Unwritten' /\ Holding'
    BY <2>1 DEF Writing, Named, W!UniqueIds, Unwritten, Holding
  <2>3. \/ step # "writer" /\ (Untouched \/ step' \in {"off", "chr", "dead"})
        \/ step' = step
    <3>1. CASE Start
      BY <3>1 DEF Start, S!Start, Writing, Phased
    <3>2. CASE Install
      BY <3>2, InstallStep DEF Install, Installed, Writing, Phased
    <3>3. CASE Kill \/ Shutdown \/ PowerCut
      BY <3>3 DEF Kill, S!Kill, Shutdown, S!Shutdown, PowerCut, S!PowerCut, S!LinuxUp, Writing, Phased
    <3>4. CASE WriteBack \/ Tick \/ SetRTC \/ UNCHANGED vars
      BY <3>4 DEF WriteBack, S!WriteBack, Tick, SetRTC, vars, staging
    <3>5. CASE BootOld
      BY <3>5 DEF BootOld, S!Boot, S!BootEntry, S!BootWithoutHandler, S!BootLinux
    <3>6. CASE BootNew \/ PowerCycle
      BY <3>6 DEF BootNew, PowerCycle, S!PowerCycle
    <3> QED
      BY <1>3, <3>1, <3>2, <3>3, <3>4, <3>5, <3>6 DEF Next
  <2>4. Phased'
    BY <2>1, <2>3 DEF Writing, Phased, Untouched, Imaged, Early
  <2> QED
    BY <2>2, <2>4 DEF Writing
<1> QED
  BY <1>1, <1>2, <1>3
     DEF Next, Start, Install, Kill, Shutdown, PowerCut, WriteBack, BootOld, BootNew, PowerCycle, Tick,
         SetRTC, vars

-----------------------------------------------------------------------------
(* The refinement.                                                         *)

Inv == Inherited /\ Stamped /\ Writing

(* The four parts of the invariant hold in every state.                    *)
LEMMA Invariant == Spec => []Inv
<1>1. Init => Inv
  BY InheritedInit, StampedInit, WritingInit DEF Inv
<1>2. Inv /\ [Next]_vars => Inv'
  BY InheritedNext, StampedNext, WritingNext DEF Inv, Inherited
<1> QED
  BY <1>1, <1>2, PTL DEF Spec

(* What the owner sees of the machine ...                                  *)
LEMMA Seen ==
  /\ step \in S!Running \cup S!Quiet => RunningNow = "linux"
  /\ step \in {"off", "stuck"} => RunningNow = "off"
  /\ step \in {"chr", "dead"}  => RunningNow = step
  /\ step = "writer" => RunningNow = IF wstep = "halted" THEN "halted"
                                     ELSE IF wstep = "rebooted" THEN "finished"
                                     ELSE IF wstep = "manifest" THEN "off" ELSE "writer"
BY DEF RunningNow

(* ... and what it is after the step.                                      *)
LEMMA SeenNext ==
  /\ step' \in S!Running \cup S!Quiet => RunningNow' = "linux"
  /\ step' \in {"off", "stuck"} => RunningNow' = "off"
  /\ step' \in {"chr", "dead"}  => RunningNow' = step'
  /\ step' = "writer" => RunningNow' = IF wstep' = "halted" THEN "halted"
                                       ELSE IF wstep' = "rebooted" THEN "finished"
                                       ELSE IF wstep' = "manifest" THEN "off" ELSE "writer"
BY DEF RunningNow

(* What the owner sees of the authorized disk.                             *)
LEMMA ContentOfTarget ==
  /\ Content[Target] = IF Untouched THEN "old" ELSE IF Imaged THEN "new" ELSE "torn"
  /\ UNCHANGED media => UNCHANGED Content
BY PartsAssumption DEF Content, Untouched, Imaged

Authorizations == {stamps[a].created : a \in 1 .. attempt}

(* Only an attempt authorizes anything.                                    *)
LEMMA AuthorizationsKept == UNCHANGED <<attempt, stamps>> => UNCHANGED Authorizations
BY DEF Authorizations

(* A step of the writer is one of its promises' or goes unseen.            *)
LEMMA WriterSimulates == ASSUME Inv, Inv', RunWriter PROVE [Abstract!Next]_(Abstract!vars)
<1> USE DEF W!Halt, W!MayFail
<1>1. /\ step = "writer" /\ step' = "writer" /\ UNCHANGED <<now, Authorizations>>
  BY AuthorizationsKept DEF RunWriter, staging, clock, trail
<1>2. CASE W!ReadManifest
  <2>1. /\ wstep = "manifest" /\ wstep' \in {"hash", "halted"} /\ UNCHANGED Content
        /\ (wstep' = "hash" => Admitted)
    BY <1>2, ContentOfTarget DEF W!ReadManifest, RunWriter
  <2>2. CASE wstep' = "hash"
    <3>1. copies.running \in 1 .. attempt
      BY <1>1, BoundsAssumption DEF Inv, Inherited, Numbered, Copy
    <3>2. now <= stamps[copies.running].created + (MaxAge + MaxRTCOffset)
      BY <2>1, <2>2, <3>1, AdmittedLately DEF Inv
    <3>3. \E t \in Authorizations : now <= t + (MaxAge + MaxRTCOffset)
      BY <3>1, <3>2 DEF Authorizations
    <3>4. RunningNow = "off" /\ RunningNow' = "writer"
      BY <1>1, <2>1, <2>2, Seen, SeenNext
    <3>5. Abstract!Admit
      BY <1>1, <2>1, <3>3, <3>4 DEF Abstract!Admit, Authorizations
    <3> QED
      BY <3>5 DEF Abstract!Next
  <2>3. CASE wstep' = "halted"
    <3>1. RunningNow = "off" /\ RunningNow' = "halted"
      BY <1>1, <2>1, <2>3, Seen, SeenNext
    <3>2. Abstract!Halt
      BY <1>1, <2>1, <3>1 DEF Abstract!Halt, Authorizations
    <3> QED
      BY <3>2 DEF Abstract!Next
  <2> QED
    BY <2>1, <2>2, <2>3
<1>3. CASE W!Reboot
  <2>1. /\ wstep = "reboot" /\ wstep' \in {"rebooted", "halted"} /\ UNCHANGED Content
    BY <1>3, ContentOfTarget DEF W!Reboot
  <2>2. RunningNow = "writer" /\ RunningNow' \in {"finished", "halted"}
    BY <1>1, <2>1, Seen, SeenNext
  <2>3. Content[Target] = "new"
    <3>1. Imaged
      BY <2>1 DEF Inv, Writing, Phased
    <3>2. ~Untouched
      BY <3>1, PartsAssumption DEF Imaged, Untouched
    <3> QED
      BY <3>1, <3>2, ContentOfTarget
  <2>4. Abstract!Finish \/ Abstract!Halt
    BY <1>1, <2>1, <2>2, <2>3 DEF Abstract!Finish, Abstract!Halt, Authorizations
  <2> QED
    BY <2>4 DEF Abstract!Next
<1>4. CASE W!WriteBack
  <2>1. PICK b \in dirty : \E c \in W!Contents : media' = [media EXCEPT ![Target][b] = c]
    <3>1. PICK b \in dirty :
             \E c \in {cache[b], "bad", media[target][b]} : media' = [media EXCEPT ![target][b] = c]
      BY <1>4 DEF W!WriteBack
    <3>2. target = Target /\ cache[b] \in {"image", "bad"} /\ media[Target][b] = "old"
      BY DEF Inv, Writing, Unwritten, Holding
    <3> QED
      BY <3>1, <3>2 DEF W!Contents
  <2>2. b \in W!Blocks /\ media[Target][b] = "old"
    BY DEF Inv, Writing, Unwritten, Holding
  <2>3. wstep \in {"copy", "sync", "halted"} /\ wstep' = wstep
    BY <1>4, <2>1 DEF W!WriteBack, Inv, Writing, Holding, W!Working, Early, Opened, Written
  <2>4. RunningNow \in {"writer", "halted"} /\ RunningNow' = RunningNow
    BY <1>1, <2>3, Seen, SeenNext
  <2>5. Content[Target] # "new"
    BY <2>2, ContentOfTarget DEF Imaged
  <2>6. UNCHANGED Content \/ \E c \in {"torn", "new"} : Content' = [Content EXCEPT ![Target] = c]
    <3>1. ASSUME NEW d \in Disks \ {Target} PROVE media'[d] = media[d]
      BY <2>1 DEF Inv, Writing, Unwritten
    <3>2. ASSUME \A c \in W!Blocks : media'[Target][c] = "old"
          PROVE  media' = media
      BY <2>1, <2>2, <3>2, PartsAssumption DEF Inv, Writing, Unwritten
    <3>3. CASE \A c \in W!Blocks : media'[Target][c] = "old"
      BY <3>2, <3>3, ContentOfTarget
    <3>4. CASE ~(\A c \in W!Blocks : media'[Target][c] = "old")
      <4> DEFINE c == IF \A k \in W!Blocks : media'[Target][k] = "image" THEN "new" ELSE "torn"
      <4>1. \A d \in Disks : Content'[d] = [Content EXCEPT ![Target] = c][d]
        <5>1. Content'[Target] = c
          BY <3>4, PartsAssumption DEF Content
        <5>2. ASSUME NEW d \in Disks \ {Target} PROVE Content'[d] = Content[d]
          BY <3>1, <5>2 DEF Content
        <5> QED
          BY <5>1, <5>2, PartsAssumption DEF Content
      <4>2. Content' = [Content EXCEPT ![Target] = c]
        BY <4>1 DEF Content
      <4> QED
        BY <4>2
    <3> QED
      BY <3>3, <3>4
  <2>7. Abstract!Write \/ UNCHANGED Content
    BY <1>1, <2>4, <2>5, <2>6 DEF Abstract!Write, Authorizations
  <2> QED
    BY <1>1, <2>4, <2>7 DEF Abstract!Next, Abstract!vars, Authorizations
<1>5. CASE ~W!ReadManifest /\ ~W!Reboot /\ ~W!WriteBack
  <2>1. UNCHANGED media /\ (wstep' = wstep \/ (wstep \notin {"manifest", "halted", "rebooted"}
                                               /\ wstep' \notin {"manifest", "rebooted"}))
    BY <1>5, SystemAssumption
       DEF RunWriter, W!Next, W!RunWriter, W!HashImage, W!WaitForFingerprint, W!EnsureUnmounted,
           W!EnsureNoSwap, W!ChangeUse, W!OpenTarget, W!CopyChunk, W!SyncTarget, W!CloseTarget, W!Reopen, W!Flush, W!Verify, W!Deadline,
           W!Appear, W!Unplug, W!Corrupt
  <2>2. UNCHANGED Content
    BY <2>1, ContentOfTarget
  <2>3. RunningNow' = RunningNow \/ (RunningNow = "writer" /\ RunningNow' = "halted")
    BY <1>1, <2>1, Seen, SeenNext
  <2>4. Abstract!Halt \/ RunningNow' = RunningNow
    BY <1>1, <2>2, <2>3 DEF Abstract!Halt, Authorizations
  <2> QED
    BY <1>1, <2>2, <2>4 DEF Abstract!Next, Abstract!vars, Authorizations
<1> QED
  BY <1>2, <1>3, <1>4, <1>5

(* Every step is one that SafeInstall allows, or goes unseen.              *)
LEMMA StepSimulates == ASSUME Inv, Inv', [Next]_vars PROVE [Abstract!Next]_(Abstract!vars)
<1>1. CASE RunWriter
  BY <1>1, WriterSimulates
<1>2. CASE Start
  <2>1. RunningNow = "linux" /\ RunningNow' = "linux" /\ UNCHANGED <<Content, now>>
    BY <1>2, Seen, SeenNext, ContentOfTarget DEF Start, S!Start, writer, clock
  <2>2. Authorizations' = Authorizations \cup {now}
    <3>1. attempt' = attempt + 1 /\ attempt + 1 \in 1 .. Attempts /\ attempt \in Nat
      BY <1>2, BoundsAssumption DEF Start, Inv, Stamped
    <3>2. stamps'[attempt + 1].created = now
      BY <1>2, <3>1 DEF Start, Inv, Stamped
    <3>3. \A a \in 1 .. attempt : stamps'[a] = stamps[a]
      BY <1>2, <3>1, BoundsAssumption DEF Start, Inv, Stamped
    <3>4. 1 .. attempt' = (1 .. attempt) \cup {attempt + 1}
      BY <3>1
    <3> QED
      BY <3>1, <3>2, <3>3, <3>4 DEF Authorizations
  <2>3. Abstract!Authorize
    BY <2>1, <2>2 DEF Abstract!Authorize, Authorizations
  <2> QED
    BY <2>3 DEF Abstract!Next
<1>3. CASE Install \/ Kill \/ WriteBack \/ SetRTC \/ UNCHANGED vars
  <2>1. UNCHANGED <<media, wstep, now, attempt, stamps>>
    BY <1>3 DEF Install, Kill, WriteBack, SetRTC, vars, writer, clock, trail
  <2>2. step' = step \/ {step, step'} \subseteq S!Running \cup S!Quiet
    BY <1>3, InstallStep
       DEF Install, Installed, Kill, S!Kill, WriteBack, S!WriteBack, SetRTC, vars, staging, Inv, Inherited
  <2>3. RunningNow' = RunningNow
    BY <2>1, <2>2, Seen, SeenNext DEF RunningNow
  <2> QED
    BY <2>1, <2>3, ContentOfTarget, AuthorizationsKept DEF Abstract!vars, Authorizations
<1>4. CASE Shutdown \/ PowerCut \/ PowerCycle \/ WriterReboots \/ WriterOff
  <2>1. UNCHANGED <<media, now, attempt, stamps>>
    BY <1>4 DEF Shutdown, PowerCut, PowerCycle, WriterReboots, WriterOff, LeaveWriter, Fresh, writer, clock, trail
  <2>2. step' = "off" \/ (step' = "writer" /\ wstep' = "manifest")
    BY <1>4 DEF Shutdown, S!Shutdown, S!LinuxUp, PowerCut, S!PowerCut, PowerCycle, S!PowerCycle,
                WriterReboots, WriterOff, LeaveWriter, writer, Inv, Writing, Phased
  <2>3. RunningNow' = "off"
    BY <2>2, SeenNext
  <2>4. Abstract!TurnOff
    BY <2>1, <2>3, ContentOfTarget, AuthorizationsKept DEF Abstract!TurnOff, Authorizations
  <2> QED
    BY <2>4 DEF Abstract!Next
<1>5. CASE BootOld
  <2>1. UNCHANGED <<media, wstep, now, attempt, stamps>> /\ Untouched /\ step = "off"
        /\ step' \in {"idle", "writer", "stuck"} /\ wstep = "manifest"
    BY <1>5 DEF BootOld, S!Boot, S!BootEntry, S!BootWithoutHandler, S!BootLinux, writer, clock, Inv, Writing, Phased
  <2>2. RunningNow = "off" /\ RunningNow' = IF step' = "idle" THEN "linux" ELSE "off"
    BY <2>1, Seen, SeenNext
  <2>3. Content[Target] = "old" /\ UNCHANGED <<Content, Authorizations>>
    BY <2>1, ContentOfTarget, AuthorizationsKept
  <2>4. Abstract!Boot \/ UNCHANGED Abstract!vars
    BY <2>1, <2>2, <2>3 DEF Abstract!Boot, Abstract!vars, Authorizations
  <2> QED
    BY <2>4 DEF Abstract!Next
<1>6. CASE BootNew
  <2>1. UNCHANGED <<media, now, attempt, stamps>> /\ ~Untouched /\ step = "off"
        /\ step' = IF Imaged THEN "chr" ELSE "dead"
    BY <1>6 DEF BootNew, writer, clock, trail
  <2>2. RunningNow = "off" /\ RunningNow' = step'
    BY <2>1, Seen, SeenNext
  <2>3. Content[Target] = (IF Imaged THEN "new" ELSE "torn") /\ UNCHANGED <<Content, Authorizations>>
    BY <2>1, ContentOfTarget, AuthorizationsKept
  <2>4. Abstract!Boot
    BY <2>1, <2>2, <2>3 DEF Abstract!Boot, Authorizations
  <2> QED
    BY <2>4 DEF Abstract!Next
<1>7. CASE WriterDies
  <2>1. UNCHANGED <<media, now, attempt, stamps>> /\ step = "writer" /\ wstep \in W!Working
        /\ step' = IF Untouched THEN "idle" ELSE "stuck"
    BY <1>7 DEF WriterDies, LeaveWriter, Fresh, clock
  <2>2. RunningNow \in {"off", "writer"} /\ RunningNow' = IF Untouched THEN "linux" ELSE "off"
    BY <2>1, Seen, SeenNext DEF W!Working
  <2>3. (Untouched => Content[Target] = "old") /\ UNCHANGED <<Content, Authorizations>>
    BY <2>1, ContentOfTarget, AuthorizationsKept
  <2>4. Abstract!Boot \/ Abstract!TurnOff
    BY <2>1, <2>2, <2>3 DEF Abstract!Boot, Abstract!TurnOff, Authorizations
  <2> QED
    BY <2>4 DEF Abstract!Next
<1>8. CASE Tick
  <2>1. UNCHANGED <<media, step, wstep, attempt, stamps>> /\ now' = now + 1 /\ Waiting
    BY <1>8 DEF Tick, staging, writer, trail
  <2>2. RunningNow # "writer" /\ RunningNow' = RunningNow
    BY <2>1, Seen, SeenNext DEF Waiting
  <2>3. Abstract!Tick
    BY <2>1, <2>2, ContentOfTarget, AuthorizationsKept DEF Abstract!Tick, Authorizations
  <2> QED
    BY <2>3 DEF Abstract!Next
<1> QED
  BY <1>1, <1>2, <1>3, <1>4, <1>5, <1>6, <1>7, <1>8 DEF Next

(* A host that has not been touched is where SafeInstall begins.           *)
LEMMA InitSimulates == Init => Abstract!Init
<1> SUFFICES ASSUME Init PROVE Abstract!Init
  OBVIOUS
<1>1. RunningNow = "linux"
  BY Seen DEF Init, S!Init
<1>2. Content = [d \in Disks |-> "old"]
  BY DEF Init, W!Init, Content
<1>3. Authorizations = {}
  BY DEF Init, Authorizations
<1> QED
  BY <1>1, <1>2, <1>3 DEF Abstract!Init, Init, Authorizations

(* Installer, writer and clock together implement SafeInstall: in every    *)
(* behaviour only the authorized disk changes, only under a writer whose   *)
(* authorization is at most MaxAge and MaxRTCOffset old, Linux boots only  *)
(* from a disk that nobody has touched, and the writer says that it has    *)
(* finished only when the whole image is on the disk.                      *)
THEOREM Refinement == Spec => InstallsSafely
BY InitSimulates, StepSimulates, Invariant, PTL DEF Spec, InstallsSafely, Abstract!Spec

-----------------------------------------------------------------------------
(* The latest attempt.                                                     *)

Building == {"memory", "makeBootDir", "bootSpace", "copyInitrd"}
Scripting == {"dropBuild", "renderScript", "writeScript"}
Arming   == {"updateGrub", "checkConfig", "checkStorage", "arm"}

\* A copy, if there is one, is the latest attempt's.
Own(c) == copies[c] \in {0, attempt}

\* Will or may kexec start what is loaded?
Kexecing ==
    \/ step \in {"systemctlKexec", "kexecExec"} \/ (step = "cleanup" /\ return = "loaded")
    \/ reboot = "kexec"

\* From the build to the boot, the attempt's own initramfs is what goes on to the
\* next place: no step that arms an entry or reboots meets another one there.
Latest ==
    /\ step \in Building \/ (step \in {"sync", "kexecLoad"} /\ method = "kexec") => Own("build")
    /\ step \in Scripting \cup Arming \/ (step = "sync" /\ method # "kexec") => Own("initrd")
    /\ step \in Arming => fallback \/ Own("durable")
    /\ armed /\ ~inherited => Own("initrd") /\ (fallback \/ Own("durable"))
    /\ Kexecing /\ loaded => Own("image")
    /\ LatestWriter

(* There is no writer before the first attempt.                            *)
LEMMA LatestInit == Init => Latest
BY DEF Init, S!Init, Latest, Building, Scripting, Arming, Kexecing, LatestWriter

\* How a step of the installer comes to be reached.
Ordered ==
    /\ step' \in Building => step \in {"build"} \cup Building
    /\ step' = "sync" /\ method' = "kexec" => step = "memory"
    /\ step' = "sync" /\ method' # "kexec" => step = "writeScript"
    /\ step' = "kexecLoad" => step = "sync" /\ method = "kexec"
    /\ step' \in Scripting => step \in Scripting \/ (step = "copyInitrd" /\ step' = "dropBuild")
    /\ step' = "updateGrub" => (step = "sync" /\ method # "kexec") \/ (step = "writeScript" /\ fallback')
    /\ step' \in Arming \ {"updateGrub"} => step \in Arming
    /\ armed' => armed \/ step = "arm"
    /\ fallback => fallback'
    /\ Kexecing' => \/ Kexecing
                    \/ step = "kexecLoad" /\ known'

(* The order of the steps is that of the code.                             *)
LEMMA InstallOrdered == ASSUME Staged, S!Installer PROVE Ordered
<1> USE DEF Ordered, Building, Scripting, Arming, Kexecing
<1>1. CASE S!PrepareStep
  BY <1>1 DEF S!PrepareStep, S!AfterPrepare, Staged, BuildKept, GrubPrepare
<1>2. CASE S!PrepareFails
  BY <1>2 DEF S!PrepareFails
<1>3. CASE S!Sync
  BY <1>3 DEF S!Sync, S!Goto, S!CallCleanup, S!process
<1>4. CASE S!KexecLoad
  BY <1>4 DEF S!KexecLoad, S!AfterKexec, S!CallCleanup
<1>5. CASE S!SystemctlKexec \/ S!KexecExec \/ S!KexecUnload
  BY <1>5 DEF S!SystemctlKexec, S!KexecExec, S!KexecUnload, S!AfterKexec, S!CallCleanup, S!Goto, S!process
<1>6. CASE S!UpdateGrub \/ S!CheckConfig \/ S!CheckStorage
  BY <1>6 DEF S!UpdateGrub, S!CheckConfig, S!CheckStorage, S!FailGRUB, S!CallCleanup, S!Goto, S!process,
              S!machine
<1>7. CASE S!Arm \/ S!Verify \/ S!SystemctlReboot \/ S!Reboot
  BY <1>7 DEF S!Arm, S!Verify, S!SystemctlReboot, S!Reboot, S!FailGRUB, S!CallCleanup, S!Goto, S!process,
              S!machine
<1>8. CASE S!Cleanup \/ S!PartialCleanup
  <2>1. PICK a : S!RemoveOne(a)
    BY <1>8 DEF S!Cleanup, S!PartialCleanup
  <2>2. armed' => armed
    BY <2>1 DEF S!RemoveOne, S!RemovalWorks
  <2>3. UNCHANGED <<step, method, fallback, return, known, reboot>> /\ step \in S!CleanupSteps
    BY <1>8 DEF S!Cleanup, S!PartialCleanup
  <2> QED
    BY <2>2, <2>3
<1>9. CASE S!CleanupDone \/ S!PartialCleanupDone
  BY <1>9 DEF S!CleanupDone, S!PartialCleanupDone, S!Goto, S!FallBack, S!process, S!machine
<1> QED
  BY <1>1, <1>2, <1>3, <1>4, <1>5, <1>6, <1>7, <1>8, <1>9 DEF S!Installer, S!Execute

(* The installer hands its own initramfs from step to step.                *)
LEMMA InstallLatest == ASSUME Inherited, Latest, Install PROVE Latest'
<1>1. Installed /\ Ordered
  BY InstallStep, InstallOrdered DEF Install, Inherited
<1>2. PICK image \in {copies.build, copies.image} :
        /\ step = "kexecLoad" /\ known' => image = copies.build
        /\ step # "kexecLoad" \/ ~loaded => image = IF loaded THEN copies.image ELSE copies.build
        /\ copies' =
              [build   |-> Made(disk'["build"] = "full", IF step = "build" THEN attempt ELSE copies.build),
               initrd  |-> Made(disk'["initrd"] = "full", Copied),
               durable |-> IF step = "sync" /\ step' \in {"kexecLoad", "updateGrub"}
                           THEN copies.initrd ELSE copies.durable,
               image   |-> Made(loaded', image),
               running |-> 0]
  BY DEF Install, Copying
<1>3. UNCHANGED <<attempt, inherited>> /\ step' # "writer"
  BY <1>1 DEF Install, Installed
<1>4. step = "build" \/ Own("build") => Own("build")'
  BY <1>2, <1>3 DEF Own, Made
<1>5. /\ Own("initrd") /\ ~(step = "copyInitrd" /\ step' = "dropBuild") => Own("initrd")'
      /\ Own("build") /\ step = "copyInitrd" /\ step' = "dropBuild" => Own("initrd")'
  BY <1>2, <1>3 DEF Own, Made, Copied
<1>6. /\ Own("durable") /\ ~(step = "sync" /\ step' \in {"kexecLoad", "updateGrub"}) => Own("durable")'
      /\ Own("initrd") /\ step = "sync" /\ step' \in {"kexecLoad", "updateGrub"} => Own("durable")'
  BY <1>2, <1>3 DEF Own
<1>7. step' \in Building \/ (step' \in {"sync", "kexecLoad"} /\ method' = "kexec") => Own("build")'
  BY <1>1, <1>4 DEF Latest, Ordered, Building
<1>8. step' \in Scripting \cup Arming \/ (step' = "sync" /\ method' # "kexec") => Own("initrd")'
  BY <1>1, <1>5 DEF Latest, Ordered, Building, Scripting, Arming
<1>9. step' \in Arming => fallback' \/ Own("durable")'
  BY <1>1, <1>6 DEF Latest, Ordered, Arming
<1>10. armed' /\ ~inherited' => Own("initrd")' /\ (fallback' \/ Own("durable")')
  BY <1>1, <1>3, <1>5, <1>6 DEF Latest, Ordered, Building, Arming
<1>11. Kexecing' /\ loaded' => Own("image")'
  <2>1. CASE step = "kexecLoad" /\ known'
    BY <1>2, <1>3, <2>1 DEF Latest, Own, Made, Inherited, Staged, BuildKept
  <2>2. CASE Kexecing /\ ~(step = "kexecLoad" /\ known')
    <3>1. step = "kexecLoad" => Own("build")
      BY DEF Latest, Inherited, Staged, BuildKept
    <3>2. loaded' => image \in {0, attempt}
      BY <1>1, <1>2, <2>2, <3>1 DEF Latest, Own, Installed
    <3> QED
      BY <1>2, <1>3, <3>2 DEF Own, Made
  <2> QED
    BY <1>1, <2>1, <2>2 DEF Ordered
<1> QED
  BY <1>3, <1>7, <1>8, <1>9, <1>10, <1>11 DEF Latest, LatestWriter

(* A kexec reboot runs the loaded copy; a power cut goes back to the durable *)
(* one, and a fallback that has lost power counts as inherited.              *)
LEMMA DownLatest == ASSUME Inherited, Latest, Kill \/ Shutdown \/ PowerCut PROVE Latest'
<1> USE DEF Building, Scripting, Arming
<1>1. CASE Kill
  <2>1. /\ UNCHANGED <<armed, loaded, reboot, fallback, attempt, inherited>> /\ step' = "idle"
        /\ \E built : copies' = [copies EXCEPT !.build = built]
    BY <1>1 DEF Kill, S!Kill
  <2>2. \A c \in {"initrd", "durable", "image"} : copies'[c] = copies[c]
    BY <2>1 DEF Inherited, Numbered, Copy
  <2> QED
    BY <2>1, <2>2 DEF Latest, Own, Kexecing, LatestWriter
<1>2. CASE Shutdown
  <2>1. /\ UNCHANGED <<armed, attempt, inherited>> /\ reboot' = "no" /\ loaded' = FALSE
        /\ step' = IF reboot = "kexec" /\ loaded THEN "writer" ELSE "off"
    BY <1>2 DEF Shutdown, S!Shutdown, S!ForgetSystem
  <2>2. PICK built : copies' = [copies EXCEPT !.build = built, !.durable = copies.initrd,
                                   !.running = Made(step' = "writer", copies.image), !.image = 0]
    BY <1>2 DEF Shutdown, Inherited, Numbered, Copy
  <2>3. /\ copies'["initrd"] = copies.initrd /\ copies'["durable"] = copies.initrd
        /\ copies'.running = Made(step' = "writer", copies.image)
    BY <2>2 DEF Inherited, Numbered, Copy
  <2>4. step' = "writer" => copies'.running = attempt'
    BY <2>1, <2>3 DEF Made, Latest, Own, Kexecing, Inherited, Numbered
  <2> QED
    BY <2>1, <2>3, <2>4 DEF Latest, Own, Kexecing, LatestWriter
<1>3. CASE PowerCut
  <2>1. /\ UNCHANGED <<armed, attempt>> /\ reboot' = "no" /\ loaded' = FALSE /\ step' = "off"
        /\ inherited' = (inherited \/ fallback)
    BY <1>3 DEF PowerCut, S!PowerCut, S!ForgetSystem
  <2>2. PICK built : copies' = [copies EXCEPT !.build = built, !.initrd = copies.durable, !.image = 0]
    BY <1>3 DEF PowerCut, Inherited, Numbered, Copy
  <2>3. copies'["initrd"] = copies.durable /\ copies'["durable"] = copies.durable
    BY <2>2 DEF Inherited, Numbered, Copy
  <2> QED
    BY <2>1, <2>3 DEF Latest, Own, Kexecing, LatestWriter
<1> QED
  BY <1>1, <1>2, <1>3

(* Everything else leaves the copies alone or boots the one that was armed. *)
LEMMA LatestNext == ASSUME Inherited, Latest, [Next]_vars PROVE Latest'
<1> USE DEF Building, Scripting, Arming
<1>1. CASE Start
  <2>1. /\ step' = "makeBuildDir" /\ inherited' = armed /\ armed' = armed /\ reboot' = "no"
    BY <1>1 DEF Start, S!Start, S!machine
  <2> QED
    BY <2>1 DEF Latest, Kexecing, LatestWriter
<1>2. CASE WriteBack
  <2>1. UNCHANGED <<step, method, fallback, return, armed, loaded, reboot, attempt, inherited>>
    BY <1>2 DEF WriteBack, S!WriteBack, S!process, staging
  <2>2. copies' = copies \/ copies' = [copies EXCEPT !.durable = copies.initrd]
    BY <1>2 DEF WriteBack
  <2>3. \A c \in {"build", "initrd", "image", "running"} : copies'[c] = copies[c]
    BY <2>2 DEF Inherited, Numbered, Copy
  <2>4. copies'["durable"] \in {copies["durable"], copies["initrd"]}
    BY <2>2 DEF Inherited, Numbered, Copy
  <2>5. \A c \in {"build", "initrd", "image"} : Own(c) => Own(c)'
    BY <2>1, <2>3 DEF Own
  <2>6. Own("durable") /\ Own("initrd") => Own("durable")'
    BY <2>1, <2>4 DEF Own
  <2>7. LatestWriter'
    BY <2>1, <2>3 DEF Latest, LatestWriter
  <2>8. Kexecing' = Kexecing
    BY <2>1 DEF Kexecing
  <2> QED
    BY <2>1, <2>5, <2>6, <2>7, <2>8 DEF Latest
<1>3. CASE BootOld
  <2>1. /\ UNCHANGED <<fallback, loaded, reboot, attempt, inherited, return>>
        /\ step' \in {"idle", "writer", "stuck"}
        /\ armed' => armed
        /\ step' = "writer" => armed /\ disk["initrd"] = "full"
    BY <1>3 DEF BootOld, S!Boot, S!BootEntry, S!BootWithoutHandler, S!BootLinux, S!process, S!machine,
                Inherited, Staged, Files, Whole
  <2>2. copies' = [copies EXCEPT !.running = Made(step' = "writer", copies.initrd)]
    BY <1>3 DEF BootOld
  <2>3. /\ \A c \in {"initrd", "durable", "image"} : copies'[c] = copies[c]
        /\ copies'.running = Made(step' = "writer", copies.initrd)
    BY <2>2 DEF Inherited, Numbered, Copy
  <2>4. LatestWriter'
    BY <2>1, <2>3 DEF Made, Latest, LatestWriter, Own, Inherited, Numbered
  <2> QED
    BY <2>1, <2>3, <2>4 DEF Latest, Own, Kexecing
<1>4. CASE WriterReboots \/ WriterOff \/ WriterDies
  <2>1. /\ UNCHANGED <<fallback, armed, loaded, reboot, return, attempt, inherited>>
        /\ step' \in {"off", "idle", "stuck"} /\ copies' = [copies EXCEPT !.running = 0]
    BY <1>4 DEF WriterReboots, WriterOff, WriterDies, LeaveWriter
  <2>2. \A c \in {"initrd", "durable", "image"} : copies'[c] = copies[c]
    BY <2>1 DEF Inherited, Numbered, Copy
  <2> QED
    BY <2>1, <2>2 DEF Latest, Own, Kexecing, LatestWriter
<1>5. CASE BootNew \/ PowerCycle
  <2>1. /\ UNCHANGED <<fallback, armed, loaded, reboot, return, copies, attempt, inherited>>
        /\ step' \in {"off", "chr", "dead"}
    BY <1>5 DEF BootNew, PowerCycle, S!PowerCycle, S!process, S!machine, trail
  <2> QED
    BY <2>1 DEF Latest, Own, Kexecing, LatestWriter
<1>6. CASE RunWriter \/ Tick \/ SetRTC \/ UNCHANGED vars
  <2>1. UNCHANGED <<step, method, fallback, return, armed, loaded, reboot, copies, attempt, inherited>>
    BY <1>6 DEF RunWriter, Tick, SetRTC, vars, staging, trail
  <2> QED
    BY <2>1 DEF Latest, Own, Kexecing, LatestWriter
<1> QED
  BY <1>1, <1>2, <1>3, <1>4, <1>5, <1>6, InstallLatest, DownLatest DEF Next

(* Whatever is killed, fails or loses power, in any number of attempts: the *)
(* writer that runs is the latest attempt's, with the target and the image  *)
(* confirmed in it, unless the entry was armed when that attempt began or   *)
(* power was cut during its fallback.                                       *)
THEOREM LatestRuns == Spec => []LatestWriter
<1>1. Init => Inherited /\ Latest
  BY InheritedInit, LatestInit
<1>2. Inherited /\ Latest /\ [Next]_vars => (Inherited /\ Latest)'
  BY InheritedNext, LatestNext
<1>3. Latest => LatestWriter
  BY DEF Latest
<1> QED
  BY <1>1, <1>2, <1>3, PTL DEF Spec
=============================================================================
