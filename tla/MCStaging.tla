------------------------------ MODULE MCStaging ------------------------------
(* The instances of Staging that TLC checks.                               *)
EXTENDS Staging

\* configureStaging prefers kexec when it is usable, with GRUB as a fallback.
AllHosts == {h \in HostType : h.method = "grub" => h.grub}

\* Hosts on which GRUB does what the installer asks of it.
SoundHosts == {h \in AllHosts : h.handler /\ h.env}

KexecHosts == {h \in SoundHosts : h.method = "kexec"}
GrubHosts  == {h \in SoundHosts : h.method = "grub"}

AllSteps == Running \cup Artifacts \cup {"armed"}

\* The commands; the rest of the steps are system calls with one outcome.
Commands == {"kexecLoad", "systemctlKexec", "kexecUnload", "updateGrub", "arm",
             "systemctlReboot", "reboot", "armed", "menu"}

\* What matters to a killed or interrupted attempt: one failure of each kind,
\* and the removals whose order decides what GRUB finds.
CrashFaults == {"build", "writeScript", "kexecUnload", "checkStorage",
                "armed", "script", "initrd", "menu"}
CrashLateFaults == {"arm", "systemctlReboot", "armed"}

\* The failures of the runs that show one scenario each.
RerunFaults    == {"bootSpace", "copyInitrd"}
NoSteps        == {}
=============================================================================
