\* The operator interrupts kexec -l after the kernel took the image.
CONSTANTS
    Hosts <- KexecHosts
    Faults <- NoSteps
    LateFaults <- NoSteps
    Interruptible = TRUE
    Crashes = FALSE
SPECIFICATION Spec
INVARIANTS
    ErrorUnloadsImage
