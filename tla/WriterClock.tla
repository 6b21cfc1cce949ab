------------------------------ MODULE WriterClock ------------------------------
(***************************************************************************)
(* The age of a writer manifest: NewManifest, measuredRTCOffset and        *)
(* validateTimestamp in src/internal/install/manifest.go.                  *)
(*                                                                         *)
(* A manifest is stamped with the clock of the running system.  The writer *)
(* has only the real-time clock of the machine, which may run behind or    *)
(* ahead of it, so the manifest also records the difference.  Between the  *)
(* two the system may set the RTC, and a writer that was staged once may   *)
(* be booted at any later time.  Times are in seconds.                     *)
(***************************************************************************)
EXTENDS Integers

CONSTANTS
    MaxAge,       \* manifestMaxAge
    FutureLeeway, \* manifestFutureLeeway
    MaxRTCOffset, \* maxRTCOffset
    Lags,         \* by how much the RTC may run behind the system clock
    Horizon       \* the time at which a model ends

ASSUME WindowAssumption == MaxAge \in Nat /\ FutureLeeway \in Nat /\ MaxRTCOffset \in Nat
ASSUME LagsAssumption == Lags \subseteq Int
ASSUME HorizonAssumption == Horizon \in Nat

VARIABLES
    now,      \* the time, which the system clock of the running Linux shows
    lag,      \* now minus the RTC
    readable, \* can the RTC be read through sysfs?
    staged,   \* has a writer been staged?
    created,  \* CreatedAt of its manifest
    offset,   \* RTCOffset of its manifest
    outcome   \* "none", or what the writer made of the manifest

vars == <<now, lag, readable, staged, created, offset, outcome>>

TypeOK ==
    /\ now \in Nat
    /\ lag \in Int
    /\ readable \in BOOLEAN
    /\ staged \in BOOLEAN
    /\ created \in Nat
    /\ offset \in Int
    /\ outcome \in {"none", "accepted", "refused"}

Init ==
    /\ now = 0
    /\ lag \in Lags
    /\ readable \in BOOLEAN
    /\ staged = FALSE
    /\ created = 0
    /\ offset = 0
    /\ outcome = "none"

InOffsetRange(n) == -MaxRTCOffset <= n /\ n <= MaxRTCOffset

\* Mutant: the difference is taken the wrong way round.
MeasuredOffset_Reversed == IF readable /\ InOffsetRange(lag) THEN -lag ELSE 0

\* measuredRTCOffset: 0 stands for an RTC that is right, unreadable or far off.
MeasuredOffset == IF readable /\ InOffsetRange(lag) THEN lag ELSE 0

\* Mutant: the leeway is granted at both ends of the window.
WithinWindow_Wide(clock) ==
    clock - created >= -FutureLeeway /\ clock - created <= MaxAge + FutureLeeway

\* timestampWithinWindow.
WithinWindow(clock) ==
    clock - created >= -FutureLeeway /\ clock - created <= MaxAge

\* validateTimestamp: the writer's clock as it is, or else adjusted.
ValidTimestamp(clock) ==
    \/ WithinWindow(clock)
    \/ offset # 0 /\ InOffsetRange(offset) /\ WithinWindow(clock + offset)

\* NewManifest.  The manifest is valid at the time it is written.
Stage ==
    /\ outcome = "none"
    /\ staged' = TRUE
    /\ created' = now
    /\ offset' = MeasuredOffset
    /\ UNCHANGED <<now, lag, readable, outcome>>

\* Linux sets the RTC from the system clock, at shutdown or while it runs.
SetRTC ==
    /\ outcome = "none"
    /\ lag' = 0
    /\ UNCHANGED <<now, readable, staged, created, offset, outcome>>

\* The writer boots with the time of the RTC and validates its manifest.
ReadManifest ==
    /\ outcome = "none"
    /\ staged
    /\ outcome' = IF ValidTimestamp(now - lag) THEN "accepted" ELSE "refused"
    /\ UNCHANGED <<now, lag, readable, staged, created, offset>>

Tick ==
    /\ outcome = "none"
    /\ now < Horizon
    /\ now' = now + 1
    /\ UNCHANGED <<lag, readable, staged, created, offset, outcome>>

Next == Stage \/ SetRTC \/ ReadManifest \/ Tick

Spec == Init /\ [][Next]_vars

-----------------------------------------------------------------------------
Age == now - created

\* A writer that is booted within MaxAge of its staging is not refused for its
\* age, whether Linux sets the RTC in between or not, unless the RTC could not
\* be read or was further off than the manifest may record.
FreshAccepted ==
    outcome = "refused" /\ Age <= MaxAge => ~readable \/ ~InOffsetRange(lag)

\* The writer never accepts a manifest older than MaxAge and MaxRTCOffset
\* together, as long as the RTC is not further off than the manifest may
\* record; it may accept one older than MaxAge, because either of the two
\* clocks will do.
StaleRefused ==
    outcome = "accepted" /\ InOffsetRange(lag) => Age <= MaxAge + MaxRTCOffset

=============================================================================
