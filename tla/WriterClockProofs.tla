--------------------------- MODULE WriterClockProofs ---------------------------
(***************************************************************************)
(* Theorems about WriterClock, for every window, every range of recorded   *)
(* offsets and every error of the RTC.                                     *)
(***************************************************************************)
EXTENDS WriterClock, TLAPS

\* The offset in the manifest is what could be measured of the RTC, which has
\* been left alone or set since; the outcome is that of the validation.
Recorded ==
    /\ created <= now
    /\ InOffsetRange(offset)
    /\ staged => lag = 0 \/ offset = MeasuredOffset
    /\ outcome # "none" => staged
    /\ outcome = "accepted" => ValidTimestamp(now - lag)
    /\ outcome = "refused" => ~ValidTimestamp(now - lag)

ClockInv == TypeOK /\ Recorded

LEMMA ClockInit == Init => ClockInv
<1> SUFFICES ASSUME Init PROVE ClockInv
  OBVIOUS
<1>1. TypeOK
  <2>1. lag \in Int
    BY LagsAssumption DEF Init
  <2>2. now \in Nat /\ created \in Nat /\ offset \in Int
    BY DEF Init
  <2>3. readable \in BOOLEAN /\ staged \in BOOLEAN /\ outcome \in {"none", "accepted", "refused"}
    BY DEF Init
  <2> QED
    BY <2>1, <2>2, <2>3 DEF TypeOK
<1>2. InOffsetRange(0)
  BY WindowAssumption DEF InOffsetRange
<1> QED
  BY <1>1, <1>2 DEF Init, ClockInv, Recorded

LEMMA ClockNext == ClockInv /\ [Next]_vars => ClockInv'
<1> SUFFICES ASSUME ClockInv, [Next]_vars PROVE ClockInv'
  OBVIOUS
<1> USE WindowAssumption, HorizonAssumption
    DEF ClockInv, TypeOK, Recorded, InOffsetRange, MeasuredOffset
<1>1. CASE Stage
  BY <1>1 DEF Stage
<1>2. CASE SetRTC
  BY <1>2 DEF SetRTC
<1>3. CASE ReadManifest
  BY <1>3 DEF ReadManifest, ValidTimestamp, WithinWindow
<1>4. CASE Tick
  BY <1>4 DEF Tick
<1>5. CASE UNCHANGED vars
  BY <1>5 DEF vars, ValidTimestamp, WithinWindow
<1> QED
  BY <1>1, <1>2, <1>3, <1>4, <1>5 DEF Next

(* A fresh writer is refused only where its manifest could not record how    *)
(* far the RTC is off.                                                       *)
THEOREM FreshIsAccepted == Spec => []FreshAccepted
<1>1. Spec => []ClockInv
  BY ClockInit, ClockNext, PTL DEF Spec
<1>2. ClockInv => FreshAccepted
  <2> SUFFICES ASSUME ClockInv, outcome = "refused", Age <= MaxAge, readable, InOffsetRange(lag)
               PROVE  FALSE
    BY DEF FreshAccepted
  <2>1. lag = 0 \/ offset = lag
    BY DEF ClockInv, Recorded, MeasuredOffset
  <2>2. CASE lag = 0
    BY <2>2, WindowAssumption
       DEF ClockInv, TypeOK, Recorded, ValidTimestamp, WithinWindow, Age
  <2>3. CASE lag # 0 /\ offset = lag
    BY <2>3, WindowAssumption
       DEF ClockInv, TypeOK, Recorded, ValidTimestamp, WithinWindow, Age
  <2> QED
    BY <2>1, <2>2, <2>3
<1> QED
  BY <1>1, <1>2, PTL

(* No manifest older than MaxAge and MaxRTCOffset together is accepted while *)
(* the RTC is within the range that a manifest may record.                   *)
THEOREM StaleIsRefused == Spec => []StaleRefused
<1>1. Spec => []ClockInv
  BY ClockInit, ClockNext, PTL DEF Spec
<1>2. ClockInv => StaleRefused
  <2> SUFFICES ASSUME ClockInv, outcome = "accepted", InOffsetRange(lag)
               PROVE  Age <= MaxAge + MaxRTCOffset
    BY DEF StaleRefused
  <2>1. CASE WithinWindow(now - lag)
    BY <2>1, WindowAssumption DEF ClockInv, TypeOK, WithinWindow, InOffsetRange, Age
  <2>2. CASE WithinWindow(now - lag + offset)
    <3>1. offset - lag >= -MaxRTCOffset
      BY WindowAssumption DEF ClockInv, TypeOK, Recorded, MeasuredOffset, InOffsetRange
    <3> QED
      BY <2>2, <3>1, WindowAssumption DEF ClockInv, TypeOK, WithinWindow, Age
  <2> QED
    BY <2>1, <2>2 DEF ClockInv, Recorded, ValidTimestamp
<1> QED
  BY <1>1, <1>2, PTL
=============================================================================
