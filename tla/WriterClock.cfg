\* Every RTC within and beyond the offset a manifest records, every age.
CONSTANTS
    MaxAge = 4
    FutureLeeway = 1
    MaxRTCOffset = 3
    Lags <- MCLags
    Horizon = 12
SPECIFICATION Spec
INVARIANTS
    FreshAccepted
    StaleRefused
CHECK_DEADLOCK FALSE
