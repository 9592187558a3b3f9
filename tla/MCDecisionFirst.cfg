\* The recheck before the first kill.
CONSTANTS
    LimitPct = 1
    DecayPct = 50
    CriticalPct = 3
    AfterKillMin = 0
    LowmemMin = 701
    VendorMins = {0, 300}
    MaxGrowth = 2
SPECIFICATION Spec
INVARIANT FirstKillIsChecked
