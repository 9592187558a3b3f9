\* A low limit, so that two percent of refaults pass it and it can be cut.
CONSTANTS
    LimitPct = 1
    DecayPct = 50
    CriticalPct = 3
    AfterKillMin = 0
    LowmemMin = 701
    VendorMins = {0, 300}
    MaxGrowth = 2
SPECIFICATION Spec
INVARIANTS PerceptibleProtected ThrashingForgottenAfterKill
