\* Counters of one bit, also for the total, and for two oom_score_adj values; a
\* text buffer that the last of three targets overruns, as the last of six may
\* overrun 92 characters.
CONSTANTS
    Requests <- MCRequests
    MAX_TARGETS = 3
    PROPERTY_VALUE_MAX = 16
    KillAdjs = {0, 100, 900}
    MAX_DISTINCT_OOM_ADJ = 2
    CounterMod = 2
    TotalMod = 2
    Configs <- MCConfigs
    LevelAdj <- MCLevelAdj
    FreePages = {20, 21, 30}
    FilePages = {20, 28}
    ReservePages = 1
    MemPressures = {50, 60, 70, 90}
    upgrade_pressure = 60
    downgrade_pressure = 80
    MaxKills = 3
SPECIFICATION Spec
INVARIANTS AnswersTrue MinfreeMostSevere PressureIsJudged
