\* Nothing unusual, slow handlers, the old strategy, or all that may get in the
\* way of either strategy.
CONSTANT HazardSets = {{}, {"slow"}, {"old", "slow"}, {"fail", "vendor", "parse"}, {"old", "zero"}}
SPECIFICATION FairSpec
INVARIANTS WindowIsPolled LevelGateReopens
PROPERTIES PollingEnds WaitEnds
