CONSTANTS
    camA = camA
    camB = camB
    gpuC = gpuC
    dupC = dupC
    rareD = rareD
    Nil = Nil
    Malformed = Malformed
    Runtimes = {camA, camB, gpuC, dupC, rareD}
    Plugin <- MCPlugin
    Config <- MCConfig
    MaxDuration = 31
    ScoreTolerance = 1
    Retention = 2
    Capacities <- MCCapacities
    MaxTime = 1
    MaxReady = 2
SPECIFICATION FairSpec
INVARIANTS
    LaunchesWhatWasSelected
    ScheduledNamesUnique
    LimitsHold
PROPERTIES
    DecisionExplained
    NoIdleWait
