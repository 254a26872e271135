CONSTANTS
    camA = camA
    camB = camB
    gpuC = gpuC
    dupC = dupC
    rareD = rareD
    Nil = Nil
    Malformed = Malformed
    Runtimes = {camA, gpuC}
    Plugin <- MCPlugin
    Config <- MCClosedConfig
    MaxDuration = 31
    ScoreTolerance = 1
    Retention = 2
    Capacities <- MCCapacities
    MaxTime = 4
    MaxReady = 2
SPECIFICATION Spec
INVARIANTS
    TypeOK
    WellFormedNeverRejected
PROPERTY
    AgeKept
