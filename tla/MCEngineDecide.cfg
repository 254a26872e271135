CONSTANTS
    Config <- MCConfig
    Snapshots <- MCSnapshots
    MaxDuration = 31
    ScoreTolerance = 1
    Nil = Nil
SPECIFICATION Spec
INVARIANTS
    TypeOK
    CapacityRespected
    NeverTwiceNorRunning
    CapacityDeferralsJustified
    OrderIndependent
    EarlierDeadlineServed
PROPERTY
    ImplementsAdmission
