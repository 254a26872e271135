CONSTANTS
    Config <- MCConfig
    Snapshots <- NearTies
    MaxDuration = 31
    ScoreTolerance = 1600
    Nil = Nil
SPECIFICATION Spec
INVARIANT OrderIndependent
