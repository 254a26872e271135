CONSTANTS
    Config <- MCConfig
    MaxDuration = 31
    ScoreTolerance = 1
    Nil = Nil
    Experiments <- MCExperiments
SPECIFICATION Spec
INVARIANTS
    TypeOK
    RunsIndependent
    AllOrNothing
    ChangeReported
    DeltasCount
    MoreUrgentStaysSelected
CHECK_DEADLOCK FALSE
