CONSTANTS
    q1 = q1
    OtherID = OtherID
    Nil = Nil
    Failure = Failure
    Calls = {c1, c2}
    RequestIDs = {q1}
    Images <- GoodImages
    MaxDuration = 15
    MaxSkew = 2
    RequireSync = TRUE
    RequirePose = TRUE
SPECIFICATION FairSpec
PROPERTIES
    EveryCallReturns
    NoGoroutineLeak
