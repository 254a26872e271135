CONSTANTS
    OtherID = OtherID
    Nil = Nil
    Failure = Failure
    Calls = {c1, c2}
    RequestIDs = {q1, q2}
    Images <- MCImages
    MaxDuration = 15
    MaxSkew = 1
    RequireSync = TRUE
    RequirePose = TRUE
    Frames <- MCFrames
    Wirings <- MCWirings
    MaxTime = 2
SYMMETRY Symmetry
SPECIFICATION SystemSpec
INVARIANTS
    LinkTypeOK
    DeliveredAfterRequest
PROPERTY
    ImplementsCoordinator
