CONSTANTS
    q1 = q1
    OtherID = OtherID
    Nil = Nil
    Failure = Failure
    Calls = {c1, c2}
    RequestIDs = {q1}
    Images <- MCImages
    MaxDuration = 15
    MaxSkew = 2
    RequireSync = TRUE
    RequirePose = TRUE
SYMMETRY CallSymmetry
SPECIFICATION Spec
INVARIANTS
    TypeOK
    OneSession
    AnalyzerSeesOnlySoundPairs
PROPERTY
    ImplementsSerializedPairs
