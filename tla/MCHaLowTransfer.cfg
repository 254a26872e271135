CONSTANTS
    q1 = q1
    q2 = q2
    cam = cam
    BlankID = BlankID
    Refused = Refused
    Nil = Nil
    RequestIDs = {q1, q2}
    CameraIDs = {cam}
    Images <- MCImages
    ChunkBytes = 2
    MaxHaLowChunks = 2
    MaxImageBytes = 3
    MaxCollected = 2
SPECIFICATION Spec
INVARIANTS
    TypeOK
    StoredAsCaptured
    NothingLost
    SplitsAssemble
CHECK_DEADLOCK FALSE
