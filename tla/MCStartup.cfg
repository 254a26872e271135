CONSTANTS
    Nil = Nil
    MaxDuration = 1000
    Invocations <- MCInvocations
    PolicyFiles <- MCPolicyFiles
SPECIFICATION Spec
INVARIANTS
    TypeOK
    FlagsOutrankFile
    LiveOnlyWhenSafe
    ValidationNeverConnects
    LoadedPolicySound
CHECK_DEADLOCK FALSE
