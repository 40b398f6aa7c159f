SPECIFICATION Spec
CONSTANTS
    Settings <- MCSettings
    Options <- MCOptions
    WriteOps <- MCWriteOps
    MaxCalls = 3
    NULL = NULL
INVARIANTS
    TypeOK
    SuccessIsOwn
    NothingLeftBehind
    ConcernIsHonoured
VIEW MCView
CHECK_DEADLOCK FALSE
