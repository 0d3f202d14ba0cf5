SPECIFICATION Spec
CONSTANTS
    Binaries = {b1, b2}
    Versions = {v1, v2}
    Functions = {f, g}
    Commands = {u1, u2}
    MaxRuns = 2
    NoVersion = NoVersion
    NoWriter = NoWriter
    NoBinary = NoBinary
    NoFunction = NoFunction
    Documents <- MCDocuments
    Scopes <- MCScopes
INVARIANTS
    TypeOK
    RunsTracked
    StopsWriting
    LockAfterRefusal
PROPERTIES
    UserNoteKept
    CancelEnds
CHECK_DEADLOCK FALSE
