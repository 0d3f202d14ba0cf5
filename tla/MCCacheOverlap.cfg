SPECIFICATION MCFairSpec
CONSTANTS
    Proc = {p1}
    Content = {c1, c2}
    Symbolic = {c2}
    Batches = 3
    IdPool = {1, 2, 3}
    NoProc = NoProc
    NoContent = NoContent
    Faults = {"overlap", "oldmapping", "crash"}
    Cells = 6
    Page = 4
    MaxCopy = 5
    MaxText = 4
    MaxLine = 2
    Unlimited = 99
    LibcScopes <- MCLibcScopes
    Abis <- MCAbis
    MaxInstructions = 5
    MaxAccesses = 2
    Deepest = 3
INVARIANTS
    WholeListing
    LibcTells
    
PROPERTIES
    LockReleased
CHECK_DEADLOCK FALSE
