SPECIFICATION FairSpec
CONSTANTS
    Proc = {p1, p2}
    FileSize = 1
    Byte = {b0}
    MAX_PATCHES_PER_BINARY = 2
    MAX_PATCH_BYTES = 1
    MaxApplies = 3
    Faults = {"concurrent", "lax", "anyorder"}
INVARIANTS
    SaveAccepted
PROPERTIES
    OpsFinish
