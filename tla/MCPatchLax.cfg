SPECIFICATION Spec
CONSTANTS
    Proc = {p1}
    FileSize = 2
    Byte = {b0, b1}
    MAX_PATCHES_PER_BINARY = 2
    MAX_PATCH_BYTES = 2
    MaxApplies = 2
    Faults = {"lax"}
INVARIANTS
    EveryEditUndoable
