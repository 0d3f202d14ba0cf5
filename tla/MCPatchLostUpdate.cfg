SPECIFICATION Spec
CONSTANTS
    Proc = {p1, p2}
    FileSize = 2
    Byte = {b0, b1}
    MAX_PATCHES_PER_BINARY = 3
    MAX_PATCH_BYTES = 1
    MaxApplies = 2
    Faults = {"concurrent"}
PROPERTIES
    NoActiveDropped
