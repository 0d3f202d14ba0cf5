SPECIFICATION Spec
CONSTANTS
    Proc = {p1}
    Content = {c1, c2}
    Symbolic = {c2}
    Batches = 2
    IdPool = {1, 2, 3}
    NoProc = NoProc
    NoContent = NoContent
    Faults = {"oldmapping"}
INVARIANTS
    Fresh
