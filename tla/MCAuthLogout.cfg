SPECIFICATION Spec
CONSTANTS
    Proc = {p1, p2}
    NoProc = NoProc
    MaxAnswers = 4
    MaxEpoch = 1
    Lossy = FALSE
SYMMETRY MCSymmetry
INVARIANTS
    NoResurrection
CHECK_DEADLOCK FALSE
