SPECIFICATION Spec
CONSTANTS
    Proc = {p1, p2, p3}
    NoProc = NoProc
    MaxAnswers = 3
    MaxEpoch = 1
    Lossy = TRUE
SYMMETRY MCSymmetry
INVARIANTS
    TypeOK
    SingleFlight
    Joined
    NoReplay
CHECK_DEADLOCK FALSE
