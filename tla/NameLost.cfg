\* Two commands alone: no other program, no failing system call, no kill.
SPECIFICATION Spec
CONSTANTS
    Writers = {w1, w2}
    Foreign = {}
    First = First
    None = None
    MaxFaults = 0
    MaxCrashes = 0
SYMMETRY Symmetric
INVARIANTS NameSurvives
CHECK_DEADLOCK FALSE
