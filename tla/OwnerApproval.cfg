SPECIFICATION Spec
CONSTANTS
    Sessions = {s1, s2}
    Agent = Agent
    Versions = {v1, v2}
    Keys = {k1, k2}
    Audiences = {a1, a2}
    MaxMoves = 2
    NoFile = NoFile
    Nothing = Nothing
SYMMETRY Symmetry
INVARIANTS
    SnapshotsAreReal
    SignedWasShown
    PublishedStillHeld
    CommittedStays
CHECK_DEADLOCK FALSE
