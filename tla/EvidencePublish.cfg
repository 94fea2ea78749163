\* Two commands, another program that replaces the document again and again,
\* two failing system calls and one kill, at every step.
SPECIFICATION Spec
CONSTANTS
    Writers = {w1, w2}
    Foreign = {f1, f2}
    First = First
    None = None
    MaxFaults = 2
    MaxCrashes = 1
SYMMETRY Symmetric
INVARIANTS NoLostUpdate PredecessorKept RollbackRestores LaterWriterWins
PROPERTIES OnlyOwnedUnlinked
CHECK_DEADLOCK FALSE
