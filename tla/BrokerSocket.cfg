SPECIFICATION FairSpec
CONSTANTS
    Daemons = {d1, d2, d3}
    NoSocket = NoSocket
    MaxFailures = 3
    MaxBackoff = 3
INVARIANTS ServedIsReachable
PROPERTIES OnlyOwnSocketUnlinked CleanupEnds
CHECK_DEADLOCK FALSE
