SPECIFICATION Spec
CONSTANTS
    Edits <- MCEdits
    Roots <- MCRoots
    Budget <- MCBudget
    Merged = {"edit", "review"}
    Declared <- MCDeclared
    MaxCommits = 6
    Reviewer = "ann"
    External = "active"
    Verifier = "verifier"
    Gates = {"verifier", "other"}
    MaxInodes = 3
    MaxTime = 1
    Validity = 1
    NoReview = NoReview
    NoMergeGate = NoMergeGate
INVARIANTS
    OneCommitCarriesAll
    NothingAfterReview
    ProtectedIsReviewed
    NoRawInHistory
    OneGateAtATime
CHECK_DEADLOCK FALSE
