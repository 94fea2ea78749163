SPECIFICATION FairSpec
CONSTANTS
    Runners = {r1, r2}
    Receipts = {q1}
    NoOne = NoOne
    Bound = Bound
    Other = Other
    Revoked = Revoked
    Versions = {Bound, Other, Revoked}
    Trusts <- MCTrusts
INVARIANTS OneOpenPerReceipt OpenedUnderDecidedAuthority SignedIsTrue
PROPERTIES RequestIsAnswered
CHECK_DEADLOCK FALSE
