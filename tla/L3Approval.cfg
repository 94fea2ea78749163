SPECIFICATION FairSpec
CONSTANTS
    a1 = a1  a2 = a2  c1 = c1  r1 = r1  n1 = n1
    Agents = {a1, a2}
    Clones = {c1}
    CloneOf <- SameClone
    Receipts = {r1}
    NonceOf <- OneNonce
    Nonces = {n1}
    Brokers = {b1}
    Conns = {k1, k2}
    Torn = Torn
    NoOne = NoOne
    MaxLedger = 3
    EntryFollowsFile = TRUE
INVARIANTS AuthorizedOnce CompletedWasConsumed
PROPERTIES NoLostDecision ImplementsOneShot LockIsReleased
