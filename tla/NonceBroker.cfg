SPECIFICATION BrokerSpec
CONSTANTS
    Nonces = {n1, n2, n3}
    Brokers = {b1, b2}
    Conns = {k1, k2, k3}
    Torn = Torn
    NoOne = NoOne
    MaxLedger = 3
    EntryFollowsFile = TRUE
SYMMETRY Symmetry
INVARIANTS ConsumedOnce ConsumedIsDurable
PROPERTIES DamageFailsClosed DurablePrefixKept
