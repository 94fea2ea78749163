SPECIFICATION ClaimsSpec
CONSTANTS
    Claimants = {a1, a2}
    Packages = {p1}
    Ttls = {1}
    MaxTtl = 1
    MaxTime = 1
    NoPackage = NoPackage
INVARIANTS OneHolder
