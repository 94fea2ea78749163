SPECIFICATION EscalationSpec
CONSTANTS
    Categories <- EachTreatment
    Modes = {"plain", "signed"}
    Payloads <- TwoPayloads
    Profiles = {"team-standard", "regulated"}
    MaxFields = 3
    MaxRecords = 1
INVARIANTS ReusedOnlyUnchanged AuthorizedExactly
