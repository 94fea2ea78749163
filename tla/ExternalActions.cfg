SPECIFICATION Spec
CONSTANTS
    Agents = {a1, a2}
    Actions = {x1}
    Requests = {q1, q2}
    Ttl = 1
    Validity = 1
    Skew = 1
    MaxTime = 1
    MaxSigned = 2
    MaxEdits = 1
    NoReceipt = NoReceipt
    NoOne = NoOne
SYMMETRY Symmetry
INVARIANTS RowsAreSound EventsAgree ToldOnlyWhatWasSigned
PROPERTIES RowsAreFinal
