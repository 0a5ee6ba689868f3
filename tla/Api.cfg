SPECIFICATION Spec
CONSTANTS
    r1 = r1
    r2 = r2
    Creds = {alice, bob, viewer}
    Control = {alice, bob}
    Stranger = stranger
    Bodies = {"links", "connect", "announcements", "time"}
    Requests = {r1, r2}
    Withdrawn = withdrawn
    Meaning <- MCMeaning
    Keys = {k}
    NoKey = NoKey
    Limit = 1
    MaxRows = 2
SYMMETRY MCSymmetry
INVARIANTS
    TypeOK
    DisabledIsCurrent
    PagingMissesNothing
PROPERTIES
    RetryIsAnsweredAlike
