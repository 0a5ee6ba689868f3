SPECIFICATION Spec
CONSTANTS
    Procs = {p1, p2}
    Ops = {o1, o2}
    Creds = {c1, c2}
    Keys = {k1}
    link = link
    unlink = unlink
    announce = announce
    Requests = {link, unlink, announce}
    Kind <- MCKind
    Policy <- MCPolicy
    NoProc = NoProc
    NoOp = NoOp
    NoKey = NoKey
    NoOrigin = NoOrigin
SYMMETRY MCSymmetry
INVARIANTS
    TypeOK
    SingleWorker
    HonestOutcome
    NoOrphan
    SlotIsTruthful
    PolicyGate
    SentOncePerRequest
PROPERTIES
    RowsAreForever
    PoisonedProcessIsReadOnly
    ImplementsContract
