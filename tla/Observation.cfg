SPECIFICATION LiveSpec
CONSTANTS
    Links = {n1}
    Modes = {"C", "T"}
    LocalMonitor = {}
    Fields = {rx}
    Callers = {c1, c2}
    Nobody = Nobody
INVARIANTS
    TypeOK
PROPERTIES
    ImplementsContract
    EveryAskIsAnswered
