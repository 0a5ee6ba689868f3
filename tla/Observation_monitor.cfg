SPECIFICATION LiveSpec
CONSTANTS
    Links = {n1}
    Modes = {"C", "T"}
    LocalMonitor = {n1}
    Fields = {rx}
    Callers = {c1}
    Nobody = Nobody
PROPERTIES
    ClearIsTrue
