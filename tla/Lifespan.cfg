SPECIFICATION LiveSpec
CONSTANTS
    Procs = {p1, p2}
    Nobody = Nobody
INVARIANTS
    TypeOK
    OwnerFirst
    SessionOutlivesMonitor
PROPERTIES
    ShutdownEnds
    DirectoryRecovers
