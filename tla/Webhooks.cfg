SPECIFICATION LiveSpec
CONSTANT Nodes = {n1, n2, n3}
INVARIANTS
    TypeOK
    ReportsAlternate
PROPERTIES
    LastingChangesAreReported
