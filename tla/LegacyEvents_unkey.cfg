SPECIFICATION Spec
CONSTANTS
    Nodes = {n1}
    Fields = {rx}
    Clients = {c1}
    MaxQueue = 3
PROPERTIES
    NoInventedUnkey
