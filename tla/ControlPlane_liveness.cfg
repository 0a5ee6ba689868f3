SPECIFICATION LiveSpec
CONSTANTS
    Procs = {p1, p2}
    Ops = {o1, o2}
    Creds = {c1}
    Keys = {}
    link = link
    unlink = unlink
    announce = announce
    Requests = {unlink, announce}
    Kind <- MCKind
    Policy <- MCPolicy
    NoProc = NoProc
    NoOp = NoOp
    NoKey = NoKey
    NoOrigin = NoOrigin
PROPERTIES
    SlotIsFreed
    CloseEnds
    EveryOperationSettles
