SPECIFICATION Spec
CONSTANTS
    n1 = n1
    Links = {n1}
    Modes = {"C", "T", "R"}
    Requests <- MCRequests
    Policy <- MCPolicy
INVARIANTS
    EffectIsTrue
    SentForAReason
PROPERTIES
    StepsOfControlPlane
