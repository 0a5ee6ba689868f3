SPECIFICATION LiveSpec
CONSTANTS
    Plans <- MCPlans
    FrameBudget = 3
    MaxInbox = 3
\* A session ends.
CHECK_DEADLOCK FALSE
INVARIANTS
    TypeOK
    AnswersAreFresh
    ControlIsRecorded
    NothingBeforeLogin
PROPERTIES
    FloodEnds
