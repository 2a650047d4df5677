SPECIFICATION Spec
CONSTANTS
    Second = 3
    StaleAfter = 6
    ListAge = 3
    NoTime = NoTime
    NoAnswer = NoAnswer
    MaxTime = 11
    MaxPolls = 2
INVARIANT ReusedAnswersTellTheTruth
CHECK_DEADLOCK FALSE
