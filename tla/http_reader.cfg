SPECIFICATION FairSpec
CONSTANTS
    Messages <- MCMessages
    ReadLen = 5
    BuffLen = 4
INVARIANT TypeOK
INVARIANT Transparent
INVARIANT FailsBetween
PROPERTY FirstArrives
CHECK_DEADLOCK FALSE
