SPECIFICATION Spec
CONSTANTS
    Messages <- MCRequests
    ReadLen = 5
    BuffLen = 4
INVARIANT OneMessage
CHECK_DEADLOCK FALSE
