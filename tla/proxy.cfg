SPECIFICATION FairSpec
CONSTANTS
    Cors = TRUE
    MaxChunks = 3
INVARIANT TypeOK
INVARIANT OneChunkAfterClose
PROPERTY GivesBackItsSlot
PROPERTY GoroutinesEnd
 
CHECK_DEADLOCK FALSE
