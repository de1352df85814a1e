SPECIFICATION FairSpec
CONSTANTS
    Jobs = {"a", "b", "w"}
    WorkerJobs = {"w"}
    NoJob = "none"
    StopFirst = TRUE
INVARIANT TypeOK
PROPERTY ReportsItsOwn
PROPERTY StartsAsModelled
PROPERTY StartEnds
