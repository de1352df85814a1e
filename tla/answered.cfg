SPECIFICATION FairSpec
CONSTANTS
    NumSources = 2
    NumTargets = 1
    Jobs = {"a", "b3", "c"}
    WorkerJobs = {"b3"}
    Env = {"StartErrors"}
    Conns = {"c1", "c2"}
    ReleaseTimeout = 1
    CopyAge = 0
    Elapse = {0, 1}
    SlotBuffer = 3
    SlotTypes <- MCTypes
    TypeOf <- MCTypeOf
    YTypes <- MCYTypes
    NoType = ""
    NoJob = "none"
PROPERTY ImplementsService
