SPECIFICATION Spec
CONSTANTS
    Jobs = {"a"}
    WorkerJobs = {}
    NoJob = "none"
    StopFirst = TRUE
INVARIANT Reconnects
