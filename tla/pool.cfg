SPECIFICATION Spec
CONSTANTS
    NumSources = 2
    NumTargets = 2
    Jobs = {"a", "c"}
    WorkerJobs = {}
    Env = {"StartErrors", "LateRead"}
    c1 = c1
    c2 = c2
    Conns = {c1, c2}
    ReleaseTimeout = 1
    CopyAge = 0
    Elapse = {0, 1}
    SlotBuffer = 3
    SlotTypes <- MCTypes
    TypeOf <- MCTypeOf
    YTypes <- MCYTypes
    NoType = ""
    NoJob = "none"
SYMMETRY ConnSymmetry
INVARIANT LinkSound
INVARIANT OneSharedTarget
INVARIANT StartDiscipline
