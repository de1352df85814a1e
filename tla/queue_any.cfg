SPECIFICATION Spec
CONSTANTS
    NumSources = 2
    NumTargets = 1
    Jobs = {"a", "b3"}
    WorkerJobs = {"b3"}
    Env = {"LongJobs", "StartErrors", "EarlyClients"}
    c1 = c1
    c2 = c2
    c3 = c3
    Conns = {c1, c2, c3}
    ReleaseTimeout = 1
    CopyAge = 0
    Elapse = {0, 1}
    SlotBuffer = 3
    SlotTypes <- MCTypes
    TypeOf <- MCTypeOf
    YTypes <- MCYTypes
    NoType = ""
    NoJob = "none"
SYMMETRY ConnSymmetry
INVARIANT TypeOK
INVARIANT AddressKnown
INVARIANT SlotAccounted
INVARIANT OneReplyPerRequest
