\* An endpoint with a parameter.
SPECIFICATION CacheSpec
CONSTANTS
    p1 = p1
    p2 = p2
    t1 = t1
    t2 = t2
    t3 = t3
    Procs = {p1, p2}
    Threads = {t1, t2, t3}
    ProcOf <- MCProcOf
    Queries = {5, 20}
    NoParam = 0
    NoCache = NoCache
    UseRedis = TRUE
    Ttl = 2
    MaxCompute = 1
    MaxClock = 3
INVARIANT AnswersItsQuery
SYMMETRY MCSymmetry
