\* The parts that share no state, one at a time.
SPECIFICATION PlatformSpec
CONSTANTS
    \* The rate limiter: windows of three ticks, two ticks to the second.
    Workers = {w1}
    Clients = {c1}
    Paths = {"/metrics", "/api/reports", "/api/cameras"}
    DefaultLimit = 2
    Overrides <- MCOverrides
    StartsWith <- MCStartsWith
    Window = 3
    Second = 2
    MaxTime = 4
    MaxRequests = 3
    \* The metrics: a list of durations is cut at its third element.
    Routes = {"GET /metrics", "GET /api/trucks"}
    Scrapers = {s1}
    Cap = 2
    Keep = 1
    MaxResponses = 5
    \* Training: two trainers with a database and one without.
    Days = 2
    Trainers = {trainer1, trainer2, trainer3}
    WithDatabase = {trainer1, trainer2}
    NoTrainer = NoTrainer
    Draws <- MCDraws
    Stamps = {1, 2}
    MaxPolicies = 3
    \* The scenarios.
    MaxAttempts = 3
    MaxCount = 3
    \* The start: the script and two workers.
    Starters = {script, worker1, worker2}
    Tables = 4
    Users = 1
    ForeignKeys <- MCForeignKeys
    \* The response cache: an endpoint without parameters, two processes, Redis.
    p1 = p1
    p2 = p2
    t1 = t1
    t2 = t2
    t3 = t3
    Procs = {p1, p2}
    Threads = {t1, t2, t3}
    ProcOf <- MCProcOf
    Queries = {20}
    NoParam = 0
    NoCache = NoCache
    UseRedis = TRUE
    Ttl = 1
    MaxCompute = 1
    MaxClock = 2
SYMMETRY MCSymmetry
INVARIANTS
    WindowHeld
    RetryAfterSuffices
    DurationsAreNewest
    ScrapesExplained
    OneActive
    TrainedIsInferred
    ArtifactFitsPolicy
    PolicyIsConservative
    GeneratedAccounted
    AdminSeeded
    MemoryOnlyWithoutRedis
    AnswersNotStale
PROPERTY RemainingHonest
